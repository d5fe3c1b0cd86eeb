------------------------------ MODULE PoolProps ------------------------------
(***************************************************************************)
(* What the connection pool promises, stated over the state of Pool.       *)
(***************************************************************************)
EXTENDS Pool

(* Every place that holds connection c itself and not a clone of it: an    *)
(* idle entry, a connection out of its guard, a Pooled that will give it   *)
(* back, such a Pooled inside a channel, and push().                       *)
Owned(c) == [conn |-> c, reused |-> FALSE]

Holders(c) ==
  (UNION {{<<"idle", k, i>> : i \in {j \in DOMAIN idle[k] : idle[k][j] = c}} :
            k \in Keys})
  \cup {<<"raw", r>>  : r \in {s \in Reqs : raw[s] = c}}
  \cup {<<"own", r>>  : r \in {s \in Reqs : own[s] = Owned(c)}}
  \cup {<<"box", r>>  : r \in {s \in Reqs : box[s] = Owned(c)}}
  \cup {<<"push", r>> : r \in {s \in Reqs : lock.by = s /\ lock.conn = c}}

(* A connection is in one place: it is never idle twice, idle and in use,  *)
(* or given to two requests, along every path by which checkout, push, the *)
(* oneshot channels and Pooled::drop hand it on (mod.rs:156-193, 307-320). *)
OneOwner == \A c \in Conns : \A x, y \in Holders(c) : x = y

(* Two requests hold the same connection only when reuse() can clone it    *)
(* (connection.rs:139-146).                                                *)
OnlyClonesShared ==
  \A r, s \in Reqs :
    own[r].conn # NONE /\ own[r].conn = own[s].conn /\ r # s
      => kind[own[r].conn] = "h2"

(* A connection with an exchange on it is with the request that uses it:   *)
(* Pooled::drop asks is_open() before it gives a connection back           *)
(* (mod.rs:310), and the task behind execute_request drops the Pooled only *)
(* once when_ready resolved (service.rs:383-389).                          *)
NeverPooledBusy ==
  \A c \in Conns :
    st[c] = "busy" => Holders(c) \subseteq {<<"own", r>> : r \in Reqs}

(* An HTTP/1 connection carries one exchange at a time: no two requests    *)
(* hold it, and while it waits in the pool, or is on its way to another    *)
(* request, its last exchange is over, so nothing is pipelined on it.      *)
ExclusiveHttp1 == OnlyClonesShared /\ NeverPooledBusy

(* Connections stay with the host they were opened to: no path hands a     *)
(* connection to a request, a channel or an idle list of another key.      *)
KeyIsolation ==
  /\ \A k \in Keys : \A i \in DOMAIN idle[k] : key[idle[k][i]] = k
  /\ \A r \in Reqs : \A c \in {own[r].conn, box[r].conn, raw[r]} \ {NONE} :
       key[c] = key[r]

(* A host is marked as connecting only while some request of it is really  *)
(* connecting, or is about to clear the mark: no failure, cancellation or  *)
(* race leaves a mark behind that would make every later request wait for  *)
(* nobody (mod.rs:103-106, 139-144, checkout.rs:351-359).                  *)
ConnectingIsAttempted ==
  \A k \in connecting : \E r \in Reqs :
    /\ key[r] = k
    /\ pc[r] \in {"checkout", "drop"}
    /\ inner[r] \in {"Connecting", "Handshaking"}

(* The senders push() can still reach.                                     *)
Senders(r) ==
  {<<"waiting", i>> : i \in {j \in DOMAIN waiting[key[r]] : waiting[key[r]][j] = r}}
  \cup {<<"send", 0>> : x \in {y \in {lock.to} : y = r}}

(* A request that can still be sent a connection has exactly one sender,   *)
(* under its own key; one whose channel is used up or hung up has none, so *)
(* push() never sends to it a second time.                                 *)
OneSender ==
  \A r \in Reqs :
    /\ rx[r] = "open" => Cardinality(Senders(r)) = 1
    /\ rx[r] \in {"none", "full", "hungup"} => Senders(r) = {}

(* The connections somebody still holds.                                   *)
Kept == {c \in Conns : Holders(c) # {}}

(* An open connection is never lost while there is a pool: whoever gives   *)
(* it up passes it on, even when the receiver of a delivery goes away.  Two*)
(* things do give up an open connection: an idle list that has expired, or *)
(* a Checkout that took it from the pool and is dropped without a poll,    *)
(* whose connection field is not a Pooled (checkout.rs:149, mod.rs:97).    *)
OpenIsNeverLost ==
  [][\A c \in Kept \ Kept' :
       \/ ~IsOpen(c)
       \/ ~alive'
       \/ \E r \in Reqs : inner[r] = "Connected" /\ DropFields(r)
       \/ \E r \in Reqs : CheckoutWait(r) \/ CheckoutConnect(r)]_vars

(* When push() of an HTTP/2 connection returns, it has left nobody waiting *)
(* for that host and the connection is idle: while a sender's is_closed()  *)
(* and send() race with receivers, the walk never stops short.             *)
PushServesAll ==
  [][\A r \in Reqs :
       lock.by = r /\ Shares(lock.conn) /\ lock'.at = "free"
         => /\ waiting'[key[r]] = <<>>
            /\ lock.conn \in {idle'[key[r]][i] : i \in DOMAIN idle'[key[r]]}]_vars
-----------------------------------------------------------------------------
(* The pool as a Lending.  Its connections are the idle ones, and those on *)
(* their way from one request to another, clones in a channel included.    *)
InPool ==
  {c \in Conns : \/ \E k \in Keys : c \in Range(idle[k])
                \/ lock.conn = c
                \/ \E r \in Reqs : c \in {raw[r], box[r].conn}}

Shared  == {c \in Conns : st[c] # "none" /\ kind[c] = "h2"}
Holding == [r \in Reqs |-> own[r].conn]
Asking  == {r \in Reqs : pc[r] \in {"start", "checkout"}}

Lent == INSTANCE Lending WITH host <- key, state <- st, shared <- Shared,
                              pool <- InPool, holds <- Holding,
                              asking <- Asking

(* The pool lends connections: no order of checkouts, deliveries, drops    *)
(* and races with push() gives a request two of them, lends an exclusive   *)
(* one twice or before its exchange is over, or brings one back that had   *)
(* left the pool and its request (mod.rs:81-193, 307-320, checkout.rs).    *)
Lends == Lent!Spec
-----------------------------------------------------------------------------
(* A request that opens its own connection, or is past its checkout, comes *)
(* to an end, whatever fails, closes or is cancelled around it, unless     *)
(* push() has locked itself out of the pool's mutex.                       *)
RequestsEnd ==
  \A r \in Reqs :
    pc[r] # "start" /\ inner[r] # "Waiting"
      ~> pc[r] = "done" \/ lock.at = "stuck"

(* When the pool goes away, so do the senders in it, and nobody is left    *)
(* waiting: Checkout::poll answers Error::Unavailable (checkout.rs:258).   *)
NobodyOutlivesThePool ==
  ~alive ~> \A r \in Reqs : pc[r] \in {"start", "done"}
-----------------------------------------------------------------------------
(* What the source says of the pool and the code does not do.              *)

(* "connection in progress elsewhere, will wait" (mod.rs:104): a request   *)
(* that waits for somebody else's connection eventually gets it, or an     *)
(* error.                                                                  *)
WaiterNotStranded ==
  \A r \in Reqs : inner[r] = "Waiting" ~> pc[r] # "checkout"

(* "will return the connection to the pool when dropped, if the connection *)
(* is still open" (mod.rs:49-51): dropping a Pooled comes to an end.       *)
LockNeverStuck == lock.at # "stuck"
=============================================================================
