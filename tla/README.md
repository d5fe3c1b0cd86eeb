# hyperdrive: TLA+ models, checks and proofs

hyperdrive is a Rust HTTP client and server on top of hyper and tokio. Most of
it adapts types; the parts below keep state, run concurrently with themselves,
and are what this project is for. Paths are relative to the repository
(`src/client/...` is the crate's source tree, `src/src/client/...` in the map
of PROJECT.json).

Run a model from this directory with `tlc -config pool_safety.cfg MCPool.tla`,
and the proofs with `tlapm PoolProofs.tla`; the other modules of proofs are
`PoolOwnership`, `IdleListProofs`, `ShutdownProofs`, `ServerConnProofs`,
`RequestProofs`, `RegistryProofs` and `PidFileProofs`. Together they state every
invariant and every action property that a passing run checks, and the
refinements, for all values of the constants; what is only model-checked is
liveness (section 9).
`PROJECT.json` lists the runs, the
source lines every definition translates, and for every property a mutation of
the model that the property rejects (the operators marked `mutant` in the
modules; no action uses them).

Deadlock checking is off in every run: requests, connections and processes are
finite in number, so behaviours end. That none ends too early is the subject of
the liveness properties.

## 1. The system

| Component | State it keeps | Operations | What is hard | What makes it correct |
|---|---|---|---|---|
| **Connection pool** (`client/pool/mod.rs`, `checkout.rs`, `idle.rs`, `weakopt.rs`) | per key: a mark "connecting", a queue of oneshot senders, a stack of idle connections; per request: a `Checkout` future, its receiver, its `Pooled` guard | `checkout`, `Checkout::poll`, dropping a Checkout, `push`, dropping a `Pooled`, `connected_in_handshake`, dropping the pool | every request is polled and dropped by its own task or thread; receivers and guards are dropped without the pool's mutex; a guard's drop locks it; attempts fail or are cancelled while others rely on them | a connection has one owner, HTTP/1 is exclusive, keys do not mix, no open connection is lost, no mark outlives its attempt, requests end, the mutex is always released |
| **Client service** (`client/service.rs`, `pool/key.rs`) | a response future per request | checkout, prepare, send, respond, hand the connection to a task that waits for `when_ready` | cancellation in every state; the protocol that was negotiated may not be the one requested | HTTP/1 goes back only when its exchange is over |
| **Connections and handshake** (`client/conn/...`) | hyper's sender halves | handshake, `reuse`, `is_open`, `when_ready` | the protocol is chosen from ALPN and the request's version | only HTTP/2 is cloned |
| **Happy Eyeballs** (`happy_eyeballs.rs`) | a queue of attempts, running attempts, the first error | `push`, `finish`, `join_next`, overall timeout | attempts end in any order; delay, limit and timeout interact at zero and one candidate | any attempt that would succeed in time wins; no socket outlives the race |
| **TCP transport, address order** (`client/conn/transport/tcp.rs`, `client/conn/dns.rs`) | the address list | resolve, `sort_preferred`, bind to a local address, connect | which addresses are tried, in which order, with which local address | every resolved address is tried once; the first two are of different families |
| **Server and graceful shutdown** (`server/mod.rs`, `server/conn/connecting.rs`) | the serving state machine (preparing, accepting, making the service), a task per connection, a close channel | `poll_once`, spawn, the shutdown signal | the signal arrives in any state; a connection task may be idle, reading, or in an exchange | exchanges in progress end normally; nobody accepts after the signal; the server ends |
| **HTTP version detection** (`server/conn/auto.rs`, `rewind.rs`) | bytes read so far, the connection that is upgraded | `ReadVersion::poll`, `Rewind` reads, `graceful_shutdown` during detection | the preface comes in fragments | HTTP/2 exactly when the first bytes are the preface, and no byte is lost or repeated |
| **Discovery and pid files** (`discovery/mod.rs`, `pidfile.rs`) | a sharded map of services, their handles, pid files on disk | `bind`, `connect`, availability, lock and unlock of pid files, crash | two processes on one file; shard guards held across awaits; a bind that fails half way | one process per service; a crash leaves the service usable |
| **Duplex streams** (`stream/duplex.rs`) | a bounded channel of connection requests | `connect`, acknowledge, `poll_accept` | a client goes away between its request and the acknowledgement | a request is answered once or its client is told that nobody will |
| **Server TLS** (`server/conn/tls/*`, `info/tls.rs`) | a lazy handshake per stream; a one-shot channel of its result | accept, first read or write, `recv` by every request, SNI check | requests and the handshake race; the sender may go first | every request sees the same result; the host equals the SNI |
| **Client streams and TLS** (`client/conn/stream`, `client/conn/transport`) | the TLS connection future | connect, negotiate ALPN | failure between TCP and TLS | ALPN decides the protocol |
| **Middleware** (`service/*`, `client/builder.rs`) | the retry policy's counter and its clone of the request | `retry`, timeout, redirect | layers inside each other; zero | each attempt sends what the caller gave, extensions apart; a client with a timeout answers |
| **Streams, infos, bridges, bodies, builders** | none of their own | forwarding | - | - |

How they interact. A request asks the *client service*, which asks the *pool*
for a `Checkout`. If the pool has nothing the Checkout drives its own
connector: *TCP transport* (which uses *Happy Eyeballs*), *client TLS*, or a
*duplex* or *discovery* transport, then a *handshake*. Connections change hands
through oneshot channels inside the pool, through `Pooled::drop`, and through
the task that waits for an HTTP/1 connection to become ready. On the other
side an acceptor (TCP, unix, duplex, *server TLS*) feeds the *server*, which
spawns a task per connection; that task runs *version detection* and then
hyper, and listens to the *shutdown* channel.

The hazards of each component, at the line where each bites, are in
PROJECT.json.

## 2. The client connection pool

### Modules

| Module | Contents |
|---|---|
| `Pool` | the state and every operation of the pool, its Checkouts, guards and requests; `Spec`, `FairSpec` |
| `PoolProps` | what the pool promises |
| `Lending` | the abstract specification: a request is lent one connection of its host at most; an exclusive one is in the pool or with one request, and returns after its exchange; what is in neither is gone |
| `MCPool` | symmetry for TLC |
| `PoolProofs` | theorems: types, the mark of a host, keys |
| `PoolOwnership` | theorems: who has a connection, who is sent one, what is not lost; the refinement of `Lending` |

### State and code

A member of `Reqs` is one request together with the task or thread that polls
and drops it. Requests are one-shot. Its Checkout's connector opens at most one
connection, so **a connection has the name of the request that opened it**.

| Variable | Code |
|---|---|
| `alive` | whether `WeakOpt::upgrade` finds the pool |
| `connecting`, `waiting`, `idle` | the three maps of `PoolInner` |
| `expired[k]` | how many entries at the bottom of `idle[k]` are older than `idle_timeout` |
| `lock` | the `std::sync::Mutex` around `PoolInner`, and how far its holder is in `push` |
| `pc`, `inner`, `rx`, `box` | where the request is; the state of its `Checkout`; its oneshot receiver and what is in the channel |
| `raw` | a connection that is in no guard: `Checkout.connection`, or the one `Pooled::drop` has taken out and not yet pushed |
| `own` | the `Pooled` in the request's hands |
| `kind`, `st` | protocol and state of each connection |

A critical section is one step. The exception is `push`, which tests
`is_closed` and then calls `send` on channels whose receivers are dropped
*without* the mutex, so `PushNext`, `PushSend`, `PushSendFails` and `PushIdle`
are separate steps between which every other thread may run. A drop that is
several effects in the code is several steps: `DropCheckout` is the
`PinnedDrop` under the mutex, `DropFields` the fields after it (the receiver
and a connection delivered into it), `Release`/`DropFields` decide whether to
give a connection back and `ReturnToPool` takes the mutex to do so.

The environment: a connector may succeed, fail, and answer ALPN either way; a
caller may drop its future in any state it can; a connection may become ready,
or close, at any time somebody still holds it; idle entries expire oldest
first (they are pushed in the order of their timestamps); the last `Pool`
handle may go.

Abstractions: keys, requests and connections are model values; the clock is
the growing prefix `expired`; headers, URIs and bodies are left out except for
the one test that refuses an HTTP/2 request on an HTTP/1 connection; a
connection is `busy`, `ready` or `closed`, what hyper's `is_ready` lets the
pool see. `max_idle_per_host` is not in the model because the code stores it
and never reads it.

### Properties and runs

| Run | Instance | Shows |
|---|---|---|
| `pool_safety` | 3 requests, 1 key, both versions, both ALPN answers, symmetry; about 1.3 million states | `OneOwner`, `ExclusiveHttp1`, `ConnectingIsAttempted`, `OneSender`, `TypeOK`; of steps `OpenIsNeverLost`, `PushServesAll`; the refinement `Lends` |
| `pool_progress` | 2 requests, 2 keys, both versions, both ALPN answers, `FairSpec`; about 95 thousand states | `KeyIsolation`; `RequestsEnd`, `NobodyOutlivesThePool` |
| `pool_stranded` | 2 HTTP/2 requests, `FairSpec` | `WaiterNotStranded` fails |
| `pool_lockout` | 3 HTTP/1 requests | `LockNeverStuck` fails |

In words: a connection itself (not a clone) is in exactly one of the idle list,
a guard, a channel, a bare field or `push`; two requests share a connection
only if it is HTTP/2; a pooled HTTP/1 connection is never in the middle of an
exchange; a host is marked as connecting only while some request really
connects; every open receiver has exactly one sender queued; an open connection
disappears only in the two ways `OpenIsNeverLost` names; when `push` of an
HTTP/2 connection returns nobody is left waiting for it; requests with a
connector end; nobody waits on a pool that is gone.

`Lends` says all of it to somebody who does not know about idle lists, channels
and guards. `Lending` has a set of connections in the pool and at most one
connection per request; in the refinement mapping (`PoolProps`) the pool's
connections are the idle ones and every one on its way: in `push`, in a
channel, in a `Checkout` that took it or in a `Pooled::drop` that has yet to
lock the mutex. So a delivery is a `Lend` when its receiver takes it, and a
delivery whose receiver goes away is no step at all, or a `Discard`. What the
invariants do not say and `Lends` does: a request is answered once; nothing
comes back that had left both the pool and its request, a connection that
closed under a request included; an exclusive connection that is ready when its
request ends is kept.

Bounds. Three requests are the leader, a waiter and a third party that pushes,
cancels or arrives late; they suffice for two deliveries in one `push`, for a
delivery to a receiver that is being dropped while another thread pushes, and
for a mark cleared by the wrong Checkout. One key is enough there since an
operation touches one key only; that this is so is what `KeyIsolation` says,
checked with two keys and proved for any number. Liveness uses two requests:
the pair is who waits and who provides. Requests are one-shot, so the models
are finite without a state constraint, and behaviours end: deadlock checking
is off because a finished system has nothing to do, because a waiter may be
stranded and because the mutex may be stuck, both of which have properties of
their own.

Fairness. `FairSpec` has weak fairness for each request's `Progress`, that is
its polls, drops and steps inside `push`, and for `ConnReady`. A woken future
is polled again by the runtime, a thread that waits for a mutex or runs under
it is scheduled, and a connector, a server's answer or hyper's connection task
ends in one of the outcomes the model offers. No fairness is assumed of
callers (starting or cancelling), of connections closing, of time, or of the
pool being dropped.

### Where the code and its comments disagree

* **A waiter can be stranded** (`pool_stranded`). A second HTTP/2 request finds
  the mark, gives up its connector and waits. When the attempt it waits for
  fails or is cancelled, `cancel_connection` (`pool/mod.rs:139`) removes the
  mark and leaves the senders queued: the waiter stays pending until a later
  request happens to push a connection for that host.
* **The mutex can be locked twice by one thread** (`pool_lockout`). In `push`
  (`pool/mod.rs:156-193`) a receiver may be dropped between `is_closed` and
  `send`. For an HTTP/1 connection the `Pooled` returned by `send` is dropped
  right there, and its `Drop` locks the pool again.
* Duplicate connections. Every Checkout clears the mark of its host when
  dropped (`pool/checkout.rs:351-359`), also one that only waited, so a third
  request connects while the first attempt is in progress. The pool is meant to
  make no duplicate connections "unnecessarily" (`pool/mod.rs:46-47`). No run
  states this: it costs a connection and breaks nothing.

### What is proved

For every set of requests, keys, versions and ALPN answers, from
`PoolAssumption` (`NONE` is not a request; versions are `"http1"` or `"http2"`;
ALPN answers are Booleans) and nothing else:

| Module | Theorem | Statement |
|---|---|---|
| `PoolProofs` | `TypeCorrect` | `Spec => []TypeOK` |
| | `ConnectingAlwaysAttempted` | `Spec => []ConnectingIsAttempted` |
| | `KeysIsolated` | `Spec => []KeyIsolation` |
| `PoolOwnership` | `GiversHoldOne` | `Spec => []InHand` |
| | `OneOwnerEach` | `Spec => []OneOwner` |
| | `Http1NotShared` | `Spec => []ExclusiveHttp1` |
| | `SenderIsOne` | `Spec => []OneSender` |
| | `PushIsComplete` | `Spec => PushServesAll` |
| | `OpenStaysInPool` | `Spec => OpenIsNeverLost` |
| | `PoolLends` | `Spec => Lends`, the refinement |
| | `WhatIsGoneStaysGone` | `Spec => GoneForGood` |
| | `NothingInAGonePool` | `Spec => []GoneIsEmpty` |
| | `LockoutIsForGood` | `Spec => Lockout` |
| | `Http2NeverStuck` | if `Versions \subseteq {"http2"}`: `Spec => []LockNeverStuck` |
| | `Http1NeverWaits` | if `Versions \subseteq {"http1"}` and `Alpn \subseteq {FALSE}`: `Spec => []NobodyIsHeldBack` |

* `TypeOK` is not inductive alone. `PushIdle` appends `lock.conn` to an idle
  list and `ReturnToPool` pushes `raw[r]`: that these are connections and not
  `NONE` is what `InHand` says, so the inductive invariant is
  `TypeOK /\ InHand` (`InHand` is defined beside the proofs). That `expired` never exceeds its list needs that the
  entry `pop` selects, a maximum of a finite set of positions, lies within the
  list (`MaxInBounds`).
* `ConnectingIsAttempted` is inductive relative to `TypeOK`: the proof is the
  case analysis of which action can end an attempt, and each of them ends in
  `"drop"`, whose step clears the mark. This is the argument that the code's
  unconditional `cancel_connection` in `PinnedDrop` errs on the safe side.
* `KeyIsolation` speaks of connections at rest; a step of `push` also relies on
  the queue it takes a receiver from and on where it is. `KeyInv` adds that
  queued receivers, and the connection and receiver of a running `push`, have
  the key of their queue or thread. The lemmas on `Append`, `Tail` and `SubSeq`
  say that the three list operations keep the elements' key.
* `PoolOwnership` rests on one inductive invariant,
  `PoolInv == TypeOK /\ InHand /\ KeyInv /\ Leases /\ Hands /\ Sent`.
  `OneOwner` is a statement about the *places* a connection is in, and a step
  moves a connection from one place to another, so that the invariant says for
  every pair of places that a connection is not in both (`Single`). It then
  needs why a move cannot run into another copy: a connection nobody opened is
  nowhere, and only its own Checkout opens it (`Unopened`, `Opens`); a `Pooled`
  marked as reused is a clone of an HTTP/2 connection, which is what makes a
  second holder harmless (`ClonesShare`); and a request never overwrites a
  connection with another one, since what it may hold follows from where it is
  (`Hands`). Most of the proof is by connection: `LeaseStep` proves `Lease(c)`
  for one `c`, and `PopMoves`, `PushIdleMoves`, `JoinMoves` and `NextMoves` say
  what the list operations do to the one entry concerned.
* `ExclusiveHttp1` has two parts. That only clones are held by two requests
  follows from `Single` and `ClonesShare`. That a connection in the middle of an
  exchange is nowhere but with its request is `BusyInUse`: it is inductive because
  `Pooled::drop` asks `is_open` before it gives the connection up.
* `OneSender` needs `Sent`: a sender is in the queue of its own key, once, or
  in the hands of the `push` that holds the mutex, and both stop when the
  receiver's channel is used up.
* `PushServesAll` and `OpenIsNeverLost` are properties of steps. For the first,
  a `push` of an HTTP/2 connection ends in `PushIdle`, whose guard is the empty
  queue. For the second, `HeldStep` compares the places of a connection before
  and after each action, and finds those after which it has none.

* `PoolLends` shows that every step is a step of `Lending` or none, from
  `PoolInv`. Most steps leave what requests hold as it is and let the pool keep
  or lose connections (`Discards`); three kinds do not, and have a lemma each:
  checkouts that end with a connection of another request (`LendsToAsker`),
  those that end with none (`Refuses`), and the drop of a `Pooled` (`Returns`).
  That a lent exclusive connection leaves the pool is `Single`; that it stays
  with its host is `KeyInv`; that it is lent ready or closed is `BusyInUse`.

* `GoneForGood` is a corollary of the refinement: in `Lending` only a connection
  of the pool is lent and only a connection of a request returns, so what
  neither has is never seen again. Closed, expired and lost connections are of
  that kind.
* `GoneIsEmpty` is the half of `NobodyOutlivesThePool` that is not liveness:
  without a pool no receiver is open, so that no request can be waiting. It is
  inductive with the types.

Three theorems say how far the two defects above reach. `Lockout`: a pool whose
mutex is locked twice by one thread keeps its connections, senders and marks as
they are, and cannot even be dropped. `Http2NeverStuck`: it takes a connection
that cannot be cloned. `Http1NeverWaits`: without HTTP/2, asked for or chosen by
ALPN, no host is ever marked, so that no request can be stranded; its corollary
`Http1NeverStranded` is `WaiterNotStranded` under that hypothesis. The
hypotheses restrict the constants, and programs that speak one version only
satisfy them.

The state of the mutex (`WalkOn`, `Walk`) appears in each of them: between
`is_closed` and `send` a `push` holds a connection and a sender that are in no
list, and the invariants would be false of a model in which it were one step.

Only model-checked: `RequestsEnd` and `NobodyOutlivesThePool`, which are liveness
and out of the prover's reach.

### The list of idle connections

| Module | Contents |
|---|---|
| `IdleList` | the entries of one host with their `Instant`s, `push`, and `pop` one turn of its loop at a time |
| `IdleListProps`, `MCIdleList`, `IdleListProofs` | the property, instance, theorems |

`Pool` takes a `pop` for one step and the expired entries for a growing part of
the stack. `IdleList` is why it may. `inner` is the list as it was when `pop`
began, `left` how much of it has not been popped yet, `exipred` the local of
that name: the clock is sampled once, at the start and only if the list is not
empty (`Cutoff`), while it goes on (`Tick`) and connections close (`Close`)
between the turns. `FindExpired` clears the list because of one entry, unseen
entries included; `FindClosed` drops an entry; `FindOpen` returns one. The
mutex of the pool keeps `push` out. `asof` is a history variable, when the last
`pop` looked at the clock.

`PopsAtOnce` instantiates `Pool` with these entries: what is expired is what had
outlived the timeout `asof` then. The step in which `pop` returns has to be
`Pool`'s `PopIdle`, with its result, in the state at that moment; every other
step may only append an entry, or let more of the oldest entries expire.

| Run | Instance | Shows |
|---|---|---|
| `idle` | 3 connections, no timeout, one of 0, 1 and 2, the clock up to 4, symmetry; about 87 thousand states | `PopsAtOnce` |

Three connections are one that closes after `pop` went past it, one that is
returned or expired, and one below it that nobody looked at; the clock passes
both timeouts twice, so that entries of different age expire one by one.

| Theorem | Statement |
|---|---|
| `EntriesInOrder` | `Spec => [](TypeOK /\ ByAge /\ CutoffIsFair)` |
| `PopIsAtomic` | `Spec => PopsAtOnce` |

They hold for any connections, timeouts and bound of the clock, from
`IdleListAssumption` (`NONE` is no connection and no number; timeouts are
numbers or `NONE`). The invariant is that the entries are in the order of age
(`ByAge`), which is what justifies clearing the whole list; that comparing with
the sampled `Instant` is the same as having outlived the timeout, zero, missing
and unrepresentable ones included (`CutoffIsFair`); and that what `pop` went past
is closed and not expired (`Passed`), which stays true because a connection does
not open again. From them the newest usable entry of `PopIdle` is the one
`FindOpen` is at.

## 3. The server

### Modules

| Module | Contents |
|---|---|
| `GracefulShutdown` | the accept loop (plain `Serving` and `GracefulShutdown`), a task per connection, the close channels |
| `Draining` | the abstract specification: connections start while the server serves, each at most once; after it has stopped they can only end |
| `ShutdownProps` | the refinement mapping and the other properties |
| `MCShutdown` | symmetry set for interactive use; the run itself checks liveness and uses none |
| `ShutdownProofs` | theorems |

### State and code

`at` is the future the loop polls next: the signal, `poll_once`, `finished`;
`"ended"` once it is Ready, with `result`. `state` is `Serving.state`.
`conn[c]` follows a connection from the acceptor (`"queued"`) through
`State::Making` (`"making"`) into its task: detecting the version, waiting for
its first complete request (`"first"`), idle between requests, answering
(`"busy"`), `"ended"`. A connection dropped before it had a task is `"gone"`.

`open` is whether the receiver inside `GracefulShutdown.shutdown` exists. A
task sees the watch channel closed when it does not: after the signal, or when
the future is dropped, with which `shutdown` goes. `told[c]` is the fused
branch of the task's `select!`. The second channel, `finished`, is the operator
`Finished`: no task holds a close sender, *and neither does the server*; the
field `connection`, from which tasks get their clones, is one (`OwnSender`).

The loop and each task run on threads of their own, so every future the loop
polls is a step. A task's shutdown branch calls `graceful_shutdown` and goes
round its loop, polling the connection again before anything else can touch
it; that is one step, `TaskShutdown`. What hyper does with a connection is
external: it serves requests one after the other as far as the server can
tell, closes an idle HTTP/1 connection at graceful shutdown, takes leave of an
HTTP/2 client first, and closes after the last response.

Errors of the acceptor, of `poll_ready_ref` and of making a service end the
loop in any state (`OnceFails`). The owner may drop the future between polls.

### Properties and runs

| Run | Instance | Shows |
|---|---|---|
| `shutdown` | 3 connections, both kinds of server, `FairSpec`; about 160 thousand states | the refinement `Drained`; `Handover`, `StopsForSignal`, `TypeOK`; `ExchangeNotCut`; `SignalStops`, `Drains` |
| `shutdown_returns_early` | 2 connections | `ConnectionsFinishFirst` fails |

`Drained` says that nothing is accepted or spawned after the signal has been
passed on, and that a connection never gets two tasks. `StopsForSignal` is the
reason for `OwnSender`: without the server's own close sender, `finished` would
complete as soon as no connection is open, at the latest after the first poll
of the make-service, and the server would stop by itself. `Drains` covers a
connection in every state at the moment the channel closes.

Three connections let one be made while another is served and a third is
queued; the loop handles one at a time and tasks do not touch each other.
Clients connect once, so the model is finite. Deadlock checking is off: when
the server has ended and its tasks are over nothing is left to do.

Fairness: the loop and the tasks are polled when they can make progress, the
owner drops a future that is Ready (an `.await` does), services answer, and a
client that is told goodbye on an idle connection acknowledges it or leaves.
Clients need not send anything: that is why `Drains` leaves out `"first"`, a
connection whose client has not completed its first request.

### Where the code and its comments disagree

* **The server ends before its connections** (`shutdown_returns_early`). At the
  signal the future tells the connections and returns `Ok` in the same poll
  (`server/mod.rs:474-476`), where the documentation (`server/mod.rs:98-99`)
  lets them finish "before the server stops". Tasks do finish, provided the
  program goes on.

### What is proved

For every set of connections, from `ServerAssumption` (kinds of server are
Booleans):

| Theorem | Statement |
|---|---|
| `ServerInvariants` | `Spec => [](TypeOK /\ StopsForSignal /\ Handover)` |
| `ServerDrains` | `Spec => Drained`, the refinement |
| `ExchangesAreFinished` | `Spec => ExchangeNotCut` |

The invariant needs one more conjunct, `OpenWhileServing`: the close channel is
open as long as the loop may still spawn. It is what makes `Spawned` an
abstract `Start`. `ShadowStep` goes through the actions and says of each which
abstract step it is; `OneEnds` is the common part of those that end a task.
`ExchangesAreFinished` needs the types only: `ExchangeStep` looks at each action
that changes `conn[c]` and finds that the server's own never take a connection
out of `"busy"`, because `graceful_shutdown` leaves an exchange alone. Liveness
(`SignalStops`, `Drains`) is model-checked only.

## 4. HTTP version detection

| Module | Contents |
|---|---|
| `ReadVersion` | `ReadVersion::poll` and its cancellation, `Rewind::poll_read`, the byte stream |
| `ReadVersionProps`, `MCReadVersion` | properties, instance; the theorems are in `ServerConnProofs` |

The stream is what the client is going to send (`coming`), what has arrived
(`sent`) and what of it has not been read (`wire`). A read takes any non-empty
part of `wire` that fits in the 24-byte buffer, here of the length of `Prefix`.
`RestOfPreface` is the comparison of line 278: *the part just read* against
*the whole rest* of the preface. `prefix` is what `Rewind` still has to repeat,
`got` what hyper has read, in buffers of the sizes `BufSizes`.

| Run | Instance | Shows |
|---|---|---|
| `server_conn` | section 5; preface of 3 bytes; 4 streams: the preface with more behind it, one that departs from it, a beginning of it, nothing; buffers of 1, 2, 4 | `NoByteLost`, `Http2OnlyOnPreface`, `AllDelivered` |
| `version_fragments` | the same streams and 2 more, without the connection around them | `PrefaceIsDetected` fails |

Three bytes give every kind of cut (before, inside, at the end of and beyond
the preface); buffers are smaller than, and larger than, what is put back.

* **A fragmented preface is not recognised** (`version_fragments`): a read that
  does not fill the buffer compares slices of different lengths, so a client
  whose preface arrives in two pieces is served HTTP/1.

`BytesKept` proves `Spec => [](TypeOK /\ NoByteLost /\ Http2OnlyOnPreface)` for
every set of bytes, preface, set of streams and buffer sizes, from
`ReadVersionAssumption`. Its invariant adds `Undecided`: the buffer is empty
while the version is undecided, since every read decides. That is the defect
above, and `DetectedInOneRead` states its extent, `Spec => []FirstReadDecides`:
HTTP/2 is chosen if and only if the first read returned the whole preface and
nothing less. The lemma `Cut` says that a sequence is its first
`n` elements and the others; each step then is a re-bracketing of a
concatenation. Liveness is model-checked, under weak fairness of the detection
and of hyper's reads; clients need not send or close, reads need not fail.

## 5. Server connection

| Module | Contents |
|---|---|
| `ServerConn` | EXTENDS `ReadVersion`: acceptance, the lazy TLS handshake, and requests that ask for its information and are checked against its server name |
| `ServerConnProps`, `MCServerConn`, `ServerConnProofs` | properties, instance, theorems |

The bytes of `ReadVersion` are those inside TLS. `tls` is `TlsBraid` together
with `TlsState`; the handshake happens in the first read, so `Handshake` needs
`phase = "reading"` and publishes on `chan`, the oneshot channel of
`info/tls.rs`. `cache` is the state behind the `RwLock` that all clones of the
receiver share, `writer` who holds it for writing; a request goes through
`recv` (read lock), `write` (asking for the write lock), `await` (waiting with
it) and `check` (`sni::handle`). `kept` and `known` follow `ConnectionInfo`,
which the service gives away once and every clone of it keeps. A request may be
dropped anywhere, with the lock it holds. `layers` says which of the two TLS
layers the server has: the repository lets a program take either or both.

| Run | Instance | Shows |
|---|---|---|
| `server_conn` | 2 requests, 2 names, with and without TLS, the streams of section 4, `ServerFairSpec`; about 235 thousand states | `InfoArrives`, `SniMatches`, `RequestsPass` and the properties of section 4; `ServerTypeOK` |

Two requests are one that waits with the lock and one that comes to it
meanwhile, or after it was dropped. With HTTP/1 the second one starts when the
first is over, with HTTP/2 at any time.

Fairness: the connection's task is polled (`Handshake`, `HandshakeFails`,
`DetectVersion`, `ServeBytes`) and so is each request's future (`Recv(r)`).
Clients need not shake hands, send or close, and a server need not shut down.

### What is proved

For every set of bytes, preface, streams, requests and names, from
`ReadVersionAssumption` and `ServerConnAssumption` (`NONE` is no request and no
name):

| Theorem | Statement |
|---|---|
| `ConnectionKeepsBytes` | `ServerSpec => Spec /\ [](NoByteLost /\ Http2OnlyOnPreface)`: the connection implements version detection, and keeps its invariants |
| `RequestsInformed` | `ServerSpec => [](InfoArrives /\ SniMatches)` |
| `ServerTypesKept` | `ServerSpec => []ServerTypeOK` |

The first rests on `StepImplements`, that every step is one of `ReadVersion` or
leaves its variables alone; the rest is `BytesKept`. The second has an
invariant, `ConnInv`, that says what makes the panic in `recv` unreachable:
no request is there before the handshake, which publishes its information
(`Order`); without TLS nobody waits for it, and with TLS nobody gets past the
layer without it (`Waits`). The types of the connection are those of that
invariant, those of the detection, and `SharedTypes`, which is inductive.
`RequestsPass` and `AllDelivered` are liveness, and model-checked only.

## 6. A request of the client, and its connection

| Module | Contents |
|---|---|
| `Connecting` | one connection: resolution and order of the addresses, the race of Happy Eyeballs, TLS, the choice of the protocol |
| `Request` | EXTENDS `Connecting`: retries around the timeout around redirects around the client service without a pool |
| `RequestProps`, `MCRequest`, `RequestProofs` | properties, instance, theorems |

`sock[i]` is the attempt on `addrs[i]`. What the network does (`Settle`) and
what the task sees when it is polled (`JoinOk`, `JoinError`, `Exhausted`,
`Deadline`) are separate steps, and the clock may run past a deadline by
`Loaded` before the next poll: a connection may be up when the timer fires,
and then wins, because the attempts are polled before the timer. Of two timers
of equal length either may be seen first. All attempts start at once, which is
what the code does (below), so the model has no queue.

`stage` is where the request is; `original` is what the caller gave, `saved`
what `Retry` cloned from it, `req` what this attempt sends. Data is what the
properties tell apart: of a URI its scheme, its port and whether the host is an
IPv6 literal; of a Host header its port; of a request's extensions whether there
are any; of a response "ok", a server error, or an error. `CloneRequest` builds
a request from the URI, method, version, headers and body of another, as
`clone_request` does, and so leaves its extensions out; the redirect layer,
which is external, does the same. Nothing in the client looks into them. `build` is the profile of the program: integer overflow panics with
the one and wraps with the other.

| Run | Instance | Shows |
|---|---|---|
| `connect` | addresses of 2 families, answers of up to 3 addresses in 5 orders, 5 configurations, 2 clients, 8 requests, `Loaded = 1`, `UsizeMax = 2`, one redirect; `FairSpec`; about 410 thousand states | `PreferenceOrder`, `OnlyWinnerOpen`, `HostIsPeer`, `RetriedAsGiven`; `SuccessNotMissed`; `RaceEnds`, `Answered`; `TypeOK` |

In words: the addresses are in the documented order, stated as a rearrangement of
what the resolver answered and not by swapping; a race fails only when no attempt has reached
a server; no socket outlives the connection it was opened for, nor a dropped
attempt; the Host header names the port that was connected to, though one file
fills in default ports and another leaves them out; each attempt sends the
caller's request and not what an earlier connection made of it, except that a
redirect replaces its URI and that its extensions reach the first attempt only; a
race with any timeout ends; a client with a timeout and a number of retries
answers when these are used up, whatever fails and however silent the others
are. `Answered` names the two cases in which it does not: the panics listed
below, and a server error that comes when no retry is left.

Bounds. Three addresses have every position of the first and second family,
and an attempt that neither wins nor fails first. The configurations set the
race's timeout to less than, the same as and more than an attempt's, to zero,
and not at all. The URIs cover default, explicit and missing ports, a foreign
default port (`https` on 80), a scheme the transport has no port for, a missing
scheme, and an IPv6 literal. One redirect inside one retry is enough for each
to undo the other; `UsizeMax = 2` lets the counter wrap within reach.

Fairness: the caller's task is polled (`PollRequest`, `PollRace`), time passes
during a race (`Tick`), and a request with a timeout layer comes to it
(`Timeout`). Resolvers, servers and peers need not answer at all.

### Where the code and its comments disagree

Seen while modelling, without a run of their own:

* **Retries below zero.** `Attempts` counts down without looking at the counter
  when the response is a server error (`service/retry.rs:25`), unlike on an error
  (`:27`). At zero a debug build panics and a release build goes on with the
  largest `usize`, so that the request is sent again without end, where the
  documentation (`:10`) says that the policy "will retry a request `attempts`
  times". `RetryServerError` does so. `Answered` does not hold without its last
  disjunct, `stage = "answer" /\ result = "5xx" /\ left = 0 /\ saved # NONE`,
  which is this state and nothing else: whoever corrects the line can take it
  out.
* **Retries lose extensions.** `clone_request` (`service/retry.rs:32-50`) copies
  everything but the extensions of a request: a layer below that relies on one
  finds it in the first attempt only. `RetriedAsGiven` says so.
* Happy Eyeballs is documented to start attempts "with a delay between each
  attempt" (`happy_eyeballs.rs:4`), to try one address at a time without a
  timeout and all of them with a timeout of zero (`:71-74`). Nothing ever limits
  the initial concurrency, so all attempts start at once in each case, the delay
  applies to a queue that is empty by then, and a timeout of zero ends the race
  at its first poll, unless an attempt is done by then.
* The race's timeout hides an error that an attempt has had before it.
* A TLS connection to an IPv6 literal panics: the server name is the host with
  its brackets (`client/conn/stream/tls.rs:94`). This is phase `"panic"`.
* `wss` has TLS but no default port: without a port the call fails.
* A request for HTTP/2 is spoken HTTP/2 even if ALPN has chosen `http/1.1`.
* A request for HTTP/3 panics (`client/conn/protocol/mod.rs:147`).

### What is proved

For any addresses, answers of the resolver, URIs, configurations, clients and
requests, from `ConnectingAssumption` (the families are disjoint, the resolver
answers with addresses, `NONE` is not the name of a family) and
`RequestAssumption` (a `Host` header that a request comes with is the caller's
own; a redirect goes to a URI with a scheme):

| Theorem | Statement |
|---|---|
| `RequestsAreSound` | `Spec => [](TypeOK /\ OnlyWinnerOpen /\ HostIsPeer /\ RetriedAsGiven)` |
| `NoSuccessIsMissed` | `Spec => SuccessNotMissed` |
| `AddressesInOrder` | `Spec => []PreferenceOrder` |

The inductive invariant is `RequestInv == TypeOK /\ Sockets /\ Given /\ Target`,
and none of the four properties is inductive without it:

* `TypeOK` needs `Given`: that what is asked of the transport is a URI of
  `Uris` follows from where `req` came from, and not from its type.
* `OnlyWinnerOpen` needs `Sockets`, which ties the connection to the request: a
  connection is in progress in the stages `"connect"` and `"exchange"` only, and
  before the race there is no socket. Without it a new attempt could start over
  the sockets of the one before.
* `RetriedAsGiven` needs `Given`: until the request is prepared it is the
  caller's but for its URI and its extensions, and the clone that `Retry` keeps
  is `CloneRequest(original)`, although it is itself cloned before every further
  attempt: cloning twice is cloning once.
* `HostIsPeer` needs `Target`: the connection is made to the URI of the attempt,
  and that URI has a port, named or default, or the call has failed. The lemma
  `HostNamesPort` is the arithmetic behind it: what `SetHostHeader` leaves out
  is what `HostAndPort` fills in, for *every* URI that has a port. `Given` says
  that no `Host` header of an earlier attempt is left in the request.

`PreferenceOrder` says that the addresses of the race are the resolver's, each
once (`from` is an injection), that the first of the preferred family leads, the
first of the other follows, and the rest keep their order. `SortPreferredOrders`
proves it of the operator, from lemmas on the first index of a family
(`SelectFirst`), on taking one element out (`RemoveAtProperties`) and on putting
two in front (`TwoToFront`).

Only model-checked: `RaceEnds` and `Answered`, which are liveness.

## 7. The registry of services

| Module | Contents |
|---|---|
| `Registry` | the map of in-process services with its locks, `bind`, `connect`, `is_available`, and the duplex transport behind it |
| `RegistryProps`, `MCRegistry`, `RegistryProofs` | properties, instance, theorem |

A `Tasks` member makes one call. The services are in a `DashMap`, whose shards
are locks that *block the thread* of whoever waits; `Blocking` are the tasks in
such a wait and `Idle` says that a thread is left to poll anybody else.
`connect()` keeps a read guard of the shard across its `await`s (`"send"`,
`"ack"`): `Readers`. `queue[s]` is the bounded channel of `DuplexClient`,
`ack[t]` the oneshot a request carries. DashMap is external: the model lets
readers pass a waiting writer.

| Run | Instance | Shows |
|---|---|---|
| `registry` | 4 tasks on 2 threads, 3 services of which 2 share a shard, channel of capacity 1, with and without a timeout, every mix of three other calls beside a bind; `FairSpec`; about 35 thousand states | `RequestsKept`, `LookupsEnd`, `ConnectsEnd`, `TypeOK` |

`RequestsKept`: a client that waits is in the channel of its service, once, or
has its answer; a service has one server at most; a channel without a server is
empty. `LookupsEnd` and `ConnectsEnd` state exactly when a call may hang: in
the two deadlocks below, and no others, as long as every task makes one call.
(Endless new readers of a shard could also keep a writer waiting; whether they
do is up to DashMap.)

Two threads and three callers beside the server are the smallest instance in
which the threads run out; capacity 1 makes the channel full with two clients.

Fairness: a thread that can have its lock gets it (`Lookup`), with an idle
thread a task that can go on is polled (`Poll`, `Serve`), and a timeout passes
(`TimesOut`). Nobody need cancel, nor end a server.

Seen while modelling; the documentation says nothing to the contrary, so none
of them is a run that expects a violation:

* `connect()` without a timeout to a service nobody has bound holds the shard
  that the `bind()` it waits for needs (`HoldsForever`), and each further call
  for that shard takes a thread with it, until none is left to poll the task
  that would give the shard back (`Deadlocked`).
* A client that gives up between its request and the answer is an error of the
  acceptor, and ends the server (`AcceptFails`).
* After its server has ended a service stays available to `is_available()` and
  bound to `bind()`.

`RequestsAreKept` proves `Spec => [](TypeOK /\ RequestsKept)` for any tasks,
services, shards, threads and capacity, from `RegistryAssumption`. Neither is
inductive. That a channel holds no more than its capacity needs that it is a
sequence (`RequestMoves`); that a request is in it once needs that one which is
not sent yet, or is sent again, is not there already. `Asks` says so: a task has
no answer channel before it sends, and whatever is in a channel has one. That a
waiting client's service is not closed needs `Answers`: a closed service has an
empty channel, because dropping the acceptor answers or drops what is in it, and
a server is what makes it bound. The invariant follows the requests of a client
that has given up, too, which stay in the channel with an answer channel that
nobody reads; those are the ones that end a server (`AcceptFails`).
`AppendSits`, `TailSits` and `DropMoves` say what the operations of the channel
do to the place of a request. `LookupsEnd` and `ConnectsEnd` are liveness, and
model-checked only.

## 8. Pid files

| Module | Contents |
|---|---|
| `PidFile` | processes that bind one Unix service with a pid file, fail, stop and crash; every call of the file system is a step |
| `PidFileProps`, `MCPidFile`, `PidFileProofs` | properties, instance, theorem |

`at[p]` follows `PidFile::new` (`"read"`, `"kill"`, `"remove"`, `"create"`,
`"write"`; `fs::write` first empties the file) and then `ServiceHandle::acceptor`
(`"reset"` and `"bind"` for the socket). `lock[p]` and `listener[p]` are what the
process keeps. `Crash` leaves both files behind; pids are used again; `Mute` are
the pairs that may not signal each other, for whom `kill` returns -1 as for a
process that is gone.

| Run | Instance | Shows |
|---|---|---|
| `pidfile` | 3 processes, 3 pids, one process of another user; file absent or without a pid at first; `FairSpec`; about 780 thousand states | `OneHolder`, `Recovers` |

`OneHolder` is conditional on `~raced`, and `raced` is a history variable that
names precisely what the pid file does not protect from:

1. two calls of `PidFile::new` that decide together (`pidfile.rs:63-97`). One
   finds the lock free while the other has found it free and not yet written
   (`AnotherIsPast`) or has read a pid and not yet looked it up
   (`AnotherDecides`); or it reads a pid that the other is about to replace.
   Calls that only overlap are not among them: any number may find a live holder
   and be refused;
2. a holder that may not be signalled: every error of `kill` counts as "not
   running" (`:38`);
3. a registry dropped before its server: the file is removed while the
   listener lives (`:120`).

The file says it is "a lock for a resource which should only be accessed by one
process at a time" (`:7-10`), which is a purpose and not a promise about these
three; so the property states what does hold. `Recovers` says that a stale file
does not lock out a process that is alone, with the exception of a file that
holds this process's own pid, left by an earlier one: in a container, where the
program always has the same pid, it never recovers.

Three processes are a holder, or one that crashed, one that takes over and one
that interferes. With three pids all of them may run at once, and a process may
get the pid that another one has left in the file. A socket that cannot be bound leaves
the `PidFile` with the handle (`BindFails`), after which the service is
`AlreadyBound` until the registry goes.

Fairness: a call of `PidFile::new` that was begun goes on. Nobody need crash,
start, bind or stop.

`Exclusive` proves `Spec => []OneHolder` for any number of processes and pids
and any `Mute`, from `PidFileAssumption`. The inductive invariant adds
`Identities` (running processes have different pids, and who has a lock runs)
and `Checked`: beside a process past the check no other is past it or has a pid
to look up; and nobody is past the check while another has the lock, because it
has read, or will read, the pid of that one. This is the argument that the
check by pid is sound, and it needs each of the three exceptions.

## 9. Plan

Done: `Pool` over `Lending`, `IdleList` over the `PopIdle` of `Pool`,
`GracefulShutdown` over `Draining`, `ReadVersion`, `ServerConn` over
`ReadVersion`, `Connecting` and `Request`, `Registry`, `PidFile`.

Proved: every invariant and action property of the passing runs; the refinements
(`Lends`, `Drained`, `PopsAtOnce`, and `Spec` of `ReadVersion` by `ServerConn`);
the extent of three of the defects (`Http2NeverStuck`, `Http1NeverWaits`,
`DetectedInOneRead`).

Only model-checked, and why:

* Liveness, with its fairness: `RequestsEnd`, `NobodyOutlivesThePool`,
  `SignalStops`, `Drains`, `RaceEnds`, `Answered`, `AllDelivered`,
  `RequestsPass`, `LookupsEnd`, `ConnectsEnd`, `Recovers`. The provers have no
  support for `ENABLED`, which `WF_` is defined by.

Left: the composition of a client whose connector is a duplex transport with a
server that shuts down.

## 10. Not modelled

hyper's framing and its connection tasks, rustls, DNS and DashMap are outside
the repository and appear only as the outcomes the code can see. The stream,
info, body and builder modules forward calls between variants of an enum or
hold configuration: they have no state that an order of calls could break. Of
the middleware, `make`, `adapt`, `http`, `incoming`, `shared` and `serviceref`
map types and forward calls. Socket options only warn when they fail. The delay
between the attempts of Happy Eyeballs applies to a queue that is always empty.
The mock transport, stream and protocol are for tests. Tests and examples were
read for what they say the code should do.
