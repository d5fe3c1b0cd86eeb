----------------------------- MODULE Connecting -----------------------------
(***************************************************************************)
(* One connection of the client, from the URI to a connection that takes   *)
(* requests: name resolution and the order of the addresses (conn/dns.rs), *)
(* the race of the attempts (happy_eyeballs.rs, conn/transport/tcp.rs),    *)
(* the TLS handshake (conn/transport/mod.rs, tls.rs) and the choice of the *)
(* HTTP protocol (conn/protocol).                                          *)
(*                                                                         *)
(* The clock counts from the start of the race, in the units the timeouts  *)
(* are given in.  A task may be polled at any time after its timer fires,  *)
(* so the clock also advances past a deadline.                             *)
(***************************************************************************)
EXTENDS Integers, SequencesExt

CONSTANTS
  V4, V6,    (* the addresses of the two families                          *)
  Answers,   (* what the resolver may answer                               *)
  Uris,      (* the URIs of requests                                       *)
  Configs,   (* the configurations of the client                           *)
  Loaded,    (* bounds the clock: how late a task may be polled            *)
  NONE       (* a timeout, a port, a scheme or an error that is not there  *)

Addrs == V4 \cup V6

(* A URI, as far as connecting depends on it.  A URI with a scheme has an  *)
(* authority (the http crate sees to that), and `literal' hosts are IPv6   *)
(* addresses in brackets.                                                  *)
UriType == [scheme  : {"http", "https", "wss", "grpc", NONE},
            literal : BOOLEAN,
            port    : Nat \cup {NONE}]

(* TcpTransportConfig, the client's TLS configuration and its protocol.    *)
ConfigType == [happy_eyeballs_timeout : Nat \cup {NONE},
               connect_timeout        : Nat \cup {NONE},
               local_address_ipv4     : BOOLEAN,
               local_address_ipv6     : BOOLEAN,
               tls                    : BOOLEAN,
               protocol               : {"auto", "http1", "http2"}]

ASSUME ConnectingAssumption ==
  /\ V4 \cap V6 = {}
  /\ Answers \subseteq Seq(Addrs)
  /\ Uris \subseteq UriType
  /\ Configs \subseteq ConfigType
  /\ Loaded \in Nat
  /\ NONE \notin {"v4", "v6"}

VARIABLES
  config,    (* the configuration, fixed                                   *)
  phase,     (* where the connection is                                    *)
  uri,       (* the URI it is made for                                     *)
  asked,     (* HttpProtocol: what the request wants to be sent with       *)
  answer,    (* what the resolver answered                                 *)
  addrs,     (* SocketAddrs, in the order of the attempts                  *)
  sock,      (* the socket of each attempt                                 *)
  now,       (* the time since the race began                              *)
  error,     (* EyeballSet.error, then the error of the connection         *)
  alpn,      (* what the TLS handshake negotiated; NONE without TLS        *)
  speaks     (* the protocol of the connection                             *)

connVars == <<phase, uri, asked, answer, addrs, sock, now, error, alpn, speaks>>

SockStates == {"syn",      (* connecting                                   *)
               "up",       (* connected; the task has not been polled      *)
               "refused",  (* failed; the task has not been polled         *)
               "failed",   (* its attempt ended with an error              *)
               "closed",   (* dropped                                      *)
               "won"}      (* the stream of the connection                 *)

ConnTypeOK ==
  /\ config \in Configs
  /\ phase \in {"idle", "resolve", "race", "tls", "http", "up", "failed", "panic"}
  /\ uri \in Uris
  /\ asked \in {"http1", "http2"}
  /\ answer \in Seq(Addrs) /\ addrs \in Seq(Addrs)
  /\ sock \in Seq(SockStates) /\ Len(sock) = Len(addrs)
  /\ now \in Nat
  /\ error \in {NONE, "uri", "dns", "refused", "timed out", "exhausted",
                "attempts timed out", "tls handshake", "handshake"}
  /\ alpn \in {NONE, "none", "http/1.1", "h2"}
  /\ speaks \in {NONE, "h1", "h2"}
-----------------------------------------------------------------------------
(* The target                                                              *)

(* The transport trims the brackets of an IPv6 host, and knows the default *)
(* port of two schemes.                                                    *)
HostAndPort(u) ==
  IF u.port # NONE THEN u.port
  ELSE IF u.scheme = "http" THEN 80
  ELSE IF u.scheme = "https" THEN 443
  ELSE NONE

UseTls(u) == u.scheme \in {"https", "wss"}
-----------------------------------------------------------------------------
(* The order of the addresses                                              *)

IsV4(a) == a \in V4
IsV6(a) == a \in V6

(* IpVersion::from_binding: IPv6 when it may be used.                      *)
FromBinding(c) ==
  IF c.local_address_ipv6 THEN "v6"
  ELSE IF c.local_address_ipv4 THEN "v4" ELSE NONE

V4TakenFirst(s, prefer) ==   (* mutant: IPv4 is taken out first, wherever it is *)
  LET v4   == SelectInSeq(s, IsV4)
      v6   == SelectInSeq(s, IsV6)
      rest == RemoveAt(s, v4)
  IN  IF v4 = 0 THEN s
      ELSE IF v6 = 0 \/ v6 > Len(rest) THEN <<s[v4]>> \o rest
      ELSE (IF prefer = "v4" THEN <<s[v4], rest[v6]>> ELSE <<rest[v6], s[v4]>>)
             \o RemoveAt(rest, v6)

(* The first address of each family goes to the front, IPv6 first unless   *)
(* only an IPv4 address is bound.  The later one is taken out first, so    *)
(* that the index of the other stays right.                                *)
SortPreferred(s, prefer) ==
  LET v4   == SelectInSeq(s, IsV4)
      v6   == SelectInSeq(s, IsV6)
      late == IF v4 > v6 THEN v4 ELSE v6
      soon == IF v4 > v6 THEN v6 ELSE v4
  IN  IF late = 0 THEN s
      ELSE IF soon = 0 THEN <<s[late]>> \o RemoveAt(s, late)
      ELSE (IF prefer = "v4" THEN <<s[v4], s[v6]>> ELSE <<s[v6], s[v4]>>)
             \o RemoveAt(RemoveAt(s, late), soon)
-----------------------------------------------------------------------------
(* Errors end the connection; what it holds is dropped with it.            *)

NotDropped == sock       (* mutant: the attempts that lost go on *)

Dropped == [i \in 1..Len(sock) |->
              IF sock[i] = "failed" THEN "failed" ELSE "closed"]

Fail(e) ==
  /\ phase' = "failed"
  /\ error' = e

(* No connection in progress, as before the first and after each attempt   *)
(* of a request.                                                           *)
NoConnection ==
  /\ phase = "idle"
  /\ answer = <<>> /\ addrs = <<>> /\ sock = <<>>
  /\ now = 0
  /\ error = NONE /\ alpn = NONE /\ speaks = NONE

ConnInit ==
  /\ config \in Configs
  /\ uri \in Uris
  /\ asked = "http1"
  /\ NoConnection

(* Whoever waits for the connection drops its future, and the sockets.     *)
DropConnection ==
  /\ phase' = "idle"
  /\ answer' = <<>> /\ addrs' = <<>> /\ sock' = <<>>
  /\ now' = 0
  /\ error' = NONE /\ alpn' = NONE /\ speaks' = NONE
  /\ UNCHANGED <<config, uri, asked>>

(* TlsTransport and TcpTransport called for a URI: without a port to       *)
(* connect to, the future is an error.                                     *)
CallTransport(u, p) ==
  /\ phase = "idle"
  /\ uri' = u
  /\ asked' = p
  /\ IF HostAndPort(u) = NONE
       THEN Fail("uri")
       ELSE phase' = "resolve" /\ UNCHANGED error
  /\ UNCHANGED <<config, answer, addrs, sock, now, alpn, speaks>>
-----------------------------------------------------------------------------
(* The race                                                                *)

(* Which families are bound to a local address before they connect.        *)
BindsLocal(a) ==
  IF IsV4(a) THEN config.local_address_ipv4 ELSE config.local_address_ipv6

(* A new socket: opening it and binding it may fail at once.  The socket   *)
(* options only warn.                                                      *)
OpenSocket(a) == IF BindsLocal(a) THEN {"syn", "refused"} ELSE {"syn"}

(* EyeballSet::process_all on its first poll: nothing limits the initial   *)
(* concurrency, so all attempts start.                                     *)
StartAttempts(order) ==
  /\ addrs' = order
  /\ sock' \in {s \in [1..Len(order) -> {"syn", "refused"}] :
                  \A i \in 1..Len(order) : s[i] \in OpenSocket(order[i])}
  /\ now' = 0

(* The addresses are sorted only when there is a timeout for the race.     *)
Resolved(ans) ==
  /\ phase = "resolve"
  /\ answer' = ans
  /\ phase' = "race"
  /\ StartAttempts(IF config.happy_eyeballs_timeout = NONE THEN ans
                   ELSE SortPreferred(ans, FromBinding(config)))
  /\ UNCHANGED <<config, uri, asked, error, alpn, speaks>>

(* GaiFuture: the lookup, or the thread it runs on, fails.                 *)
ResolveFails ==
  /\ phase = "resolve"
  /\ Fail("dns")
  /\ UNCHANGED <<config, uri, asked, answer, addrs, sock, now, alpn, speaks>>

(* The network answers.                                                    *)
Settle(i) ==
  /\ phase = "race"
  /\ sock[i] = "syn"
  /\ \E s \in {"up", "refused"} : sock' = [sock EXCEPT ![i] = s]
  /\ UNCHANGED <<config, phase, uri, asked, answer, addrs, now, error, alpn, speaks>>

Expired(timeout) == timeout # NONE /\ now >= timeout

(* The connect timeout of an attempt, looked at after its socket.          *)
AttemptTimedOut(i) == sock[i] = "syn" /\ Expired(config.connect_timeout)

Latest == LET both == {config.happy_eyeballs_timeout, config.connect_timeout} \ {NONE}
          IN  IF both = {} THEN 0 ELSE Max(both)

Tick ==
  /\ phase = "race"
  /\ now < Latest + Loaded
  /\ now' = now + 1
  /\ UNCHANGED <<config, phase, uri, asked, answer, addrs, sock, error, alpn, speaks>>

(* ClientStream::tls names the server after the host of the URI, brackets  *)
(* and all, and what is not a server name is a panic.                      *)
StartTls == IF uri.literal THEN "panic" ELSE "tls"

(* The first success ends the race: the other attempts are dropped with    *)
(* the EyeballSet, and the stream goes on with TLS or without.             *)
JoinOk(i) ==
  /\ phase = "race"
  /\ sock[i] = "up"
  /\ sock' = [Dropped EXCEPT ![i] = "won"]
  /\ phase' = IF config.tls /\ UseTls(uri) THEN StartTls ELSE "http"
  /\ error' = NONE
  /\ UNCHANGED <<config, uri, asked, answer, addrs, now, alpn, speaks>>

(* A failure leaves the others running; the first error is kept.           *)
JoinError(i) ==
  /\ phase = "race"
  /\ sock[i] = "refused" \/ AttemptTimedOut(i)
  /\ sock' = [sock EXCEPT ![i] = "failed"]
  /\ error' = IF error # NONE THEN error
              ELSE IF sock[i] = "refused" THEN "refused" ELSE "timed out"
  /\ UNCHANGED <<config, phase, uri, asked, answer, addrs, now, alpn, speaks>>

ExhaustedOnError ==      (* mutant: without addresses, the race goes on *)
  /\ phase = "race"
  /\ error # NONE
  /\ \A i \in 1..Len(sock) : sock[i] = "failed"
  /\ Fail(error)
  /\ UNCHANGED <<config, uri, asked, answer, addrs, sock, now, alpn, speaks>>

(* No attempt is left: the first error, or none if there was no address.   *)
Exhausted ==
  /\ phase = "race"
  /\ \A i \in 1..Len(sock) : sock[i] = "failed"
  /\ Fail(IF error # NONE THEN error ELSE "exhausted")
  /\ UNCHANGED <<config, uri, asked, answer, addrs, sock, now, alpn, speaks>>

(* An attempt the next poll ends: of two timers of the same length, either *)
(* may be seen first.                                                      *)
Settled(i) ==
  \/ sock[i] \in {"up", "refused"}
  \/ /\ AttemptTimedOut(i)
     /\ config.connect_timeout # config.happy_eyeballs_timeout

DeadlineFirst ==     (* mutant: the deadline is looked at before the attempts *)
  /\ phase = "race"
  /\ Expired(config.happy_eyeballs_timeout)
  /\ sock' = Dropped
  /\ Fail("attempts timed out")
  /\ UNCHANGED <<config, uri, asked, answer, addrs, now, alpn, speaks>>

(* The timeout of the whole race.  The attempts are polled before it, so   *)
(* it ends a race in which none of them is finished; it hides an error.    *)
Deadline ==
  /\ phase = "race"
  /\ Expired(config.happy_eyeballs_timeout)
  /\ \E i \in 1..Len(sock) : sock[i] = "syn"
  /\ \A i \in 1..Len(sock) : ~Settled(i)
  /\ sock' = Dropped
  /\ Fail("attempts timed out")
  /\ UNCHANGED <<config, uri, asked, answer, addrs, now, alpn, speaks>>
-----------------------------------------------------------------------------
(* The handshakes                                                          *)

(* TlsConnectionFuture: the transport is ready when the handshake is done. *)
TlsDone(a) ==
  /\ phase = "tls"
  /\ alpn' = a
  /\ phase' = "http"
  /\ UNCHANGED <<config, uri, asked, answer, addrs, sock, now, error, speaks>>

TlsFails ==
  /\ phase = "tls"
  /\ Fail("tls handshake")
  /\ sock' = Dropped
  /\ UNCHANGED <<config, uri, asked, answer, addrs, now, alpn, speaks>>

(* HttpConnectionBuilder::handshake: what the request asks for, unless     *)
(* ALPN has chosen HTTP/2; hyper's own builders speak one protocol.        *)
ProtocolOf ==
  IF config.protocol = "http1" THEN "h1"
  ELSE IF config.protocol = "http2" THEN "h2"
  ELSE IF asked = "http2" \/ alpn = "h2" THEN "h2" ELSE "h1"

HttpDone ==
  /\ phase = "http"
  /\ speaks' = ProtocolOf
  /\ phase' = "up"
  /\ UNCHANGED <<config, uri, asked, answer, addrs, sock, now, error, alpn>>

HttpFails ==
  /\ phase = "http"
  /\ Fail("handshake")
  /\ sock' = Dropped
  /\ UNCHANGED <<config, uri, asked, answer, addrs, now, alpn, speaks>>
-----------------------------------------------------------------------------
Resolve == (\E ans \in Answers : Resolved(ans)) \/ ResolveFails

Attempts == 1..Len(sock)

(* What polling the race does; a poll that finds nothing does nothing.     *)
PollRace ==
  \/ \E i \in Attempts : JoinOk(i) \/ JoinError(i)
  \/ Exhausted
  \/ Deadline

HandshakeTls == (\E a \in {"none", "http/1.1", "h2"} : TlsDone(a)) \/ TlsFails

HandshakeHttp == HttpDone \/ HttpFails

ConnNext ==
  \/ Resolve
  \/ \E i \in Attempts : Settle(i)
  \/ Tick
  \/ PollRace
  \/ HandshakeTls
  \/ HandshakeHttp

(* The race is polled and time passes.  Resolvers, servers and peers need  *)
(* not answer.                                                             *)
RaceFairness == WF_connVars(PollRace) /\ WF_connVars(Tick)
=============================================================================
