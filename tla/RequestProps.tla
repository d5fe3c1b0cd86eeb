---------------------------- MODULE RequestProps ----------------------------
(***************************************************************************)
(* What the client promises of a request and of the connections it makes.  *)
(***************************************************************************)
EXTENDS Request

(* The indexes of the first address of a family, if there is one.          *)
First(s, F) ==
  {i \in 1..Len(s) : s[i] \in F /\ \A j \in 1..Len(s) : s[j] \in F => i <= j}

(* t has the elements of s, each once: the a-th and the b-th of s first,   *)
(* and the rest in their order.                                            *)
Moved(s, t, a, b) ==
  \E from \in [1..Len(s) -> 1..Len(s)] :
    /\ from[1] = a /\ from[2] = b
    /\ \A i, j \in 1..Len(s) : /\ i # j => from[i] # from[j]
                               /\ 2 < i /\ i < j => from[i] < from[j]
    /\ \A i \in 1..Len(s) : t[i] = s[from[i]]

(* t is s with the addresses of F preferred: with addresses of both        *)
(* families, the first of F leads and the first of G follows.              *)
Ordered(s, t, F, G) ==
  /\ Len(t) = Len(s)
  /\ IF First(s, F) = {} \/ First(s, G) = {} THEN t = s
     ELSE \E a \in First(s, F), b \in First(s, G) : Moved(s, t, a, b)

(* The sorted addresses are the resolver's, each as often as there: the    *)
(* first of the preferred family leads, the first of the other follows,    *)
(* and the rest keep the resolver's order (dns.rs:37-86).                  *)
PreferenceOrder ==
  phase = "race" /\ config.happy_eyeballs_timeout # NONE =>
    IF config.local_address_ipv4 /\ ~config.local_address_ipv6
    THEN Ordered(answer, addrs, V4, V6)
    ELSE Ordered(answer, addrs, V6, V4)

(* The race fails only when no attempt has reached a server: neither an    *)
(* early error nor a timer that fires together with the success loses the  *)
(* connection (happy_eyeballs.rs:138-214).  A step, because a failure      *)
(* closes the sockets.                                                     *)
SuccessNotMissed ==
  [][phase = "race" /\ phase' = "failed"
       => \A i \in 1..Len(sock) : sock[i] # "up"]_vars

(* No socket outlives the connection it was opened for: after the race     *)
(* only the winner's is open, and none after a failure, a timeout or an    *)
(* answer (tcp.rs:276-301, builder.rs:398-421).                            *)
OnlyWinnerOpen ==
  /\ phase \in {"tls", "http", "up"} =>
       \E w \in 1..Len(sock) :
         /\ sock[w] = "won"
         /\ \A i \in 1..Len(sock) : i # w => sock[i] \in {"failed", "closed"}
  /\ phase = "failed" => \A i \in 1..Len(sock) : sock[i] \in {"failed", "closed"}
  /\ stage \in {"answer", "done"} => sock = <<>>

(* The port a reader of the Host header sends to.                          *)
PortNamed(h, secure) ==
  IF h.port # NONE THEN h.port ELSE IF secure THEN 443 ELSE 80

(* The Host header of an HTTP/1 request names the port that the transport  *)
(* connected to: what one file leaves out is what another one fills in     *)
(* (service.rs:439-471, tcp.rs:463-476), whatever retries and redirects    *)
(* came before.                                                            *)
HostIsPeer ==
  stage = "exchange" /\ speaks = "h1" /\ ~req.host.own =>
    PortNamed(req.host, UseTls(uri)) = HostAndPort(uri)

(* A retry was counted.  (Not all are seen: the count may wrap.)           *)
Retried == client.retries # NONE /\ left # client.retries

(* Every attempt starts from the request as the caller made it, but for    *)
(* two things, and not from what was prepared for an earlier connection: a *)
(* redirect replaces its URI, and retries and redirects leave out its      *)
(* extensions, so that only the first attempt has them (retry.rs:32-50,    *)
(* service.rs:316-363).                                                    *)
RetriedAsGiven ==
  stage = "ready" =>
    /\ [req EXCEPT !.uri = original.uri, !.extensions = original.extensions]
         = original
    /\ redirects = 0 => req.uri = original.uri
    /\ IF redirects > 0 \/ Retried THEN ~req.extensions
       ELSE req = original \/ ~req.extensions

(* A race that has a timeout, its own or one of its attempts', ends, with  *)
(* or without a connection and however few servers answer                  *)
(* (happy_eyeballs.rs:201-214, tcp.rs:562-579).                            *)
RaceEnds ==
  phase = "race" /\ (\/ config.happy_eyeballs_timeout # NONE
                     \/ config.connect_timeout # NONE)
    ~> phase # "race"

(* A client with a timeout answers every request after the retries it was  *)
(* given, although the lookup, the handshakes and the peer may be silent   *)
(* for ever and every attempt may fail (builder.rs:398-421,                *)
(* retry.rs:19-30).  It does not in two cases.  The panic of a request for *)
(* HTTP/3 (protocol/mod.rs:147), or for TLS to an IPv6 literal             *)
(* (stream/tls.rs:94), is no answer.  And a server error that comes when   *)
(* no retry is left is not returned but retried or a panic (retry.rs:25),  *)
(* although retry.rs:10 promises a number of retries.                      *)
Answered ==
  client.timeout =>
    <>(\/ stage = "done"
       \/ stage = "panic" /\ (NoProtocol(req.version) \/ (UseTls(uri) /\ uri.literal))
       \/ stage = "answer" /\ result = "5xx" /\ left = 0 /\ saved # NONE)
=============================================================================
