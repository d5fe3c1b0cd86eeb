------------------------------ MODULE Request -------------------------------
(***************************************************************************)
(* A request of the client from the call to its answer: the layers that    *)
(* build_service puts around the ClientService (client/builder.rs), that   *)
(* is retries (service/retry.rs), the timeout of each attempt and          *)
(* redirects, then the service itself (client/service.rs), which connects  *)
(* (Connecting), prepares the request for the connection and sends it.     *)
(*                                                                         *)
(* The client has no pool (without_pool), so every attempt connects.       *)
(***************************************************************************)
EXTENDS Connecting

CONSTANTS
  Clients,       (* the layers of a client                                 *)
  Requests,      (* what callers ask for                                   *)
  Locations,     (* where responses redirect to                            *)
  UsizeMax,      (* the largest usize                                      *)
  MaxRedirects   (* the limit of the redirect policy                       *)

VersionType == {"1.0", "1.1", "2", "3"}

(* A Host header, as far as it differs from the host connected to: the     *)
(* caller's own, or the host of the URI with a port or without.            *)
HostType == [own : BOOLEAN, port : Nat \cup {NONE}] \cup {NONE}

(* form is the form of the URI: all of it, its path or its authority;      *)
(* extensions is whether the request carries extensions.  The client does  *)
(* not look into them.                                                     *)
RequestType == [version    : VersionType,
                connect    : BOOLEAN,
                uri        : UriType,
                form       : {"absolute", "origin", "authority"},
                host       : HostType,
                cloneable  : BOOLEAN,
                extensions : BOOLEAN]

(* The Builder's settings that make layers.                                *)
ClientType == [retries  : 0..UsizeMax \cup {NONE},
               timeout  : BOOLEAN,
               redirect : BOOLEAN]

(* A Host header that is there before the request is prepared is the       *)
(* caller's.                                                               *)
ASSUME RequestAssumption ==
  /\ UsizeMax \in Nat /\ MaxRedirects \in Nat
  /\ Clients \subseteq ClientType
  /\ Requests \subseteq RequestType
  /\ \A r \in Requests : r.uri \in Uris /\ (r.host # NONE => r.host.own)
  /\ Locations \subseteq {u \in Uris : u.scheme # NONE}

VARIABLES
  client,     (* the layers, fixed                                         *)
  build,      (* the profile the program is built with, fixed              *)
  original,   (* the caller's request                                      *)
  stage,      (* where the request is                                      *)
  req,        (* the request of this attempt                               *)
  saved,      (* the clone that Retry keeps                                *)
  left,       (* Attempts                                                  *)
  redirects,  (* how often this attempt was redirected                     *)
  result      (* what the attempt, in the end the call, returns            *)

reqVars == <<client, build, original, stage, req, saved, left, redirects, result>>
vars == <<config, connVars, reqVars>>

TypeOK ==
  /\ ConnTypeOK
  /\ client \in Clients
  /\ build \in {"debug", "release"}
  /\ original \in Requests
  /\ stage \in {"start", "ready", "connect", "exchange", "answer", "done", "panic"}
  /\ req \in RequestType
  /\ saved \in RequestType \cup {NONE}
  /\ left \in 0..UsizeMax
  /\ redirects \in 0..MaxRedirects
  /\ result \in {NONE, "ok", "5xx", "error"}

Init ==
  /\ ConnInit
  /\ client \in Clients
  /\ build \in {"debug", "release"}
  /\ original \in Requests
  /\ uri = original.uri
  /\ stage = "start"
  /\ req = original
  /\ saved = NONE
  /\ left = IF client.retries = NONE THEN 0 ELSE client.retries
  /\ redirects = 0
  /\ result = NONE

fixed == <<client, build, original>>
-----------------------------------------------------------------------------
(* The client service                                                      *)

(* Attempts::clone_request: a request is built anew from URI, method,      *)
(* version, headers and body; extensions are not among them.  There is no  *)
(* clone if the body cannot be cloned.                                     *)
CloneRequest(r) == IF r.cloneable THEN [r EXCEPT !.extensions = FALSE] ELSE NONE

(* Client::request: Retry clones the request before it calls the service.  *)
Call ==
  /\ stage = "start"
  /\ saved' = IF client.retries = NONE THEN NONE ELSE CloneRequest(original)
  /\ stage' = "ready"
  /\ UNCHANGED <<config, connVars, fixed, req, left, redirects, result>>

(* HttpProtocol of a version; there is none of HTTP/3, which panics.       *)
HttpProtocolOf(v) == IF v = "2" THEN "http2" ELSE "http1"
NoProtocol(v) == v = "3"

(* The pool key of a URI, without which there is no connection.            *)
HasKey(u) == u.scheme # NONE

End(r) == stage' = "answer" /\ result' = r

(* ClientService::call and connect_to, of what the layers pass on.         *)
CallService ==
  /\ stage = "ready"
  /\ IF NoProtocol(req.version)
       THEN stage' = "panic" /\ UNCHANGED <<config, connVars, result>>
     ELSE IF ~HasKey(req.uri)
       THEN End("error") /\ UNCHANGED <<config, connVars>>
     ELSE /\ CallTransport(req.uri, HttpProtocolOf(req.version))
          /\ stage' = "connect"
          /\ UNCHANGED result
  /\ UNCHANGED <<fixed, req, saved, left, redirects>>

(* ResponseFuture::poll with a Checkout that fails, or that panics.        *)
ConnectionError ==
  /\ stage = "connect"
  /\ phase \in {"failed", "panic"}
  /\ DropConnection
  /\ IF phase = "panic" THEN stage' = "panic" /\ UNCHANGED result ELSE End("error")
  /\ UNCHANGED <<fixed, req, saved, left, redirects>>

IsSchemaSecure(u) == u.scheme \in {"wss", "https"}

AnyDefaultPort(u) ==         (* mutant: the scheme is not looked at *)
  IF u.port \in {80, 443} THEN NONE ELSE u.port

GetNonDefaultPort(u) ==
  IF u.port = (IF IsSchemaSecure(u) THEN 443 ELSE 80) THEN NONE ELSE u.port

(* A Host header that is there stays.                                      *)
SetHostHeader(r) ==
  IF r.host # NONE THEN r.host
  ELSE [own |-> FALSE, port |-> GetNonDefaultPort(r.uri)]

(* The scheme goes with the rest of the URI, so that what follows for      *)
(* HTTPS in the code never applies to an authority.                        *)
Relative(r, form) ==
  [r EXCEPT !.uri.scheme = NONE,
            !.uri.port = IF form = "origin" THEN NONE ELSE @,
            !.form = form]

(* prepare_request: what does not fit the connection is refused.           *)
Refused(r) ==
  IF speaks = "h1" THEN r.version \in {"2", "3"} ELSE r.connect

PrepareRequest(r) ==
  IF speaks = "h1"
  THEN Relative([r EXCEPT !.host = SetHostHeader(r)],
                IF r.connect THEN "authority" ELSE "origin")
  ELSE [r EXCEPT !.version = "2"]

(* execute_request, up to the sending of the request.                      *)
Execute ==
  /\ stage = "connect"
  /\ phase = "up"
  /\ IF Refused(req)
       THEN /\ End("error")
            /\ DropConnection
            /\ UNCHANGED req
       ELSE /\ req' = PrepareRequest(req)
            /\ stage' = "exchange"
            /\ UNCHANGED <<config, connVars, result>>
  /\ UNCHANGED <<fixed, saved, left, redirects>>

(* The peer answers or the connection breaks.  Without a pool, nothing     *)
(* keeps the connection.                                                   *)
Respond(r) ==
  /\ stage = "exchange"
  /\ End(r)
  /\ DropConnection
  /\ UNCHANGED <<fixed, req, saved, left, redirects>>

(* The redirect layer sends what it was given to another URI, with the     *)
(* method, version and headers it kept, but not the extensions.            *)
Redirect(u) ==
  /\ stage = "exchange"
  /\ client.redirect /\ redirects < MaxRedirects
  /\ redirects' = redirects + 1
  /\ req' = [original EXCEPT !.uri = u, !.extensions = FALSE]
  /\ stage' = "ready"
  /\ DropConnection
  /\ UNCHANGED <<fixed, saved, left, result>>

TimeoutConnecting ==     (* mutant: the timeout covers only the connecting *)
  /\ client.timeout
  /\ stage = "connect"
  /\ End("error")
  /\ DropConnection
  /\ UNCHANGED <<fixed, req, saved, left, redirects>>

(* The timeout layer: the attempt is dropped, with all that it holds.      *)
Timeout ==
  /\ client.timeout
  /\ stage \in {"connect", "exchange"}
  /\ End("error")
  /\ DropConnection
  /\ UNCHANGED <<fixed, req, saved, left, redirects>>
-----------------------------------------------------------------------------
(* Retries                                                                 *)

RetryPrepared ==         (* mutant: the request is sent again as it was sent *)
  /\ stage' = "ready"
  /\ redirects' = 0
  /\ result' = NONE
  /\ UNCHANGED <<req, saved>>

(* The clone is sent, and cloned for the attempt after this one.           *)
Again ==
  /\ stage' = "ready"
  /\ req' = saved
  /\ saved' = CloneRequest(saved)
  /\ redirects' = 0
  /\ result' = NONE

Finish ==
  /\ stage' = "done"
  /\ UNCHANGED <<req, saved, redirects, result>>

BelowZero ==             (* mutant: what is left is not an unsigned number *)
  /\ result = "5xx" /\ saved # NONE
  /\ Again
  /\ left' = left - 1

(* Attempts::retry.  What is left is counted down without a look at it     *)
(* when the answer is a server error: overflow checks make zero a panic,   *)
(* and without them it is followed by the largest usize.                   *)
RetryServerError ==
  /\ result = "5xx" /\ saved # NONE
  /\ IF left = 0 /\ build = "debug"
       THEN stage' = "panic" /\ UNCHANGED <<req, saved, left, redirects, result>>
       ELSE /\ Again
            /\ left' = IF left = 0 THEN UsizeMax ELSE left - 1

RetryError ==
  /\ result = "error" /\ saved # NONE
  /\ left > 0
  /\ Again
  /\ left' = left - 1

NoRetry ==
  /\ \/ saved = NONE
     \/ result = "ok"
     \/ result = "error" /\ left = 0
  /\ Finish
  /\ UNCHANGED left

Retry ==
  /\ stage = "answer"
  /\ RetryServerError \/ RetryError \/ NoRetry
  /\ UNCHANGED <<config, connVars, fixed>>
-----------------------------------------------------------------------------
Connection == stage = "connect" /\ ConnNext /\ UNCHANGED reqVars

PollRequest == Call \/ CallService \/ ConnectionError \/ Execute \/ Retry

Peer == \/ \E r \in {"ok", "5xx", "error"} : Respond(r)
        \/ \E u \in Locations : Redirect(u)

Next == PollRequest \/ Connection \/ Peer \/ Timeout

Spec == Init /\ [][Next]_vars

(* The caller's task is polled, and time passes: a race is polled and its  *)
(* clock advances, and a request that has a timeout comes to it.           *)
Fairness ==
  /\ WF_vars(PollRequest)
  /\ WF_vars(stage = "connect" /\ PollRace /\ UNCHANGED reqVars)
  /\ WF_vars(stage = "connect" /\ Tick /\ UNCHANGED reqVars)
  /\ WF_vars(Timeout)

FairSpec == Spec /\ Fairness
=============================================================================
