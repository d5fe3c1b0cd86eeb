----------------------------- MODULE ServerConn -----------------------------
(***************************************************************************)
(* A connection of the server from its acceptance to its requests: the     *)
(* TLS handshake, which the first read performs (server/conn/tls,          *)
(* server/conn/stream.rs), the detection of the HTTP version on the stream *)
(* inside (ReadVersion), and what every request then learns of the         *)
(* handshake (info/tls.rs, tls/info.rs) and is checked against (sni.rs).   *)
(*                                                                         *)
(* The bytes of ReadVersion are those inside TLS; the steps of this module *)
(* either are its steps or leave its variables alone.                      *)
(***************************************************************************)
EXTENDS ReadVersion, FiniteSets

CONSTANTS
  Reqs,      (* the requests of the connection                             *)
  Names,     (* host names                                                 *)
  NONE       (* no name, no request                                        *)

ASSUME ServerConnAssumption == NONE \notin Reqs \cup Names

VARIABLES
  layers,    (* which of the TLS layers the server has, fixed              *)
  tls,       (* TlsBraid and TlsState                                      *)
  peer,      (* the client's part of the handshake                         *)
  sni,       (* the server name of the handshake                           *)
  chan,      (* the oneshot channel of the connection information          *)
  kept,      (* the service has its ConnectionInfo                         *)
  known,     (* the requests that have it among their extensions           *)
  cache,     (* State of the TlsConnectionInfoReciever                     *)
  writer,    (* who holds its lock for writing                             *)
  pc,        (* where each request is                                      *)
  host,      (* the host each request is for                               *)
  ext        (* the TlsConnectionInfo among the request's extensions       *)

tlsVars == <<tls, peer, sni, chan>>
requestVars == <<kept, known, cache, writer, pc, host, ext>>
connVars == <<layers, tlsVars, requestVars>>
allVars == <<vars, connVars>>

(* TlsConnectionInfoLayer, and ValidateSNI inside it.                      *)
LayersType == [info : BOOLEAN, sni : BOOLEAN]

ServerTypeOK ==
  /\ TypeOK
  /\ layers \in LayersType
  /\ tls \in {"NoTls", "Handshake", "Streaming"}
  /\ peer \in {"silent", "done", "bad"}
  /\ sni \in Names \cup {NONE}
  /\ chan \in {"open", "sent", "dropped"}
  /\ kept \in BOOLEAN /\ known \subseteq Reqs
  /\ cache \in {"Pending", "Received", "Empty"}
  /\ writer \in Reqs \cup {NONE}
  /\ pc \in [Reqs -> {"none", "recv", "write", "await", "check", "panic",
                      "served", "rejected", "cancelled"}]
  /\ host \in [Reqs -> Names \cup {NONE}]
  /\ ext \in [Reqs -> {"absent", "present", "validated"}]

(* Stream::new, and what else becomes a Stream without TLS.                *)
PlainStream ==
  /\ tls = "NoTls"
  /\ sni = NONE
  /\ chan = "dropped"
  /\ cache = "Empty"

(* TlsStream::new, around an Accept that has not been polled.              *)
TlsStream ==
  /\ tls = "Handshake"
  /\ sni \in Names \cup {NONE}
  /\ chan = "open"
  /\ cache = "Pending"

(* Acceptor::poll_accept wraps what it accepted, and does not wait for a   *)
(* handshake.                                                              *)
PollAccept == PlainStream \/ TlsStream

(* The make service gives the connection's service its information.        *)
MakeService == kept = TRUE /\ known = {}

ServerInit ==
  /\ Init
  /\ PollAccept /\ peer = "silent"
  /\ MakeService
  /\ layers \in LayersType
  /\ writer = NONE
  /\ pc = [r \in Reqs |-> "none"]
  /\ host = [r \in Reqs |-> NONE]
  /\ ext = [r \in Reqs |-> "absent"]
-----------------------------------------------------------------------------
(* The stream                                                              *)

(* TLS carries data once the handshake is done.                            *)
Open == tls # "Handshake"

(* The client sends within TLS.                                            *)
ClientSends ==
  /\ Open
  /\ \E n \in 1..Len(coming) : Arrive(n)
  /\ UNCHANGED connVars

ClientCloses == Close /\ UNCHANGED connVars

ClientShakes ==
  /\ tls = "Handshake" /\ peer = "silent" /\ ~eof
  /\ peer' \in {"done", "bad"}
  /\ UNCHANGED <<vars, layers, tls, sni, chan, requestVars>>

HandshakeUnsent ==       (* mutant: the information is not published *)
  /\ phase = "reading"
  /\ tls = "Handshake" /\ peer = "done"
  /\ tls' = "Streaming"
  /\ UNCHANGED <<vars, layers, peer, sni, chan, requestVars>>

(* TlsStream::handshake, called by the first read: the information is sent *)
(* before the read it is called for goes on.                               *)
Handshake ==
  /\ phase = "reading"
  /\ tls = "Handshake" /\ peer = "done"
  /\ tls' = "Streaming"
  /\ chan' = "sent"
  /\ UNCHANGED <<vars, layers, peer, sni, requestVars>>

(* The connection ends, and with it the sender.                            *)
Ends ==
  /\ Fail
  /\ chan' = IF chan = "open" THEN "dropped" ELSE chan
  /\ UNCHANGED <<layers, tls, peer, sni, requestVars>>

(* The handshake fails, as does the read that performs it.                 *)
HandshakeFails ==
  /\ tls = "Handshake"
  /\ (peer = "bad" \/ eof)
  /\ Ends

(* The server shuts the connection down, which cancels the detection, or   *)
(* the stream breaks.                                                      *)
ReadFails == Ends

DetectVersion == Open /\ Detect /\ UNCHANGED connVars
ServeBytes == Open /\ Hyper /\ UNCHANGED connVars
-----------------------------------------------------------------------------
(* The requests                                                            *)

Goes(r, to) == pc' = [pc EXCEPT ![r] = to]

InProgress == {r \in Reqs : pc[r] \in {"recv", "write", "await", "check"}}

CallUncloned(r) ==       (* mutant: the service is called itself *)
  /\ known' = IF kept THEN known \cup {r} ELSE known
  /\ kept' = FALSE

(* TowerHyperService::call clones the service, and it is the clone whose   *)
(* information ConnectionWithInfo::call takes.                             *)
CallClone(r) ==
  /\ known' = IF kept THEN known \cup {r} ELSE known
  /\ UNCHANGED kept

(* hyper finds a request in what it has read: one at a time with HTTP/1,   *)
(* any number with HTTP/2.  TlsConnection::call takes its receiver along.  *)
NewRequest(r, h) ==
  /\ Served /\ got # <<>>
  /\ pc[r] = "none"
  /\ phase = "http1" => InProgress = {}
  /\ host' = [host EXCEPT ![r] = h]
  /\ CallClone(r)
  /\ Goes(r, IF layers.info THEN "recv" ELSE "check")
  /\ UNCHANGED <<vars, layers, tlsVars, cache, writer, ext>>

Insert(r) ==
  /\ Goes(r, "check")
  /\ ext' = [ext EXCEPT ![r] = "present"]

RecvNoWait(r) ==         (* mutant: what is not there yet is taken for none *)
  /\ pc[r] = "recv" /\ writer = NONE
  /\ IF cache = "Received"
       THEN Insert(r)
       ELSE Goes(r, "check") /\ UNCHANGED ext
  /\ UNCHANGED <<vars, layers, tlsVars, kept, known, cache, writer, host>>

(* recv() under the read lock: there is nothing to wait for in it.         *)
RecvRead(r) ==
  /\ pc[r] = "recv" /\ writer = NONE
  /\ CASE cache = "Received" -> Insert(r)
       [] cache = "Empty" -> Goes(r, "check") /\ UNCHANGED ext
       [] cache = "Pending" -> Goes(r, "write") /\ UNCHANGED ext
  /\ UNCHANGED <<vars, layers, tlsVars, kept, known, cache, writer, host>>

(* recv() under the write lock, which it keeps while it waits; another     *)
(* request may have been there in between.                                 *)
RecvWrite(r) ==
  /\ pc[r] = "write" /\ writer = NONE
  /\ IF cache = "Received"
       THEN Insert(r) /\ UNCHANGED writer
       ELSE writer' = r /\ Goes(r, "await") /\ UNCHANGED ext
  /\ UNCHANGED <<vars, layers, tlsVars, kept, known, cache, host>>

RecvUncached(r) ==       (* mutant: the receiver is used up, the state not set *)
  /\ pc[r] = "await" /\ chan # "open"
  /\ writer' = NONE
  /\ chan' = "dropped"
  /\ IF chan = "sent" THEN Insert(r) ELSE Goes(r, "panic") /\ UNCHANGED ext
  /\ UNCHANGED <<vars, layers, tls, peer, sni, kept, known, cache, host>>

(* The channel answers: the information, or a sender dropped without it,   *)
(* which is a panic.                                                       *)
RecvAwait(r) ==
  /\ pc[r] = "await" /\ chan # "open"
  /\ writer' = NONE
  /\ IF chan = "sent"
       THEN Insert(r) /\ cache' = "Received"
       ELSE Goes(r, "panic") /\ UNCHANGED <<cache, ext>>
  /\ UNCHANGED <<vars, layers, tlsVars, kept, known, host>>

NeverMatched(r) == "served"    (* mutant: the names are not compared *)

(* sni::handle: a request without information is not a TLS request, one    *)
(* without a host passes, and one for another host is rejected.            *)
Verdict(r) ==
  IF ext[r] = "absent" \/ (sni # NONE /\ host[r] \in {NONE, sni})
  THEN "served" ELSE "rejected"

CheckSni(r) ==
  /\ pc[r] = "check"
  /\ Goes(r, IF layers.sni THEN Verdict(r) ELSE "served")
  /\ ext' = [ext EXCEPT ![r] =
               IF layers.sni /\ @ = "present" /\ sni # NONE /\ host[r] = sni
               THEN "validated" ELSE @]
  /\ UNCHANGED <<vars, layers, tlsVars, kept, known, cache, writer, host>>

CancelKeepsLock(r) ==    (* mutant: the lock is not released *)
  /\ r \in InProgress
  /\ Goes(r, "cancelled")
  /\ UNCHANGED <<vars, layers, tlsVars, kept, known, cache, writer, host, ext>>

(* The client resets the request: its future is dropped, and with it the   *)
(* lock if it waits with it.                                               *)
Cancel(r) ==
  /\ r \in InProgress
  /\ Goes(r, "cancelled")
  /\ writer' = IF writer = r THEN NONE ELSE writer
  /\ UNCHANGED <<vars, layers, tlsVars, kept, known, cache, host, ext>>
-----------------------------------------------------------------------------
Recv(r) == RecvRead(r) \/ RecvWrite(r) \/ RecvAwait(r) \/ CheckSni(r)

Connection == Handshake \/ HandshakeFails \/ DetectVersion \/ ServeBytes

ServerNext ==
  \/ ClientSends \/ ClientCloses \/ ClientShakes
  \/ Connection
  \/ ReadFails
  \/ \E r \in Reqs : Recv(r) \/ Cancel(r)
  \/ \E r \in Reqs, h \in Names \cup {NONE} : NewRequest(r, h)

ServerSpec == ServerInit /\ [][ServerNext]_allVars

(* The connection's task is polled, and so is the future of every request. *)
ServerFairSpec ==
  /\ ServerSpec
  /\ WF_allVars(Handshake) /\ WF_allVars(HandshakeFails)
  /\ WF_allVars(DetectVersion) /\ WF_allVars(ServeBytes)
  /\ \A r \in Reqs : WF_allVars(Recv(r))
=============================================================================
