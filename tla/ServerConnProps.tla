-------------------------- MODULE ServerConnProps --------------------------
(***************************************************************************)
(* What the requests of a connection may rely on.  What ReadVersionProps   *)
(* says of the bytes holds here of those inside TLS.                       *)
(***************************************************************************)
EXTENDS ServerConn, ReadVersionProps

(* Nobody waits for information that will not come, which is a panic: by   *)
(* the time there is a request the handshake is done and has been          *)
(* published, and the one receiver in the shared state is used once, in    *)
(* whatever order requests read, wait and are cancelled (info/tls.rs:      *)
(* 154-186, server/conn/tls/mod.rs:79-95).  And the ConnectionInfo of the  *)
(* service, which it can give away once, is there for every request        *)
(* (server/conn/info.rs:191-202, bridge/service.rs:28-32).                 *)
InfoArrives ==
  \A r \in Reqs : /\ pc[r] # "none" => r \in known
                  /\ pc[r] # "panic"
                  /\ pc[r] = "await" => chan = "sent"

(* With both layers no request goes to the service over a TLS connection   *)
(* opened for another host: ValidateSNI lets a request without information *)
(* pass, so this rests on the information being there before it looks      *)
(* (sni.rs:127-174, server/conn/tls/info.rs:149-176).                      *)
SniMatches ==
  \A r \in Reqs :
    (layers.info /\ layers.sni /\ tls # "NoTls" /\ pc[r] = "served")
      => /\ sni # NONE
         /\ host[r] \in {NONE, sni}
         /\ ext[r] = IF host[r] = NONE THEN "present" ELSE "validated"

(* Every request gets past the two layers unless it is cancelled, though   *)
(* one that is dropped may hold the write lock (info/tls.rs:167-185).      *)
RequestsPass ==
  \A r \in Reqs : r \in InProgress ~> r \notin InProgress
=============================================================================
