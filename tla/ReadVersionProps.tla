-------------------------- MODULE ReadVersionProps --------------------------
(***************************************************************************)
(* What the detection of the HTTP version promises.                        *)
(***************************************************************************)
EXTENDS ReadVersion

(* The bytes on their way, from hyper back to the client.                  *)
Buffered == IF phase \in {"reading", "failed"} THEN filled ELSE prefix

(* However the stream is cut into fragments and reads, every byte reaches  *)
(* hyper once and in order: reading the preface consumes nothing, and      *)
(* Rewind repeats nothing (rewind.rs:39-56).                               *)
NoByteLost == got \o Buffered \o wire = sent

(* HTTP/2 is spoken only to a client that sent the whole preface, and all  *)
(* of the preface is there for hyper to read again (auto.rs:265-286).      *)
Http2OnlyOnPreface == phase = "http2" => IsPrefix(Prefix, sent)

(* A client that sends something or closes does not stay undecided, and    *)
(* hyper gets all that arrived, however small its buffers are: the prefix  *)
(* that did not fit (rewind.rs:47-52) and what follows it.                 *)
AllDelivered ==
  wire # <<>> \/ eof
    ~> phase = "failed" \/ (Served /\ prefix = <<>> /\ wire = <<>>)
-----------------------------------------------------------------------------
(* "The default protocol is AutoBuilder, which can serve both HTTP/1 and   *)
(* HTTP/2 connections, and will automatically detect the protocol used by  *)
(* the client" (server/mod.rs:167-170): a client that has sent the whole   *)
(* preface is not served HTTP/1, in however many pieces it arrived.        *)
PrefaceIsDetected == phase = "http1" => ~IsPrefix(Prefix, sent)
=============================================================================
