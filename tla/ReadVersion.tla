---------------------------- MODULE ReadVersion ----------------------------
(***************************************************************************)
(* Detection of a connection's HTTP version (server/conn/auto.rs): the     *)
(* ReadVersion future compares what arrives first with the HTTP/2 preface, *)
(* and Rewind (rewind.rs) gives hyper the bytes read so far before it      *)
(* reads on.  Bytes arrive in any fragments and are read in any portions.  *)
(***************************************************************************)
EXTENDS Integers, SequencesExt

CONSTANTS
  Bytes,     (* the values of a byte                                       *)
  Prefix,    (* HTTP2_PREFIX                                               *)
  Streams,   (* what clients may send                                      *)
  BufSizes   (* the room in the buffers hyper reads into                   *)

ASSUME ReadVersionAssumption ==
  /\ Prefix \in Seq(Bytes) /\ Prefix # <<>>
  /\ Streams \subseteq Seq(Bytes)
  /\ BufSizes \subseteq Nat \ {0}

VARIABLES
  coming,    (* what the client is still going to send                     *)
  sent,      (* what has arrived from it                                   *)
  wire,      (* the part of that which has not been read                   *)
  eof,       (* the client has closed its side                             *)
  phase,     (* the version decided, if any                                *)
  filled,    (* ReadVersion.buf, as far as it is filled                    *)
  prefix,    (* Rewind.prefix, empty for None                              *)
  got        (* what hyper has read                                        *)

vars == <<coming, sent, wire, eof, phase, filled, prefix, got>>

TypeOK ==
  /\ coming \in Seq(Bytes) /\ sent \in Seq(Bytes)
  /\ wire \in Seq(Bytes) /\ got \in Seq(Bytes)
  /\ filled \in Seq(Bytes) /\ Len(filled) <= Len(Prefix)
  /\ prefix \in Seq(Bytes) /\ Len(prefix) <= Len(filled)
  /\ eof \in BOOLEAN
  /\ phase \in {"reading", "http1", "http2", "failed"}

Init ==
  /\ coming \in Streams
  /\ sent = <<>>
  /\ wire = <<>>
  /\ eof = FALSE
  /\ phase = "reading"
  /\ filled = <<>>
  /\ prefix = <<>>
  /\ got = <<>>

(* The first n elements of a sequence, and the others.                     *)
First(s, n) == SubSeq(s, 1, n)
Rest(s, n)  == SubSeq(s, n + 1, Len(s))
-----------------------------------------------------------------------------
(* The client                                                              *)

Arrive(n) ==
  /\ n \in 1..Len(coming)
  /\ wire' = wire \o First(coming, n)
  /\ sent' = sent \o First(coming, n)
  /\ coming' = Rest(coming, n)
  /\ UNCHANGED <<eof, phase, filled, prefix, got>>

(* It may close before it has sent everything it meant to.                 *)
Close ==
  /\ ~eof
  /\ eof' = TRUE
  /\ coming' = <<>>
  /\ UNCHANGED <<sent, wire, phase, filled, prefix, got>>
-----------------------------------------------------------------------------
(* ReadVersion::poll                                                       *)

(* The future is Ready: the stream continues inside a Rewind.              *)
Decide(v) ==
  /\ phase' = v
  /\ prefix' = filled'

NoLimit(n) == TRUE         (* mutant: the read goes past the end of buf *)

(* The room in buf.                                                        *)
Fits(n) == Len(filled) + n <= Len(Prefix)

FewOfPreface(n) ==         (* mutant: bytes are counted, not compared *)
  Len(filled) + n = Len(Prefix)

(* buf.filled()[len..] against HTTP2_PREFIX[len..]: a read that does not   *)
(* fill the buffer leaves slices of different lengths, which differ.       *)
RestOfPreface(n) == First(wire, n) = Rest(Prefix, Len(filled))

Read(n) ==
  /\ phase = "reading"
  /\ n \in 1..Len(wire)
  /\ Fits(n)
  /\ filled' = filled \o First(wire, n)
  /\ wire' = Rest(wire, n)
  /\ IF RestOfPreface(n) THEN Decide("http2") ELSE Decide("http1")
  /\ UNCHANGED <<coming, sent, eof, got>>

EofIsPending ==            (* mutant: a read of nothing is not the end *)
  /\ phase = "reading"
  /\ eof /\ wire = <<>>
  /\ UNCHANGED vars

(* Nothing was read: the end of the stream.                                *)
ReadEof ==
  /\ phase = "reading"
  /\ eof /\ wire = <<>>
  /\ filled' = filled
  /\ Decide("http1")
  /\ UNCHANGED <<coming, sent, wire, eof, got>>

(* The read fails, or the connection is shut down and polled again:        *)
(* cancel() makes the next poll an error.                                  *)
Fail ==
  /\ phase = "reading"
  /\ phase' = "failed"
  /\ UNCHANGED <<coming, sent, wire, eof, filled, prefix, got>>
-----------------------------------------------------------------------------
(* Rewind::poll_read                                                       *)

Served == phase \in {"http1", "http2"}

Lesser(m, n) == IF m < n THEN m ELSE n

RewindOnce(size) ==        (* mutant: what did not fit is not put back *)
  /\ Served
  /\ prefix # <<>>
  /\ got' = got \o First(prefix, Lesser(Len(prefix), size))
  /\ prefix' = <<>>
  /\ UNCHANGED <<coming, sent, wire, eof, phase, filled>>

(* The prefix first, and what does not fit is put back.                    *)
RewindPrefix(size) ==
  /\ Served
  /\ prefix # <<>>
  /\ got' = got \o First(prefix, Lesser(Len(prefix), size))
  /\ prefix' = Rest(prefix, Lesser(Len(prefix), size))
  /\ UNCHANGED <<coming, sent, wire, eof, phase, filled>>

RewindEnds(size) ==        (* mutant: after the prefix, nothing more is read *)
  /\ Served
  /\ prefix = <<>> /\ filled # <<>>
  /\ UNCHANGED vars

(* Then the stream itself.                                                 *)
RewindInner(size) ==
  /\ Served
  /\ prefix = <<>>
  /\ \E n \in 1..Lesser(Len(wire), size) :
       /\ got' = got \o First(wire, n)
       /\ wire' = Rest(wire, n)
  /\ UNCHANGED <<coming, sent, eof, phase, filled, prefix>>
-----------------------------------------------------------------------------
Detect == (\E n \in 1..Len(wire) : Read(n)) \/ ReadEof

Hyper == \E size \in BufSizes : RewindPrefix(size) \/ RewindInner(size)

Next ==
  \/ \E n \in 1..Len(coming) : Arrive(n)
  \/ Close
  \/ Detect
  \/ Fail
  \/ Hyper

Spec == Init /\ [][Next]_vars

(* A task with something to read is polled, and hyper reads on.  Clients   *)
(* need not send or close, and reads need not fail.                        *)
FairSpec == Spec /\ WF_vars(Detect) /\ WF_vars(Hyper)
=============================================================================
