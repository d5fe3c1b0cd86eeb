-------------------------- MODULE ServerConnProofs --------------------------
(***************************************************************************)
(* For any preface, stream, way to cut it, and any number of requests and  *)
(* names: the detection of ReadVersion loses, repeats and reorders no byte *)
(* and speaks HTTP/2 on the preface only; a connection of the server       *)
(* implements it, with or without TLS around it; every request gets the    *)
(* information of the handshake; and the check of the host cannot be       *)
(* passed by for want of it.                                               *)
(***************************************************************************)
EXTENDS ServerConnProps, SequenceTheorems, TLAPS

(* While the version is undecided nothing is in the buffer, for every read *)
(* decides, and nothing has gone to hyper.                                 *)
Undecided ==
  phase \in {"reading", "failed"} => got = <<>> /\ prefix = <<>> /\ filled = <<>>

Inv == TypeOK /\ Undecided /\ NoByteLost /\ Http2OnlyOnPreface

(* A sequence cut in two.                                                  *)
LEMMA Cut ==
  ASSUME NEW s \in Seq(Bytes), NEW n \in 0..Len(s)
  PROVE  /\ First(s, n) \in Seq(Bytes) /\ Len(First(s, n)) = n
         /\ Rest(s, n) \in Seq(Bytes) /\ Len(Rest(s, n)) = Len(s) - n
         /\ First(s, n) \o Rest(s, n) = s
<1>1. Len(s) \in Nat /\ n \in Nat /\ n <= Len(s)
      OBVIOUS
<1>2. \A i \in 1..n : s[i] \in Bytes
      BY <1>1
<1>3. \A i \in (n + 1)..Len(s) : s[i] \in Bytes
      BY <1>1
<1>4. First(s, n) \in Seq(Bytes) /\ Len(First(s, n)) = n
      BY <1>1, <1>2, SubSeqProperties DEF First
<1>5. Rest(s, n) \in Seq(Bytes) /\ Len(Rest(s, n)) = Len(s) - n
      BY <1>1, <1>3, SubSeqProperties DEF Rest
<1>6. SubSeq(s, 1, n) \o SubSeq(s, n + 1, Len(s)) = SubSeq(s, 1, Len(s))
  <2>1. 1 \in 1..(Len(s) + 1) /\ n \in (1 - 1)..Len(s) /\ Len(s) \in n..Len(s)
        BY <1>1
  <2>2. QED
        BY <2>1, ConcatAdjacentSubSeq
<1>7. QED
      BY <1>4, <1>5, <1>6, SubSeqFull DEF First, Rest

(* Three or four parts of a stream, bracketed from the left.               *)
LEMMA Bracket ==
  ASSUME NEW a \in Seq(Bytes), NEW b \in Seq(Bytes), NEW c \in Seq(Bytes)
  PROVE  a \o (b \o c) = (a \o b) \o c
  BY ConcatAssociative

(* What begins like the preface does so however it goes on.                *)
LEMMA PrefixGrows ==
  ASSUME NEW s \in Seq(Bytes), NEW t \in Seq(Bytes), IsPrefix(Prefix, s)
  PROVE  IsPrefix(Prefix, s \o t)
<1>1. Prefix \in Seq(Bytes) /\ Len(Prefix) \in 1..Len(s)
      BY ReadVersionAssumption DEF IsPrefix
<1>2. SubSeq(s \o t, 1, Len(Prefix)) = SubSeq(s, 1, Len(Prefix))
      BY <1>1, SubSeqOfConcat1
<1>3. Len(s \o t) = Len(s) + Len(t)
      BY ConcatProperties
<1>4. QED
      BY <1>1, <1>2, <1>3 DEF IsPrefix

LEMMA InvInit == Init => Inv
<1> SUFFICES ASSUME Init PROVE Inv
    OBVIOUS
<1>1. <<>> \in Seq(Bytes) /\ Len(<<>>) = 0
      OBVIOUS
<1>2. TypeOK
  <2>1. Len(Prefix) \in Nat /\ coming \in Seq(Bytes)
        BY ReadVersionAssumption DEF Init
  <2>2. filled = <<>> /\ prefix = <<>> /\ Len(filled) = 0 /\ Len(prefix) = 0
        BY <1>1 DEF Init
  <2>3. Len(filled) <= Len(Prefix) /\ Len(prefix) <= Len(filled)
        BY <2>1, <2>2
  <2>4. QED
        BY <1>1, <2>1, <2>2, <2>3 DEF Init, TypeOK
<1>3. Undecided /\ Http2OnlyOnPreface
      BY DEF Init, Undecided, Http2OnlyOnPreface
<1>4. NoByteLost
      BY <1>1, ConcatEmptySeq DEF Init, NoByteLost, Buffered
<1>5. QED
      BY <1>2, <1>3, <1>4 DEF Inv

(* The types are kept by every step (auto.rs:258-288, rewind.rs:31-59).    *)
LEMMA TypeStep == TypeOK /\ [Next]_vars => TypeOK'
<1> SUFFICES ASSUME TypeOK, [Next]_vars PROVE TypeOK'
    OBVIOUS
<1>p. Len(Prefix) \in Nat
      BY ReadVersionAssumption
<1>1. ASSUME NEW n \in 1..Len(coming), Arrive(n) PROVE TypeOK'
  <2>1. First(coming, n) \in Seq(Bytes) /\ Rest(coming, n) \in Seq(Bytes)
        BY Cut DEF TypeOK
  <2>2. QED
        BY <1>1, <2>1, ConcatProperties DEF TypeOK, Arrive
<1>2. CASE Close
      BY <1>2 DEF TypeOK, Close
<1>3. ASSUME NEW n \in 1..Len(wire), Read(n) PROVE TypeOK'
  <2>1. /\ First(wire, n) \in Seq(Bytes) /\ Len(First(wire, n)) = n
        /\ Rest(wire, n) \in Seq(Bytes)
        BY Cut DEF TypeOK
  <2>2. filled' \in Seq(Bytes) /\ Len(filled') = Len(filled) + n
        BY <1>3, <2>1, ConcatProperties DEF TypeOK, Read
  <2>3. prefix' = filled' /\ phase' \in {"http1", "http2"}
        BY <1>3 DEF Read, Decide
  <2>4. Len(filled) + n <= Len(Prefix)
        BY <1>3 DEF Read, Fits
  <2>5. QED
        BY <1>3, <1>p, <2>1, <2>2, <2>3, <2>4 DEF TypeOK, Read
<1>4. CASE ReadEof
      BY <1>4 DEF TypeOK, ReadEof, Decide
<1>5. CASE Fail
      BY <1>5 DEF TypeOK, Fail
<1>6. ASSUME NEW size \in BufSizes, RewindPrefix(size) PROVE TypeOK'
  <2> DEFINE n == Lesser(Len(prefix), size)
  <2>1. n \in 0..Len(prefix)
        BY ReadVersionAssumption DEF TypeOK, Lesser
  <2>2. /\ First(prefix, n) \in Seq(Bytes)
        /\ Rest(prefix, n) \in Seq(Bytes) /\ Len(Rest(prefix, n)) = Len(prefix) - n
        BY <2>1, Cut DEF TypeOK
  <2>3. got' = got \o First(prefix, n) /\ prefix' = Rest(prefix, n)
        BY <1>6 DEF RewindPrefix
  <2> HIDE DEF n
  <2>4. got' \in Seq(Bytes)
        BY <2>2, <2>3, ConcatProperties DEF TypeOK
  <2>5. prefix' \in Seq(Bytes) /\ Len(prefix') <= Len(filled)
        BY <2>1, <2>2, <2>3 DEF TypeOK
  <2>6. QED
        BY <1>6, <2>4, <2>5 DEF TypeOK, RewindPrefix
<1>7. ASSUME NEW size \in BufSizes, RewindInner(size) PROVE TypeOK'
  <2>1. PICK n \in 1..Lesser(Len(wire), size) :
          got' = got \o First(wire, n) /\ wire' = Rest(wire, n)
        BY <1>7 DEF RewindInner
  <2>2. n \in 0..Len(wire)
        BY <2>1, ReadVersionAssumption DEF TypeOK, Lesser
  <2>3. First(wire, n) \in Seq(Bytes) /\ Rest(wire, n) \in Seq(Bytes)
        BY <2>2, Cut DEF TypeOK
  <2>4. QED
        BY <1>7, <2>1, <2>3, ConcatProperties DEF TypeOK, RewindInner
<1>8. CASE UNCHANGED vars
      BY <1>8 DEF TypeOK, vars
<1>9. QED
      BY <1>1, <1>2, <1>3, <1>4, <1>5, <1>6, <1>7, <1>8 DEF Next, Detect, Hyper

(* A read while the version is undecided starts with all that was sent, so *)
(* what it takes is the start of it.                                       *)
LEMMA DetectStep ==
  ASSUME Inv, NEW n \in 1..Len(wire), Read(n)
  PROVE  Undecided' /\ NoByteLost' /\ Http2OnlyOnPreface'
<1>1. filled = <<>> /\ got = <<>> /\ phase = "reading"
      BY DEF Inv, Undecided, Read
<1>2. wire \in Seq(Bytes) /\ n \in 0..Len(wire)
      BY DEF Inv, TypeOK
<1>3. sent = wire
      BY <1>1, <1>2, ConcatEmptySeq DEF Inv, NoByteLost, Buffered
<1>4. /\ First(wire, n) \in Seq(Bytes) /\ Len(First(wire, n)) = n
      /\ Rest(wire, n) \in Seq(Bytes) /\ First(wire, n) \o Rest(wire, n) = wire
      BY <1>2, Cut
<1>5. filled' = First(wire, n)
      BY <1>1, <1>4, ConcatEmptySeq DEF Read
<1>6. phase' \in {"http1", "http2"} /\ prefix' = filled'
      BY DEF Read, Decide
<1>7. got' = <<>> /\ wire' = Rest(wire, n) /\ sent' = sent
      BY <1>1 DEF Read
<1>8. Undecided'
      BY <1>6 DEF Undecided
<1>9. NoByteLost'
  <2>1. Buffered' = First(wire, n)
        BY <1>5, <1>6 DEF Buffered
  <2>2. QED
        BY <2>1, <1>3, <1>4, <1>7, ConcatEmptySeq DEF NoByteLost
<1>10. Http2OnlyOnPreface'
  <2>1. SUFFICES ASSUME phase' = "http2" PROVE IsPrefix(Prefix, wire)
        BY <1>3, <1>7 DEF Http2OnlyOnPreface
  <2>2. First(wire, n) = Rest(Prefix, Len(filled))
        BY <2>1 DEF Read, Decide, RestOfPreface
  <2>3. Rest(Prefix, Len(filled)) = Prefix
        BY <1>1, SubSeqFull, ReadVersionAssumption DEF Rest
  <2>4. Len(Prefix) = n /\ SubSeq(wire, 1, n) = Prefix
        BY <2>2, <2>3, <1>4 DEF First
  <2>5. SubSeq(Prefix, 1, Len(Prefix)) = Prefix
        BY SubSeqFull, ReadVersionAssumption
  <2>6. QED
        BY <2>4, <2>5, <1>2 DEF IsPrefix
<1>11. QED
       BY <1>8, <1>9, <1>10

(* Every step keeps the bytes together: it adds to the end of the stream,  *)
(* decides, or moves a piece of it on to hyper.                            *)
LEMMA InvStep == Inv /\ [Next]_vars => Inv'
<1> SUFFICES ASSUME Inv, [Next]_vars PROVE Inv'
    OBVIOUS
<1>t. TypeOK /\ TypeOK'
      BY TypeStep DEF Inv
<1> SUFFICES Undecided' /\ NoByteLost' /\ Http2OnlyOnPreface'
    BY <1>t DEF Inv
<1>b. Buffered \in Seq(Bytes)
      BY <1>t DEF TypeOK, Buffered
<1>1. ASSUME NEW n \in 1..Len(coming), Arrive(n)
      PROVE Undecided' /\ NoByteLost' /\ Http2OnlyOnPreface'
  <2>1. First(coming, n) \in Seq(Bytes)
        BY <1>t, Cut DEF TypeOK
  <2>2. Undecided'
        BY <1>1 DEF Inv, Undecided, Arrive
  <2>3. NoByteLost'
    <3>1. Buffered' = Buffered /\ got' = got
          BY <1>1 DEF Arrive, Buffered
    <3>2. /\ wire' = wire \o First(coming, n)
          /\ sent' = sent \o First(coming, n)
          BY <1>1 DEF Arrive
    <3>3. (got \o Buffered) \o (wire \o First(coming, n))
            = ((got \o Buffered) \o wire) \o First(coming, n)
      <4>1. got \o Buffered \in Seq(Bytes)
            BY <1>b, <1>t, ConcatProperties DEF TypeOK
      <4>2. wire \in Seq(Bytes)
            BY <1>t DEF TypeOK
      <4>3. QED
            BY ONLY <4>1, <4>2, <2>1, Bracket
    <3>4. QED
          BY <3>1, <3>2, <3>3 DEF Inv, NoByteLost
  <2>4. Http2OnlyOnPreface'
        BY <1>1, <1>t, <2>1, PrefixGrows DEF Inv, TypeOK, Http2OnlyOnPreface, Arrive
  <2>5. QED
        BY <2>2, <2>3, <2>4
<1>2. CASE Close
      BY <1>2 DEF Inv, Undecided, NoByteLost, Buffered, Http2OnlyOnPreface, Close
<1>3. ASSUME NEW n \in 1..Len(wire), Read(n)
      PROVE Undecided' /\ NoByteLost' /\ Http2OnlyOnPreface'
      BY <1>3, DetectStep
<1>4. CASE ReadEof
      BY <1>4 DEF Inv, Undecided, NoByteLost, Buffered, Http2OnlyOnPreface,
         ReadEof, Decide
<1>5. CASE Fail
      BY <1>5 DEF Inv, Undecided, NoByteLost, Buffered, Http2OnlyOnPreface, Fail
<1>6. ASSUME NEW size \in BufSizes, RewindPrefix(size)
      PROVE Undecided' /\ NoByteLost' /\ Http2OnlyOnPreface'
  <2> DEFINE n == Lesser(Len(prefix), size)
  <2>1. n \in 0..Len(prefix)
        BY <1>t, ReadVersionAssumption DEF TypeOK, Lesser
  <2>2. /\ First(prefix, n) \in Seq(Bytes) /\ Rest(prefix, n) \in Seq(Bytes)
        /\ First(prefix, n) \o Rest(prefix, n) = prefix
        BY <1>t, <2>1, Cut DEF TypeOK
  <2>3. /\ got' = got \o First(prefix, n) /\ prefix' = Rest(prefix, n)
        /\ wire' = wire /\ sent' = sent /\ phase' = phase
        /\ phase \in {"http1", "http2"}
        BY <1>6 DEF RewindPrefix, Served
  <2> HIDE DEF n
  <2>4. Buffered = prefix /\ Buffered' = prefix'
        BY <2>3 DEF Buffered
  <2>5. ((got \o First(prefix, n)) \o Rest(prefix, n)) \o wire
          = (got \o (First(prefix, n) \o Rest(prefix, n))) \o wire
    <3>1. got \in Seq(Bytes)
          BY <1>t DEF TypeOK
    <3>2. QED
          BY ONLY <3>1, <2>2, Bracket
  <2>6. NoByteLost'
        BY <2>2, <2>3, <2>4, <2>5 DEF Inv, NoByteLost
  <2>7. QED
        BY <2>3, <2>6 DEF Inv, Undecided, Http2OnlyOnPreface
<1>7. ASSUME NEW size \in BufSizes, RewindInner(size)
      PROVE Undecided' /\ NoByteLost' /\ Http2OnlyOnPreface'
  <2>1. PICK n \in 1..Lesser(Len(wire), size) :
          got' = got \o First(wire, n) /\ wire' = Rest(wire, n)
        BY <1>7 DEF RewindInner
  <2>2. n \in 0..Len(wire)
        BY <1>t, <2>1, ReadVersionAssumption DEF TypeOK, Lesser
  <2>3. /\ First(wire, n) \in Seq(Bytes) /\ Rest(wire, n) \in Seq(Bytes)
        /\ First(wire, n) \o Rest(wire, n) = wire
        BY <1>t, <2>2, Cut DEF TypeOK
  <2>4. /\ prefix = <<>> /\ prefix' = <<>> /\ sent' = sent /\ phase' = phase
        /\ phase \in {"http1", "http2"}
        BY <1>7 DEF RewindInner, Served
  <2>5. Buffered = <<>> /\ Buffered' = <<>>
        BY <2>4 DEF Buffered
  <2>6. (got \o First(wire, n)) \o Rest(wire, n) = got \o wire
    <3>1. got \in Seq(Bytes)
          BY <1>t DEF TypeOK
    <3>2. (got \o First(wire, n)) \o Rest(wire, n)
            = got \o (First(wire, n) \o Rest(wire, n))
          BY ONLY <3>1, <2>3, Bracket
    <3>3. QED
          BY <2>3, <3>2
  <2>7. NoByteLost'
    <3>1. got \o <<>> = got /\ got' \o <<>> = got'
          BY <1>t, ConcatEmptySeq DEF TypeOK
    <3>2. QED
          BY <2>1, <2>4, <2>5, <2>6, <3>1 DEF Inv, NoByteLost
  <2>8. QED
        BY <2>4, <2>7 DEF Inv, Undecided, Http2OnlyOnPreface
<1>8. CASE UNCHANGED vars
      BY <1>8 DEF Inv, Undecided, NoByteLost, Buffered, Http2OnlyOnPreface, vars
<1>9. QED
      BY <1>1, <1>2, <1>3, <1>4, <1>5, <1>6, <1>7, <1>8 DEF Next, Detect, Hyper

(* Detection loses no byte of any stream, and speaks HTTP/2 only to those  *)
(* that begin with the preface (auto.rs:258-288, rewind.rs:31-59).         *)
THEOREM BytesKept == Spec => [](TypeOK /\ NoByteLost /\ Http2OnlyOnPreface)
<1>1. Spec => []Inv
      BY InvInit, InvStep, PTL DEF Spec
<1>2. Inv => TypeOK /\ NoByteLost /\ Http2OnlyOnPreface
      BY DEF Inv
<1>3. QED
      BY <1>1, <1>2, PTL

(* The first read that returns anything decides, and for HTTP/2 if and only*)
(* if it returned the preface, whole: filled is never read into again      *)
(* (auto.rs:263-288).  This is why a preface in two pieces is not detected.*)
FirstReadDecides ==
  /\ phase = "reading" => filled = <<>>
  /\ phase = "http2" => filled = Prefix
  /\ phase = "http1" => filled # Prefix

THEOREM DetectedInOneRead == Spec => []FirstReadDecides
<1>1. Init => FirstReadDecides
      BY DEF Init, FirstReadDecides
<1>2. ASSUME Inv, FirstReadDecides, [Next]_vars PROVE FirstReadDecides'
  <2>1. ASSUME NEW n \in 1..Len(wire), Read(n) PROVE FirstReadDecides'
    <3>1. filled = <<>> /\ wire \in Seq(Bytes) /\ n \in 0..Len(wire)
          BY <1>2, <2>1 DEF Inv, TypeOK, FirstReadDecides, Read
    <3>2. filled' = First(wire, n)
          BY <2>1, <3>1, Cut, ConcatEmptySeq DEF Read
    <3>3. RestOfPreface(n) <=> First(wire, n) = Prefix
          BY <3>1, SubSeqFull, ReadVersionAssumption DEF RestOfPreface, Rest
    <3>4. QED
          BY <2>1, <3>2, <3>3 DEF Read, Decide, FirstReadDecides
  <2>2. CASE ReadEof
        BY <1>2, <2>2, ReadVersionAssumption DEF ReadEof, Decide, FirstReadDecides
  <2>3. ASSUME UNCHANGED <<phase, filled>> \/ Fail PROVE FirstReadDecides'
        BY <1>2, <2>3 DEF Fail, FirstReadDecides
  <2>4. QED
        BY <1>2, <2>1, <2>2, <2>3
           DEF Next, Detect, Hyper, Arrive, Close, RewindPrefix, RewindInner, vars
<1>3. QED
      BY <1>1, <1>2, InvInit, InvStep, PTL DEF Spec
-----------------------------------------------------------------------------
(* Every step is one of ReadVersion or leaves it alone.                    *)
LEMMA StepImplements == [ServerNext]_allVars => [Next]_vars
<1> SUFFICES ASSUME [ServerNext]_allVars PROVE [Next]_vars
    OBVIOUS
<1>1. CASE ClientSends \/ ClientCloses
      BY <1>1 DEF ClientSends, ClientCloses, Next
<1>2. CASE ClientShakes \/ Handshake
      BY <1>2 DEF ClientShakes, Handshake
<1>3. CASE HandshakeFails \/ ReadFails
      BY <1>3 DEF HandshakeFails, ReadFails, Ends, Next
<1>4. CASE DetectVersion \/ ServeBytes
      BY <1>4 DEF DetectVersion, ServeBytes, Next
<1>5. ASSUME NEW r \in Reqs, Recv(r) \/ Cancel(r) PROVE UNCHANGED vars
      BY <1>5 DEF Recv, RecvRead, RecvWrite, RecvAwait, CheckSni, Cancel
<1>6. ASSUME NEW r \in Reqs, NEW h, NewRequest(r, h) PROVE UNCHANGED vars
      BY <1>6 DEF NewRequest
<1>7. CASE UNCHANGED allVars
      BY <1>7 DEF allVars
<1>8. QED
      BY <1>1, <1>2, <1>3, <1>4, <1>5, <1>6, <1>7 DEF ServerNext, Connection

(* What TLS carries is lost, repeated or reordered no more than what comes *)
(* in the clear: the connection implements ReadVersion (server/conn/tls/   *)
(* mod.rs:69-101, auto.rs:258-288, rewind.rs:31-59).                       *)
THEOREM ConnectionKeepsBytes ==
  ServerSpec => Spec /\ [](NoByteLost /\ Http2OnlyOnPreface)
<1>1. ServerInit => Init
      BY DEF ServerInit
<1>2. ServerSpec => Spec
      BY <1>1, StepImplements, PTL DEF ServerSpec, Spec
<1>3. QED
      BY <1>2, BytesKept, PTL
-----------------------------------------------------------------------------
(* The part of the types that the invariant needs.                         *)
Types ==
  /\ tls \in {"NoTls", "Handshake", "Streaming"}
  /\ cache \in {"Pending", "Received", "Empty"}
  /\ layers \in LayersType
  /\ pc \in [Reqs -> {"none", "recv", "write", "await", "check", "panic",
                      "served", "rejected", "cancelled"}]
  /\ host \in [Reqs -> Names \cup {NONE}]
  /\ ext \in [Reqs -> {"absent", "present", "validated"}]

(* Requests come after the handshake, which comes before the version.      *)
Order ==
  /\ Served => tls # "Handshake"
  /\ \A r \in Reqs : pc[r] # "none" => Served
  /\ tls = "Streaming" => chan = "sent"
  /\ tls = "NoTls" <=> cache = "Empty"

(* Who waits does so on a TLS connection; who has passed the information   *)
(* layer on one has it.                                                    *)
Waits ==
  \A r \in Reqs :
    /\ pc[r] \in {"write", "await"} => tls # "NoTls"
    /\ pc[r] = "check" /\ layers.info /\ tls # "NoTls" => ext[r] = "present"

ConnInv == Types /\ kept /\ Order /\ Waits /\ InfoArrives /\ SniMatches

LEMMA ConnInit == ServerInit => ConnInv
  BY DEF ServerInit, Init, Served, PollAccept, PlainStream, TlsStream, MakeService,
     ConnInv, Types, Order, Waits, InfoArrives, SniMatches

(* The steps on the stream, which leave the requests alone.                *)
LEMMA StreamStep ==
  ASSUME ConnInv, ClientSends \/ ClientCloses \/ ClientShakes \/ Connection \/ ReadFails
  PROVE  ConnInv'
<1>1. CASE ClientSends \/ ClientCloses
  <2>1. UNCHANGED <<phase, connVars>>
        BY <1>1 DEF ClientSends, ClientCloses, Arrive, Close
  <2>2. QED
        BY <2>1 DEF ConnInv, Types, Order, Waits, InfoArrives, SniMatches, Served,
           connVars, tlsVars, requestVars
<1>2. CASE ClientShakes
      BY <1>2 DEF ClientShakes, ConnInv, Types, Order, Waits, InfoArrives,
         SniMatches, Served, vars, requestVars
<1>3. CASE Handshake
  <2>1. /\ tls' = "Streaming" /\ chan' = "sent" /\ tls = "Handshake"
        /\ UNCHANGED <<phase, layers, sni, requestVars>>
        BY <1>3 DEF Handshake, vars
  <2>2. QED
        BY <2>1 DEF ConnInv, Types, Order, Waits, InfoArrives, SniMatches, Served,
           requestVars
<1>4. CASE HandshakeFails \/ ReadFails
  <2>1. /\ phase = "reading" /\ phase' = "failed"
        /\ chan' = IF chan = "open" THEN "dropped" ELSE chan
        /\ UNCHANGED <<layers, tls, peer, sni, requestVars>>
        BY <1>4 DEF HandshakeFails, ReadFails, Ends, Fail
  <2>2. QED
        BY <2>1 DEF ConnInv, Types, Order, Waits, InfoArrives, SniMatches, Served,
           requestVars
<1>5. CASE DetectVersion \/ ServeBytes
  <2>1. /\ tls # "Handshake"
        /\ Served => Served'
        /\ UNCHANGED connVars
        BY <1>5 DEF DetectVersion, ServeBytes, Open, Detect, Hyper, Read, ReadEof,
           RewindPrefix, RewindInner, Served
  <2>2. QED
        BY <2>1 DEF ConnInv, Types, Order, Waits, InfoArrives, SniMatches,
           connVars, tlsVars, requestVars
<1>6. QED
      BY <1>1, <1>2, <1>3, <1>4, <1>5 DEF Connection

(* The steps of a request.                                                 *)
LEMMA RequestStep ==
  ASSUME ConnInv, NEW r \in Reqs,
         \/ Recv(r) \/ Cancel(r)
         \/ \E h \in Names \cup {NONE} : NewRequest(r, h)
  PROVE  ConnInv'
<1>s. Served' = Served /\ UNCHANGED <<layers, tls, sni>>
      BY DEF Recv, RecvRead, RecvWrite, RecvAwait, CheckSni, Cancel, NewRequest,
         Served, vars, tlsVars
<1>1. ASSUME NEW h \in Names \cup {NONE}, NewRequest(r, h) PROVE ConnInv'
  <2>1. /\ Served /\ pc[r] = "none"
        /\ host' = [host EXCEPT ![r] = h]
        /\ known' = known \cup {r} /\ kept'
        /\ pc' = [pc EXCEPT ![r] = IF layers.info THEN "recv" ELSE "check"]
        /\ UNCHANGED <<chan, cache, ext>>
        BY <1>1 DEF NewRequest, CallClone, Goes, ConnInv, tlsVars
  <2>2. QED
        BY <1>s, <2>1 DEF ConnInv, Types, Order, Waits, InfoArrives, SniMatches
<1>2. CASE RecvRead(r)
      BY <1>s, <1>2 DEF RecvRead, Insert, Goes, ConnInv, Types, Order, Waits,
         InfoArrives, SniMatches, tlsVars
<1>3. CASE RecvWrite(r)
      BY <1>s, <1>3 DEF RecvWrite, Insert, Goes, ConnInv, Types, Order, Waits,
         InfoArrives, SniMatches, tlsVars
<1>4. CASE RecvAwait(r)
      BY <1>s, <1>4 DEF RecvAwait, Insert, Goes, ConnInv, Types, Order, Waits,
         InfoArrives, SniMatches, tlsVars
<1>5. CASE CheckSni(r)
  <2>1. /\ pc[r] = "check"
        /\ UNCHANGED <<chan, kept, known, cache, host>>
        BY <1>5 DEF CheckSni, tlsVars
  <2>2. /\ pc' = [pc EXCEPT ![r] = pc'[r]] /\ pc'[r] \in {"served", "rejected"}
        /\ ext' = [ext EXCEPT ![r] = ext'[r]]
        /\ ext'[r] \in {"absent", "present", "validated"}
        BY <1>5 DEF CheckSni, Goes, Verdict, ConnInv, Types
  <2>3. (layers.info /\ layers.sni /\ tls # "NoTls" /\ pc'[r] = "served")
          => /\ sni # NONE /\ host[r] \in {NONE, sni}
             /\ ext'[r] = IF host[r] = NONE THEN "present" ELSE "validated"
        BY <1>5 DEF CheckSni, Goes, Verdict, ConnInv, Types, Waits
  <2>4. QED
        BY <1>s, <2>1, <2>2, <2>3 DEF ConnInv, Types, Order, Waits, InfoArrives,
           SniMatches
<1>6. CASE Cancel(r)
      BY <1>s, <1>6 DEF Cancel, InProgress, Goes, ConnInv, Types, Order, Waits,
         InfoArrives, SniMatches, tlsVars
<1>7. QED
      BY <1>1, <1>2, <1>3, <1>4, <1>5, <1>6 DEF Recv

LEMMA ConnInvStep == ConnInv /\ [ServerNext]_allVars => ConnInv'
<1> SUFFICES ASSUME ConnInv, [ServerNext]_allVars PROVE ConnInv'
    OBVIOUS
<1>1. CASE UNCHANGED allVars
      BY <1>1 DEF ConnInv, Types, Order, Waits, InfoArrives, SniMatches, Served,
         allVars, vars, connVars, tlsVars, requestVars
<1>2. QED
      BY <1>1, StreamStep, RequestStep DEF ServerNext

(* No request waits for information that does not come, whatever others    *)
(* read or drop (info/tls.rs:154-186), and with both layers none reaches   *)
(* the service for a host the handshake was not for (sni.rs:127-174).      *)
THEOREM RequestsInformed == ServerSpec => [](InfoArrives /\ SniMatches)
<1>1. ConnInv => InfoArrives /\ SniMatches
      BY DEF ConnInv
<1>2. QED
      BY ConnInit, ConnInvStep, <1>1, PTL DEF ServerSpec

(* The rest of the types, of what the requests share with the handshake.   *)
SharedTypes ==
  /\ peer \in {"silent", "done", "bad"}
  /\ sni \in Names \cup {NONE}
  /\ chan \in {"open", "sent", "dropped"}
  /\ kept \in BOOLEAN /\ known \subseteq Reqs
  /\ writer \in Reqs \cup {NONE}

LEMMA SharedStep ==
  ASSUME SharedTypes, [ServerNext]_allVars
  PROVE  SharedTypes'
<1>1. CASE ClientSends \/ ClientCloses
      BY <1>1 DEF ClientSends, ClientCloses, SharedTypes, connVars, tlsVars,
         requestVars
<1>2. CASE ClientShakes \/ Handshake \/ HandshakeFails \/ ReadFails
      BY <1>2 DEF ClientShakes, Handshake, HandshakeFails, ReadFails, Ends,
         SharedTypes, requestVars
<1>3. CASE DetectVersion \/ ServeBytes
      BY <1>3 DEF DetectVersion, ServeBytes, SharedTypes, connVars, tlsVars,
         requestVars
<1>4. ASSUME NEW r \in Reqs, Recv(r) \/ Cancel(r) PROVE SharedTypes'
      BY <1>4 DEF Recv, RecvRead, RecvWrite, RecvAwait, CheckSni, Cancel,
         SharedTypes, tlsVars
<1>5. ASSUME NEW r \in Reqs, NEW h, NewRequest(r, h) PROVE SharedTypes'
      BY <1>5 DEF NewRequest, CallClone, SharedTypes, tlsVars
<1>6. CASE UNCHANGED allVars
      BY <1>6 DEF SharedTypes, allVars, connVars, tlsVars, requestVars
<1>7. QED
      BY <1>1, <1>2, <1>3, <1>4, <1>5, <1>6 DEF ServerNext, Connection

(* A connection and its requests keep their types, those of the detection  *)
(* inside it among them (info/tls.rs:126-186, server/conn/tls/mod.rs).     *)
THEOREM ServerTypesKept == ServerSpec => []ServerTypeOK
<1>1. ServerSpec => []Types
  <2>1. ConnInv => Types
        BY DEF ConnInv
  <2>2. QED
        BY ConnInit, ConnInvStep, <2>1, PTL DEF ServerSpec
<1>2. ServerInit => SharedTypes
      BY DEF ServerInit, PollAccept, PlainStream, TlsStream, MakeService,
         SharedTypes
<1>3. ServerSpec => []SharedTypes
      BY SharedStep, <1>2, PTL DEF ServerSpec
<1>4. ServerSpec => []TypeOK
      BY ConnectionKeepsBytes, BytesKept, PTL
<1>5. Types /\ SharedTypes /\ TypeOK => ServerTypeOK
      BY DEF Types, SharedTypes, ServerTypeOK
<1>6. QED
      BY <1>1, <1>3, <1>4, <1>5, PTL
=============================================================================
