---------------------------- MODULE RequestProofs ----------------------------
(***************************************************************************)
(* What a request may count on, for any addresses, answers of the          *)
(* resolver, URIs, configurations, clients and requests: no socket         *)
(* outlives its connection, the Host header names the peer, and every      *)
(* attempt starts from the caller's request, extensions apart.             *)
(***************************************************************************)
EXTENDS RequestProps, SequenceTheorems, NaturalsInduction,
        WellFoundedInduction, TLAPS

(* The sockets of the connection in progress, if there is one.             *)
(* OnlyWinnerOpen needs to know which phases go with which stage.          *)
Sockets ==
  /\ stage \notin {"connect", "exchange"} => phase = "idle"
  /\ stage = "exchange" => phase = "up"
  /\ phase \in {"idle", "resolve"} => sock = <<>>
  /\ phase \in {"tls", "http", "up"} =>
       \E w \in 1..Len(sock) :
         /\ sock[w] = "won"
         /\ \A i \in 1..Len(sock) : i # w => sock[i] \in {"failed", "closed"}
  /\ phase = "failed" => \A i \in 1..Len(sock) : sock[i] \in {"failed", "closed"}

(* The caller's request, but for its URI and its extensions.               *)
IsGiven(r) ==
  [r EXCEPT !.uri = original.uri, !.extensions = original.extensions] = original

(* The request of an attempt is the caller's until it is prepared, and so  *)
(* is the clone, without extensions.  Its URI, from a redirect perhaps, is *)
(* one that can be connected to.                                           *)
Given ==
  /\ saved # NONE => saved = CloneRequest(original)
  /\ stage = "start" => redirects = 0
  /\ stage \in {"start", "ready", "connect"} =>
       /\ req.uri \in Uris
       /\ IsGiven(req)
       /\ redirects = 0 => req.uri = original.uri
       /\ IF redirects > 0 \/ Retried THEN ~req.extensions
          ELSE req = original \/ ~req.extensions

(* The connection is made to the URI of the attempt, which has a port.     *)
Target ==
  /\ stage = "connect" => req.uri = uri
  /\ phase \in {"resolve", "race", "tls", "http", "up"} => HostAndPort(uri) # NONE
  /\ HostIsPeer

RequestInv == TypeOK /\ Sockets /\ Given /\ Target
-----------------------------------------------------------------------------
(* The smallest of some indexes is one of them.                            *)
LEMMA MinInBounds ==
  ASSUME NEW n \in Nat, NEW I \in SUBSET (1..n), I # {}
  PROVE  /\ Min(I) \in I
         /\ \A i \in I : Min(I) <= i
<1> DEFINE R == OpToRel(<, Nat)
<1>1. I \subseteq Nat
  OBVIOUS
<1>2. PICK m \in I : \A i \in I : ~(<<i, m>> \in R)
  <2> HIDE DEF R
  <2>1. IsWellFoundedOn(R, Nat)
    BY NatLessThanWellFounded DEF R
  <2> QED
    BY <1>1, <2>1, WFMin
<1>3. \A i \in I : m <= i
  <2> TAKE i \in I
  <2>1. ~(i < m)
    BY <1>1, <1>2 DEF OpToRel
  <2> QED
    BY <1>1, <2>1
<1> QED
  BY <1>3 DEF Min

(* What is left of a sequence without one element.                         *)
LEMMA RemoveAtProperties ==
  ASSUME NEW S, NEW s \in Seq(S), NEW i \in 1..Len(s)
  PROVE  /\ RemoveAt(s, i) \in Seq(S)
         /\ Len(RemoveAt(s, i)) = Len(s) - 1
         /\ \A j \in 1..(Len(s) - 1) :
              RemoveAt(s, i)[j] = IF j < i THEN s[j] ELSE s[j + 1]
<1> DEFINE n == Len(s)
           a == SubSeq(s, 1, i - 1)
           b == SubSeq(s, i + 1, n)
<1>1. n \in Nat /\ i \in Int /\ 1 <= i /\ i <= n
  BY LenProperties
<1>2. \A j \in 1..n : s[j] \in S
  BY ElementOfSeq
<1>3. /\ a \in Seq(S) /\ Len(a) = i - 1
      /\ \A j \in 1..(i - 1) : a[j] = s[j]
  <2>1. \A j \in 1..(i - 1) : s[j] \in S
    BY <1>1, <1>2
  <2>2. /\ SubSeq(s, 1, i - 1) \in Seq(S)
        /\ Len(SubSeq(s, 1, i - 1)) = IF 1 <= i - 1 THEN (i - 1) - 1 + 1 ELSE 0
        /\ \A j \in 1..((i - 1) - 1 + 1) : SubSeq(s, 1, i - 1)[j] = s[1 + j - 1]
    BY <1>1, <2>1, SubSeqProperties
  <2> QED
    BY <1>1, <2>2
<1>4. /\ b \in Seq(S) /\ Len(b) = n - i
      /\ \A j \in 1..(n - i) : b[j] = s[i + j]
  <2>1. \A j \in (i + 1)..n : s[j] \in S
    BY <1>1, <1>2
  <2>2. /\ SubSeq(s, i + 1, n) \in Seq(S)
        /\ Len(SubSeq(s, i + 1, n)) = IF i + 1 <= n THEN n - (i + 1) + 1 ELSE 0
        /\ \A j \in 1..(n - (i + 1) + 1) :
             SubSeq(s, i + 1, n)[j] = s[(i + 1) + j - 1]
    <3> HIDE DEF n
    <3> QED
      BY <1>1, <2>1, SubSeqProperties
  <2> HIDE DEF n
  <2> QED
    BY <1>1, <2>2
<1>5. RemoveAt(s, i) = a \o b
  BY DEF RemoveAt
<1> HIDE DEF n, a, b
<1>6. /\ a \o b \in Seq(S) /\ Len(a \o b) = n - 1
      /\ \A j \in 1..(n - 1) :
           (a \o b)[j] = IF j <= i - 1 THEN a[j] ELSE b[j - (i - 1)]
  <2>1. /\ a \o b \in Seq(S) /\ Len(a \o b) = Len(a) + Len(b)
        /\ \A j \in 1..(Len(a) + Len(b)) :
             (a \o b)[j] = IF j <= Len(a) THEN a[j] ELSE b[j - Len(a)]
    BY <1>3, <1>4, ConcatProperties
  <2>2. Len(a) = i - 1 /\ Len(a) + Len(b) = n - 1
    BY <1>1, <1>3, <1>4
  <2> QED
    BY <2>1, <2>2
<1>7. ASSUME NEW j \in 1..(n - 1)
      PROVE  (a \o b)[j] = IF j < i THEN s[j] ELSE s[j + 1]
  <2>0. j \in Int
    OBVIOUS
  <2>1. CASE j < i
    BY <1>1, <1>3, <1>6, <2>1
  <2>2. CASE j >= i
    <3>1. j - (i - 1) \in 1..(n - i) /\ i + (j - (i - 1)) = j + 1
      BY <1>1, <2>2
    <3> QED
      BY <1>1, <1>4, <1>6, <2>2, <3>1
  <2>3. j < i \/ j >= i
    BY <1>1, <2>0
  <2> QED
    BY <2>1, <2>2, <2>3
<1> QED
  BY <1>5, <1>6, <1>7 DEF n

(* Searching finds the first address of a family, or reports 0.            *)
LEMMA SelectFirst ==
  ASSUME NEW s \in Seq(Addrs)
  PROVE  /\ \/ SelectInSeq(s, IsV4) \in First(s, V4)
            \/ SelectInSeq(s, IsV4) = 0 /\ \A i \in 1..Len(s) : s[i] \notin V4
         /\ \/ SelectInSeq(s, IsV6) \in First(s, V6)
            \/ SelectInSeq(s, IsV6) = 0 /\ \A i \in 1..Len(s) : s[i] \notin V6
<1>1. Len(s) \in Nat
  BY LenProperties
<1>2. ASSUME NEW F
      PROVE  LET I == {i \in 1..Len(s) : s[i] \in F}
                 m == IF I # {} THEN Min(I) ELSE 0
             IN  \/ m \in First(s, F)
                 \/ m = 0 /\ \A i \in 1..Len(s) : s[i] \notin F
  <2> DEFINE I == {i \in 1..Len(s) : s[i] \in F}
  <2>1. CASE I # {}
    <3>1. Min(I) \in I /\ \A i \in I : Min(I) <= i
      BY <1>1, <2>1, MinInBounds
    <3> QED
      BY <2>1, <3>1 DEF First
  <2>2. CASE I = {}
    BY <2>2
  <2> QED
    BY <2>1, <2>2
<1>3. SelectInSeq(s, IsV4) = LET I == {i \in 1..Len(s) : s[i] \in V4}
                             IN  IF I # {} THEN Min(I) ELSE 0
  BY DEF SelectInSeq, IsV4
<1>4. SelectInSeq(s, IsV6) = LET I == {i \in 1..Len(s) : s[i] \in V6}
                             IN  IF I # {} THEN Min(I) ELSE 0
  BY DEF SelectInSeq, IsV6
<1> QED
  BY <1>2, <1>3, <1>4

(* Taking one address to the front, when it is there, changes nothing.     *)
LEMMA FirstToFront ==
  ASSUME NEW s \in Seq(Addrs), 1 \in 1..Len(s)
  PROVE  <<s[1]>> \o RemoveAt(s, 1) = s
<1> DEFINE r == RemoveAt(s, 1)
           t == <<s[1]>> \o r
<1>1. Len(s) \in Nat /\ s[1] \in Addrs
  BY LenProperties, ElementOfSeq
<1>2. /\ r \in Seq(Addrs) /\ Len(r) = Len(s) - 1
      /\ \A j \in 1..(Len(s) - 1) : r[j] = s[j + 1]
  BY <1>1, RemoveAtProperties
<1> HIDE DEF r
<1>3. <<s[1]>> \in Seq(Addrs) /\ Len(<<s[1]>>) = 1 /\ <<s[1]>>[1] = s[1]
  BY <1>1
<1>4. /\ t \in Seq(Addrs) /\ Len(t) = 1 + Len(r)
      /\ \A i \in 1..(1 + Len(r)) : t[i] = IF i <= 1 THEN <<s[1]>>[i] ELSE r[i - 1]
  BY <1>2, <1>3, ConcatProperties
<1> HIDE DEF t
<1>5. ASSUME NEW i \in 1..Len(s) PROVE t[i] = s[i]
  <2>1. CASE i = 1
    BY <1>1, <1>2, <1>3, <1>4, <2>1
  <2>2. CASE i # 1
    <3>1. i - 1 \in 1..(Len(s) - 1) /\ (i - 1) + 1 = i /\ i \in 1..(1 + Len(r))
      BY <1>1, <1>2, <2>2
    <3> QED
      BY <1>1, <1>2, <1>4, <2>2, <3>1
  <2> QED
    BY <2>1, <2>2
<1>6. Len(t) = Len(s)
  BY <1>1, <1>2, <1>4
<1> QED
  BY <1>4, <1>5, <1>6, SeqEqual DEF t, r

(* Taking the first address and a later one to the front, in either order. *)
TwoFirst(s, a, b, l) == <<s[a], s[b]>> \o RemoveAt(RemoveAt(s, l), 1)

LEMMA TwoToFront ==
  ASSUME NEW s \in Seq(Addrs), NEW l \in 2..Len(s),
         NEW a \in {1, l}, NEW b \in {1, l}, a # b
  PROVE  /\ TwoFirst(s, a, b, l) \in Seq(Addrs)
         /\ Len(TwoFirst(s, a, b, l)) = Len(s)
         /\ Moved(s, TwoFirst(s, a, b, l), a, b)
<1> DEFINE n == Len(s)
           q == RemoveAt(s, l)
           r == RemoveAt(q, 1)
           h == <<s[a], s[b]>>
           t == TwoFirst(s, a, b, l)
           from == [i \in 1..n |-> IF i = 1 THEN a ELSE IF i = 2 THEN b
                                   ELSE IF i - 1 < l THEN i - 1 ELSE i]
<1>1. n \in Nat /\ l \in Nat /\ 2 <= l /\ l <= n /\ l \in 1..n /\ 1 \in 1..n
  BY LenProperties
<1>2. s[a] \in Addrs /\ s[b] \in Addrs
  BY <1>1, ElementOfSeq
<1>3. /\ q \in Seq(Addrs) /\ Len(q) = n - 1
      /\ \A j \in 1..(n - 1) : q[j] = IF j < l THEN s[j] ELSE s[j + 1]
  BY <1>1, RemoveAtProperties
<1>4. t = h \o r
  BY DEF TwoFirst
<1> HIDE DEF q, n, t
<1>5. /\ r \in Seq(Addrs) /\ Len(r) = n - 2
      /\ \A j \in 1..(n - 2) : r[j] = q[j + 1]
  <2>1. 1 \in 1..Len(q) /\ Len(q) - 1 = n - 2
    BY <1>1, <1>3
  <2>2. /\ r \in Seq(Addrs) /\ Len(r) = Len(q) - 1
        /\ \A j \in 1..(Len(q) - 1) : r[j] = IF j < 1 THEN q[j] ELSE q[j + 1]
    BY <1>3, <2>1, RemoveAtProperties
  <2> HIDE DEF r
  <2> QED
    BY <1>1, <2>1, <2>2
<1> HIDE DEF r
<1>6. h \in Seq(Addrs) /\ Len(h) = 2 /\ h[1] = s[a] /\ h[2] = s[b]
  BY <1>2
<1> HIDE DEF h
<1>7. /\ t \in Seq(Addrs) /\ Len(t) = n
      /\ \A i \in 1..n : t[i] = IF i <= 2 THEN h[i] ELSE r[i - 2]
  <2>1. /\ h \o r \in Seq(Addrs) /\ Len(h \o r) = Len(h) + Len(r)
        /\ \A i \in 1..(Len(h) + Len(r)) :
             (h \o r)[i] = IF i <= Len(h) THEN h[i] ELSE r[i - Len(h)]
    BY <1>5, <1>6, ConcatProperties
  <2>2. Len(h) = 2 /\ Len(h) + Len(r) = n
    BY <1>1, <1>5, <1>6
  <2> QED
    BY <1>4, <2>1, <2>2
<1>8. from \in [1..n -> 1..n]
  BY <1>1
<1>9. from[1] = a /\ from[2] = b
  BY <1>1
<1>10. ASSUME NEW i \in 1..n, NEW j \in 1..n
      PROVE  /\ i # j => from[i] # from[j]
             /\ 2 < i /\ i < j => from[i] < from[j]
  BY <1>1
<1>11. ASSUME NEW i \in 1..n PROVE t[i] = s[from[i]]
  <2>0. i \in Int
    OBVIOUS
  <2>1. CASE i = 1
    BY <1>1, <1>6, <1>7, <1>9, <2>1
  <2>2. CASE i = 2
    BY <1>1, <1>6, <1>7, <1>9, <2>2
  <2>3. CASE i # 1 /\ i # 2
    <3>1. /\ i - 2 \in 1..(n - 2) /\ (i - 2) + 1 = i - 1
          /\ i - 1 \in 1..(n - 1) /\ (i - 1) + 1 = i
      BY <1>1, <2>0, <2>3
    <3>2. t[i] = r[i - 2]
      BY <1>7, <2>0, <2>3, <3>1
    <3>3. r[i - 2] = q[i - 1]
      BY <1>5, <3>1
    <3>4. q[i - 1] = IF i - 1 < l THEN s[i - 1] ELSE s[i]
      BY <1>3, <3>1
    <3>5. from[i] = IF i - 1 < l THEN i - 1 ELSE i
      BY <2>3
    <3> HIDE DEF from
    <3> QED
      BY <3>2, <3>3, <3>4, <3>5
  <2> QED
    BY <2>1, <2>2, <2>3
<1> HIDE DEF from
<1> QED
  BY <1>7, <1>8, <1>9, <1>10, <1>11 DEF n, t, Moved

LEMMA SortPreferredOrders ==
  ASSUME NEW s \in Seq(Addrs), NEW prefer
  PROVE  /\ SortPreferred(s, prefer) \in Seq(Addrs)
         /\ Len(SortPreferred(s, prefer)) = Len(s)
         /\ IF prefer = "v4" THEN Ordered(s, SortPreferred(s, prefer), V4, V6)
                             ELSE Ordered(s, SortPreferred(s, prefer), V6, V4)
<1> DEFINE v4 == SelectInSeq(s, IsV4)
           v6 == SelectInSeq(s, IsV6)
           t == SortPreferred(s, prefer)
           n == Len(s)
<1>1. n \in Nat /\ \A i \in 1..n : s[i] \in V4 \/ s[i] \in V6
  BY LenProperties, ElementOfSeq DEF Addrs
<1>2. /\ v4 \in First(s, V4) \/ (v4 = 0 /\ \A i \in 1..n : s[i] \notin V4)
      /\ v6 \in First(s, V6) \/ (v6 = 0 /\ \A i \in 1..n : s[i] \notin V6)
  BY SelectFirst
<1>3. v4 = 0 \/ v6 = 0 => First(s, V4) = {} \/ First(s, V6) = {}
  BY <1>2 DEF First
<1>4. t = LET late == IF v4 > v6 THEN v4 ELSE v6
              soon == IF v4 > v6 THEN v6 ELSE v4
          IN  IF late = 0 THEN s
              ELSE IF soon = 0 THEN <<s[late]>> \o RemoveAt(s, late)
              ELSE (IF prefer = "v4" THEN <<s[v4], s[v6]>> ELSE <<s[v6], s[v4]>>)
                     \o RemoveAt(RemoveAt(s, late), soon)
  BY DEF SortPreferred
<1> HIDE DEF v4, v6, t, n
<1>5. CASE v4 = 0 /\ v6 = 0
  BY <1>3, <1>4, <1>5 DEF Ordered, t
<1>6. CASE (v4 = 0) # (v6 = 0)
  <2> DEFINE v == IF v4 = 0 THEN v6 ELSE v4
  <2>1. v = 1 /\ 1 \in 1..n
    BY <1>1, <1>2, <1>6 DEF First, n
  <2>2. t = <<s[1]>> \o RemoveAt(s, 1)
    BY <1>2, <1>4, <1>6, <2>1 DEF First
  <2>3. t = s
    BY <2>1, <2>2, FirstToFront DEF n
  <2> QED
    BY <1>3, <1>6, <2>3 DEF Ordered, t
<1>7. CASE v4 # 0 /\ v6 # 0
  <2>1. v4 \in First(s, V4) /\ v6 \in First(s, V6)
    BY <1>2, <1>7
  <2>2. /\ v4 \in 1..n /\ s[v4] \in V4 /\ v6 \in 1..n /\ s[v6] \in V6
        /\ \A j \in 1..n : (s[j] \in V4 => v4 <= j) /\ (s[j] \in V6 => v6 <= j)
    BY <2>1 DEF First, n
  <2>3. v4 # v6
    BY <2>2, ConnectingAssumption
  <2>4. 1 \in 1..n /\ (v4 = 1 \/ v6 = 1)
    BY <1>1, <2>2
  <2> DEFINE l == IF v4 > v6 THEN v4 ELSE v6
             a == IF prefer = "v4" THEN v4 ELSE v6
             b == IF prefer = "v4" THEN v6 ELSE v4
  <2>5. /\ l \in 2..n /\ a \in {1, l} /\ b \in {1, l} /\ a # b
        /\ (IF v4 > v6 THEN v6 ELSE v4) = 1
    BY <2>2, <2>3, <2>4
  <2>6. t = TwoFirst(s, a, b, l)
    BY <1>4, <2>5 DEF TwoFirst
  <2> HIDE DEF l, a, b
  <2>7. l \in 2..Len(s) /\ a \in {1, l} /\ b \in {1, l} /\ a # b
    BY <2>5 DEF n
  <2>8. t \in Seq(Addrs) /\ Len(t) = Len(s) /\ Moved(s, t, a, b)
    BY <2>6, <2>7, TwoToFront
  <2> QED
    BY <2>1, <2>8 DEF Ordered, t, a, b
<1> QED
  BY <1>5, <1>6, <1>7
-----------------------------------------------------------------------------
(* Sockets that are dropped.                                               *)
LEMMA DroppedClosed ==
  ASSUME sock \in Seq(SockStates)
  PROVE  /\ Dropped \in Seq(SockStates) /\ Len(Dropped) = Len(sock)
         /\ \A i \in 1..Len(sock) : Dropped[i] \in {"failed", "closed"}
<1>1. Len(sock) \in Nat
  BY LenProperties
<1>2. Dropped \in [1..Len(sock) -> SockStates]
  BY DEF Dropped, SockStates
<1>3. Dropped \in Seq(SockStates) /\ Len(Dropped) = Len(sock)
  BY <1>1, <1>2
<1> QED
  BY <1>3 DEF Dropped

(* A connection is dropped, with its sockets, ...                          *)
LEMMA DropType ==
  ASSUME ConnTypeOK, DropConnection
  PROVE  ConnTypeOK'
<1>1. <<>> \in Seq(Addrs) /\ <<>> \in Seq(SockStates)
  BY EmptySeq
<1> QED
  BY <1>1 DEF ConnTypeOK, DropConnection

(* ... called for, ...                                                     *)
LEMMA CallType ==
  ASSUME ConnTypeOK, NEW u \in Uris, NEW p \in {"http1", "http2"},
         CallTransport(u, p)
  PROVE  ConnTypeOK'
BY DEF ConnTypeOK, CallTransport, Fail

(* ... and goes on.                                                        *)
LEMMA ConnStepType ==
  ASSUME ConnTypeOK, ConnNext
  PROVE  ConnTypeOK' /\ UNCHANGED <<config, uri, asked>>
<1> SUFFICES ConnTypeOK' /\ UNCHANGED <<config, uri, asked>>
  OBVIOUS
<1>0. /\ sock \in Seq(SockStates) /\ Len(sock) = Len(addrs)
      /\ Dropped \in Seq(SockStates) /\ Len(Dropped) = Len(sock)
  BY DroppedClosed DEF ConnTypeOK
<1>e. ASSUME NEW s \in Seq(SockStates), NEW i \in 1..Len(s), NEW x \in SockStates
      PROVE  [s EXCEPT ![i] = x] \in Seq(SockStates) /\ Len([s EXCEPT ![i] = x]) = Len(s)
  BY ExceptSeq
<1>1. ASSUME NEW ans \in Answers, Resolved(ans)
      PROVE  ConnTypeOK' /\ UNCHANGED <<config, uri, asked>>
  <2> DEFINE order == IF config.happy_eyeballs_timeout = NONE THEN ans
                      ELSE SortPreferred(ans, FromBinding(config))
  <2>1. ans \in Seq(Addrs)
    BY ConnectingAssumption
  <2>2. order \in Seq(Addrs)
    BY <2>1, SortPreferredOrders
  <2>3. /\ addrs' = order /\ now' = 0
        /\ sock' \in [1..Len(order) -> {"syn", "refused"}]
    BY <1>1 DEF Resolved, StartAttempts
  <2> HIDE DEF order
  <2>4. Len(order) \in Nat
    BY <2>2, LenProperties
  <2>5. sock' \in Seq(SockStates) /\ Len(sock') = Len(order)
    <3>1. sock' \in [1..Len(order) -> SockStates]
      BY <2>3 DEF SockStates
    <3> QED
      BY <2>4, <3>1
  <2> QED
    BY <1>1, <2>1, <2>2, <2>3, <2>5 DEF ConnTypeOK, Resolved
<1>2. CASE ResolveFails
  BY <1>2 DEF ConnTypeOK, ResolveFails, Fail
<1>3. ASSUME NEW i \in Attempts, Settle(i)
      PROVE  ConnTypeOK' /\ UNCHANGED <<config, uri, asked>>
  <2>1. PICK x \in {"up", "refused"} : sock' = [sock EXCEPT ![i] = x]
    BY <1>3 DEF Settle
  <2>2. sock' \in Seq(SockStates) /\ Len(sock') = Len(sock)
    BY <1>0, <1>e, <2>1 DEF Attempts, SockStates
  <2> QED
    BY <1>0, <1>3, <2>2 DEF ConnTypeOK, Settle
<1>4. CASE Tick
  <2>1. now \in Nat
    BY DEF ConnTypeOK
  <2>2. now' = now + 1
    BY <1>4 DEF Tick
  <2>3. now' \in Nat
    BY <2>1, <2>2
  <2>4. UNCHANGED <<config, phase, uri, asked, answer, addrs, sock, error,
                    alpn, speaks>>
    BY <1>4 DEF Tick
  <2> QED
    BY <2>3, <2>4 DEF ConnTypeOK
<1>5. ASSUME NEW i \in Attempts, JoinOk(i)
      PROVE  ConnTypeOK' /\ UNCHANGED <<config, uri, asked>>
  <2>1. sock' = [Dropped EXCEPT ![i] = "won"]
    BY <1>5 DEF JoinOk
  <2>2. sock' \in Seq(SockStates) /\ Len(sock') = Len(sock)
    BY <1>0, <1>e, <2>1 DEF Attempts, SockStates
  <2> QED
    BY <1>0, <1>5, <2>2 DEF ConnTypeOK, JoinOk, StartTls
<1>6. ASSUME NEW i \in Attempts, JoinError(i)
      PROVE  ConnTypeOK' /\ UNCHANGED <<config, uri, asked>>
  <2>1. sock' = [sock EXCEPT ![i] = "failed"]
    BY <1>6 DEF JoinError
  <2>2. sock' \in Seq(SockStates) /\ Len(sock') = Len(sock)
    BY <1>0, <1>e, <2>1 DEF Attempts, SockStates
  <2> QED
    BY <1>0, <1>6, <2>2 DEF ConnTypeOK, JoinError
<1>7. CASE Exhausted
  BY <1>7 DEF ConnTypeOK, Exhausted, Fail
<1>8. CASE Deadline
  BY <1>0, <1>8 DEF ConnTypeOK, Deadline, Fail
<1>9. ASSUME NEW a \in {"none", "http/1.1", "h2"}, TlsDone(a)
      PROVE  ConnTypeOK' /\ UNCHANGED <<config, uri, asked>>
  BY <1>9 DEF ConnTypeOK, TlsDone
<1>10. CASE TlsFails
  BY <1>0, <1>10 DEF ConnTypeOK, TlsFails, Fail
<1>11. CASE HttpDone
  BY <1>11 DEF ConnTypeOK, HttpDone, ProtocolOf
<1>12. CASE HttpFails
  BY <1>0, <1>12 DEF ConnTypeOK, HttpFails, Fail
<1> QED
  BY <1>1, <1>2, <1>3, <1>4, <1>5, <1>6, <1>7, <1>8, <1>9, <1>10, <1>11, <1>12
     DEF ConnNext, Resolve, PollRace, HandshakeTls, HandshakeHttp

(* The steps of a request, with those of its connection.                   *)
LEMMA RequestStepType ==
  ASSUME TypeOK, Given, [Next]_vars
  PROVE  TypeOK'
<1> USE RequestAssumption
<1>0. /\ ConnTypeOK /\ req \in RequestType /\ original \in RequestType
      /\ original.uri \in Uris /\ req.uri \in UriType
      /\ client \in ClientType /\ UsizeMax \in Nat
  BY DEF TypeOK, RequestType
<1>c. ASSUME UNCHANGED <<config, connVars>> PROVE ConnTypeOK'
  BY <1>0, <1>c DEF connVars, ConnTypeOK
<1>e. ASSUME NEW r \in RequestType
      PROVE  /\ [r EXCEPT !.extensions = FALSE] \in RequestType
             /\ CloneRequest(r) \in RequestType \cup {NONE}
  <2>1. [r EXCEPT !.extensions = FALSE] \in RequestType
    BY DEF RequestType
  <2> QED
    BY <2>1 DEF CloneRequest
<1>1. CASE Call
  <2>1. saved' \in RequestType \cup {NONE}
    BY <1>0, <1>1, <1>e DEF Call
  <2> QED
    BY <1>c, <1>1, <2>1 DEF TypeOK, Call, fixed
<1>2. CASE CallService
  <2>1. ConnTypeOK'
    <3>1. CASE UNCHANGED <<config, connVars>>
      BY <1>c, <3>1
    <3>2. CASE CallTransport(req.uri, HttpProtocolOf(req.version))
      <4>1. req.uri \in Uris
        BY <1>2 DEF CallService, Given
      <4> QED
        BY <1>0, <3>2, <4>1, CallType DEF HttpProtocolOf
    <3> QED
      BY <1>2, <3>1, <3>2 DEF CallService
  <2> QED
    BY <1>2, <2>1 DEF TypeOK, CallService, End, fixed
<1>3. CASE ConnectionError
  BY <1>0, <1>3, DropType DEF TypeOK, ConnectionError, End, fixed
<1>4. CASE Execute
  <2>1. ConnTypeOK'
    BY <1>0, <1>4, <1>c, DropType DEF Execute
  <2>2. req' \in RequestType
    <3>1. req' = req \/ req' = PrepareRequest(req)
      BY <1>4 DEF Execute
    <3>2. [req EXCEPT !.version = "2"] \in RequestType
      BY <1>0 DEF RequestType, VersionType
    <3>3. SetHostHeader(req) \in HostType
      BY <1>0 DEF SetHostHeader, GetNonDefaultPort, RequestType, HostType,
         UriType
    <3>4. [req EXCEPT !.host = SetHostHeader(req)] \in RequestType
      BY <1>0, <3>3 DEF RequestType
    <3>5. ASSUME NEW r \in RequestType, NEW f \in {"origin", "authority"}
          PROVE  Relative(r, f) \in RequestType
      BY DEF Relative, RequestType, UriType
    <3> QED
      BY <1>0, <3>1, <3>2, <3>4, <3>5 DEF PrepareRequest
  <2> QED
    BY <1>4, <2>1, <2>2 DEF TypeOK, Execute, End, fixed
<1>5. ASSUME NEW r \in {"ok", "5xx", "error"}, Respond(r) PROVE TypeOK'
  BY <1>0, <1>5, DropType DEF TypeOK, Respond, End, fixed
<1>6. ASSUME NEW u \in Locations, Redirect(u) PROVE TypeOK'
  <2>1. req' \in RequestType
    <3>1. u \in UriType
      BY ConnectingAssumption
    <3>2. req' = [original EXCEPT !.uri = u, !.extensions = FALSE]
      BY <1>6 DEF Redirect
    <3> QED
      BY <1>0, <3>1, <3>2 DEF RequestType
  <2>2. redirects' \in 0..MaxRedirects
    BY <1>6 DEF TypeOK, Redirect
  <2>3. ConnTypeOK'
    BY <1>0, <1>6, DropType DEF Redirect
  <2> QED
    BY <1>6, <2>1, <2>2, <2>3 DEF TypeOK, Redirect, fixed
<1>7. CASE Timeout
  BY <1>0, <1>7, DropType DEF TypeOK, Timeout, End, fixed
<1>8. CASE Retry
  <2>1. ConnTypeOK'
    BY <1>8, <1>c DEF Retry
  <2>2. /\ req' \in RequestType /\ redirects' \in 0..MaxRedirects
        /\ stage' \in {"ready", "done", "panic"}
        /\ result' \in {NONE, "ok", "5xx", "error"}
    BY <1>0, <1>8 DEF TypeOK, Retry, RetryServerError, RetryError, NoRetry,
                      Again, Finish
  <2>3. left' \in 0..UsizeMax
    BY <1>0, <1>8 DEF TypeOK, Retry, RetryServerError, RetryError, NoRetry
  <2>4. saved' \in RequestType \cup {NONE}
    <3>1. CASE saved' = saved
      BY <3>1 DEF TypeOK
    <3>2. CASE saved # NONE /\ Again
      <4>1. saved \in RequestType /\ saved' = CloneRequest(saved)
        BY <3>2 DEF TypeOK, Again
      <4> QED
        BY <1>e, <4>1
    <3> QED
      BY <1>8, <3>1, <3>2 DEF Retry, RetryServerError, RetryError, NoRetry, Finish
  <2> QED
    BY <1>8, <2>1, <2>2, <2>3, <2>4 DEF TypeOK, Retry, fixed
<1>9. CASE Connection
  BY <1>0, <1>9, ConnStepType DEF TypeOK, Connection, reqVars
<1>10. CASE UNCHANGED vars
  BY <1>c, <1>10 DEF TypeOK, vars, reqVars
<1> QED
  BY <1>1, <1>2, <1>3, <1>4, <1>5, <1>6, <1>7, <1>8, <1>9, <1>10
     DEF Next, PollRequest, Peer

(* The sockets, through the steps of a connection.                         *)
LEMMA ConnStepSockets ==
  ASSUME ConnTypeOK, Sockets, stage = "connect", UNCHANGED stage, ConnNext
  PROVE  Sockets'
<1>0. sock \in Seq(SockStates) /\ Len(sock) \in Nat
  BY LenProperties DEF ConnTypeOK
<1>d. /\ Dropped \in Seq(SockStates) /\ Len(Dropped) = Len(sock)
      /\ \A i \in 1..Len(sock) : Dropped[i] \in {"failed", "closed"}
  BY <1>0, DroppedClosed
<1>1. ASSUME NEW ans \in Answers, Resolved(ans) PROVE Sockets'
  BY <1>1 DEF Sockets, Resolved
<1>2. CASE ResolveFails
  <2>1. sock = <<>> /\ Len(<<>>) = 0
    BY <1>2, EmptySeq DEF Sockets, ResolveFails
  <2> QED
    BY <1>2, <2>1 DEF Sockets, ResolveFails, Fail
<1>3. ASSUME NEW i \in Attempts, Settle(i) PROVE Sockets'
  BY <1>3 DEF Sockets, Settle
<1>4. CASE Tick
  BY <1>4 DEF Sockets, Tick
<1>5. ASSUME NEW i \in Attempts, JoinOk(i) PROVE Sockets'
  <2>1. /\ Len(sock') = Len(sock) /\ i \in 1..Len(sock)
        /\ \A j \in 1..Len(sock) : sock'[j] = IF j = i THEN "won" ELSE Dropped[j]
    BY <1>5, <1>d, ExceptSeq DEF Attempts, SockStates, JoinOk
  <2>2. phase' \in {"panic", "tls", "http"}
    BY <1>5 DEF JoinOk, StartTls
  <2>3. /\ sock'[i] = "won"
        /\ \A j \in 1..Len(sock') : j # i => sock'[j] \in {"failed", "closed"}
    BY <1>d, <2>1
  <2> QED
    BY <2>1, <2>2, <2>3 DEF Sockets
<1>6. ASSUME NEW i \in Attempts, JoinError(i) PROVE Sockets'
  BY <1>6 DEF Sockets, JoinError
<1>7. CASE Exhausted
  BY <1>7 DEF Sockets, Exhausted, Fail
<1>8. CASE Deadline
  BY <1>8, <1>d DEF Sockets, Deadline, Fail
<1>9. ASSUME NEW a \in {"none", "http/1.1", "h2"}, TlsDone(a) PROVE Sockets'
  BY <1>9 DEF Sockets, TlsDone
<1>10. CASE TlsFails
  BY <1>10, <1>d DEF Sockets, TlsFails, Fail
<1>11. CASE HttpDone
  BY <1>11 DEF Sockets, HttpDone
<1>12. CASE HttpFails
  BY <1>12, <1>d DEF Sockets, HttpFails, Fail
<1> QED
  BY <1>1, <1>2, <1>3, <1>4, <1>5, <1>6, <1>7, <1>8, <1>9, <1>10, <1>11, <1>12
     DEF ConnNext, Resolve, PollRace, HandshakeTls, HandshakeHttp

(* Every step keeps the sockets.                                           *)
LEMMA SocketsStep ==
  ASSUME TypeOK, Sockets, [Next]_vars
  PROVE  Sockets'
<1>0. ConnTypeOK
  BY DEF TypeOK
<1>d. ASSUME DropConnection, stage' \notin {"exchange"} PROVE Sockets'
  BY <1>d DEF Sockets, DropConnection
<1>c. ASSUME UNCHANGED connVars, stage = stage' \/ phase = "idle", stage' # "exchange"
      PROVE  Sockets'
  BY <1>c DEF Sockets, connVars
<1>1. CASE Call
  BY <1>1, <1>c DEF Call, Sockets
<1>2. CASE CallService
  <2>1. CASE UNCHANGED connVars
    BY <1>2, <1>c, <2>1 DEF CallService, End, Sockets
  <2>2. CASE /\ CallTransport(req.uri, HttpProtocolOf(req.version))
             /\ stage' = "connect"
    <3>1. sock = <<>> /\ sock' = <<>> /\ Len(<<>>) = 0
      BY <2>2, EmptySeq DEF Sockets, CallTransport
    <3>2. phase' \in {"failed", "resolve"}
      BY <2>2 DEF CallTransport, Fail
    <3> QED
      BY <2>2, <3>1, <3>2 DEF Sockets
  <2> QED
    BY <1>2, <2>1, <2>2 DEF CallService
<1>3. CASE ConnectionError
  BY <1>3, <1>d DEF ConnectionError, End
<1>4. CASE Execute
  <2>1. CASE Refused(req)
    BY <1>4, <1>d, <2>1 DEF Execute, End
  <2>2. CASE ~Refused(req)
    BY <1>4, <2>2 DEF Execute, Sockets, connVars
  <2> QED
    BY <2>1, <2>2
<1>5. ASSUME NEW r \in {"ok", "5xx", "error"}, Respond(r) PROVE Sockets'
  BY <1>5, <1>d DEF Respond, End
<1>6. ASSUME NEW u \in Locations, Redirect(u) PROVE Sockets'
  BY <1>6, <1>d DEF Redirect
<1>7. CASE Timeout
  BY <1>7, <1>d DEF Timeout, End
<1>8. CASE Retry
  BY <1>8, <1>c DEF Retry, RetryServerError, RetryError, NoRetry, Again, Finish,
                    Sockets
<1>9. CASE Connection
  BY <1>0, <1>9, ConnStepSockets DEF Connection, reqVars
<1>10. CASE UNCHANGED vars
  BY <1>10 DEF Sockets, vars, connVars, reqVars
<1> QED
  BY <1>1, <1>2, <1>3, <1>4, <1>5, <1>6, <1>7, <1>8, <1>9, <1>10
     DEF Next, PollRequest, Peer

(* Every step keeps the caller's request, its clone and that of the        *)
(* attempt.                                                                *)
LEMMA GivenStep ==
  ASSUME TypeOK, Given, [Next]_vars
  PROVE  Given'
<1> USE RequestAssumption
<1>0. /\ original \in RequestType /\ original.uri \in Uris /\ req \in RequestType
      /\ redirects \in Nat
  BY DEF TypeOK
<1>k. ASSUME UNCHANGED <<client, original, req, saved, left, redirects>>,
             stage' \notin {"start", "ready", "connect"} \/ stage' = stage
      PROVE  Given'
  BY <1>k DEF Given, IsGiven, CloneRequest, Retried
<1>1. CASE Call
  <2>1. /\ UNCHANGED <<client, original, req, left, redirects>>
        /\ stage = "start" /\ stage' = "ready"
        /\ saved' # NONE => saved' = CloneRequest(original)
    BY <1>1 DEF Call, fixed
  <2> QED
    BY <2>1 DEF Given, IsGiven, CloneRequest, Retried
<1>2. CASE CallService
  BY <1>2 DEF Given, IsGiven, CloneRequest, Retried, CallService, End, fixed
<1>3. CASE ConnectionError
  BY <1>3, <1>k DEF ConnectionError, End, fixed
<1>4. CASE Execute
  <2>1. /\ UNCHANGED <<client, original, saved>>
        /\ stage' \notin {"start", "ready", "connect"}
    BY <1>4 DEF Execute, End, fixed
  <2> QED
    BY <2>1 DEF Given, CloneRequest
<1>5. ASSUME NEW r \in {"ok", "5xx", "error"}, Respond(r) PROVE Given'
  BY <1>5, <1>k DEF Respond, End, fixed
<1>6. ASSUME NEW u \in Locations, Redirect(u) PROVE Given'
  <2>1. /\ req' = [original EXCEPT !.uri = u, !.extensions = FALSE]
        /\ original' = original
        /\ saved' = saved /\ stage' = "ready" /\ redirects' > 0
    BY <1>0, <1>6 DEF Redirect, fixed
  <2>2. req'.uri = u /\ ~req'.extensions /\ IsGiven(req')
    BY <1>0, <2>1 DEF RequestType, IsGiven
  <2>3. u \in Uris
    OBVIOUS
  <2> QED
    BY <1>0, <2>1, <2>2, <2>3 DEF Given, IsGiven, CloneRequest
<1>7. CASE Timeout
  BY <1>7, <1>k DEF Timeout, End, fixed
<1>8. CASE Retry
  <2>1. UNCHANGED <<client, original>>
    BY <1>8 DEF Retry, fixed
  <2>2. CASE saved # NONE /\ Again
    <3>1. /\ req' = [original EXCEPT !.extensions = FALSE]
          /\ saved = [original EXCEPT !.extensions = FALSE]
          /\ stage' = "ready" /\ redirects' = 0
          /\ saved' # NONE => saved' = [saved EXCEPT !.extensions = FALSE]
                              /\ saved.cloneable
      BY <2>2 DEF Given, CloneRequest, Again
    <3>2. req'.uri = original.uri /\ ~req'.extensions /\ IsGiven(req')
      BY <1>0, <3>1 DEF RequestType, IsGiven
    <3>3. saved' # NONE => saved' = CloneRequest(original)
      BY <1>0, <3>1 DEF RequestType, CloneRequest
    <3> QED
      BY <1>0, <2>1, <3>1, <3>2, <3>3 DEF Given, IsGiven, CloneRequest
  <2>3. CASE stage' \in {"panic", "done"} /\ saved' = saved
    BY <2>1, <2>3 DEF Given, CloneRequest
  <2> QED
    BY <1>8, <2>2, <2>3 DEF Retry, RetryServerError, RetryError, NoRetry, Finish
<1>9. CASE Connection
  BY <1>9, <1>k DEF Connection, reqVars
<1>10. CASE UNCHANGED vars
  BY <1>10, <1>k DEF vars, reqVars
<1> QED
  BY <1>1, <1>2, <1>3, <1>4, <1>5, <1>6, <1>7, <1>8, <1>9, <1>10
     DEF Next, PollRequest, Peer

(* The port that SetHostHeader leaves out of a Host header is the one that *)
(* a port is filled in with (service.rs:439-471, tcp.rs:463-476).          *)
LEMMA HostNamesPort ==
  ASSUME NEW u \in UriType, HostAndPort(u) # NONE
  PROVE  PortNamed([own |-> FALSE, port |-> GetNonDefaultPort(u)], UseTls(u))
           = HostAndPort(u)
BY DEF UriType, HostAndPort, PortNamed, GetNonDefaultPort, IsSchemaSecure,
   UseTls

(* Every step keeps the URI of the connection.                             *)
LEMMA TargetStep ==
  ASSUME RequestInv, [Next]_vars
  PROVE  Target'
<1> USE RequestAssumption
<1>0. /\ TypeOK /\ Sockets /\ Given /\ Target
      /\ original \in RequestType /\ req \in RequestType
  BY DEF RequestInv, TypeOK
<1>d. ASSUME DropConnection, stage' \notin {"connect", "exchange"} PROVE Target'
  BY <1>d DEF Target, HostIsPeer, DropConnection
<1>c. ASSUME phase = "idle", UNCHANGED connVars, stage' \notin {"connect", "exchange"}
      PROVE  Target'
  BY <1>c DEF Target, HostIsPeer, connVars
<1>1. CASE Call
  BY <1>0, <1>1, <1>c DEF Call, Sockets
<1>2. CASE CallService
  <2>1. phase = "idle"
    BY <1>0, <1>2 DEF CallService, Sockets
  <2>2. CASE UNCHANGED connVars /\ stage' \in {"panic", "answer"}
    BY <1>c, <2>1, <2>2
  <2>3. CASE /\ CallTransport(req.uri, HttpProtocolOf(req.version))
             /\ stage' = "connect"
    <3>1. uri' = req.uri /\ req' = req
      BY <1>2, <2>3 DEF CallTransport, CallService
    <3>2. phase' = "resolve" => HostAndPort(req.uri) # NONE
      BY <2>3 DEF CallTransport, Fail
    <3>3. phase' \in {"failed", "resolve"}
      BY <2>3 DEF CallTransport, Fail
    <3> QED
      BY <2>3, <3>1, <3>2, <3>3 DEF Target, HostIsPeer
  <2> QED
    BY <1>2, <2>2, <2>3 DEF CallService, End
<1>3. CASE ConnectionError
  BY <1>3, <1>d DEF ConnectionError, End
<1>4. CASE Execute
  <2>1. CASE Refused(req)
    BY <1>4, <1>d, <2>1 DEF Execute, End
  <2>2. CASE ~Refused(req)
    <3>1. /\ UNCHANGED connVars /\ req' = PrepareRequest(req)
          /\ stage = "connect" /\ stage' = "exchange" /\ phase = "up"
      BY <1>4, <2>2 DEF Execute
    <3>2. ASSUME speaks = "h1", ~req'.host.own
          PROVE  PortNamed(req'.host, UseTls(uri)) = HostAndPort(uri)
      <4>1. req'.host = SetHostHeader(req)
        <5>1. req' = Relative([req EXCEPT !.host = SetHostHeader(req)],
                              IF req.connect THEN "authority" ELSE "origin")
          BY <3>1, <3>2 DEF PrepareRequest
        <5> QED
          BY <1>0, <5>1 DEF Relative, RequestType, UriType
      <4>2. req.host = NONE \/ req.host.own
        <5>1. IsGiven(req)
          BY <1>0, <3>1 DEF Given
        <5>2. req.host = original.host
          BY <1>0, <5>1 DEF RequestType, IsGiven
        <5> QED
          BY <5>2 DEF TypeOK, RequestInv
      <4>3. req'.host = [own |-> FALSE, port |-> GetNonDefaultPort(uri)]
        BY <1>0, <3>1, <3>2, <4>1, <4>2 DEF SetHostHeader, Target
      <4>4. uri \in UriType /\ HostAndPort(uri) # NONE
        BY <1>0, <3>1, ConnectingAssumption DEF Target, TypeOK, ConnTypeOK
      <4> QED
        BY <4>3, <4>4, HostNamesPort
    <3> QED
      BY <1>0, <3>1, <3>2 DEF Target, HostIsPeer, connVars
  <2> QED
    BY <2>1, <2>2
<1>5. ASSUME NEW r \in {"ok", "5xx", "error"}, Respond(r) PROVE Target'
  BY <1>5, <1>d DEF Respond, End
<1>6. ASSUME NEW u \in Locations, Redirect(u) PROVE Target'
  BY <1>6, <1>d DEF Redirect
<1>7. CASE Timeout
  BY <1>7, <1>d DEF Timeout, End
<1>8. CASE Retry
  BY <1>0, <1>8, <1>c DEF Retry, RetryServerError, RetryError, NoRetry, Again,
                          Finish, Sockets
<1>9. CASE Connection
  <2>1. UNCHANGED <<uri, req, stage>> /\ stage = "connect"
    BY <1>0, <1>9, ConnStepType DEF TypeOK, Connection, reqVars
  <2>2. phase \in {"resolve", "race", "tls", "http", "up"} \/ phase' = phase
    BY <1>9 DEF Connection, ConnNext, Resolve, Resolved, ResolveFails, Settle,
       Tick,
                PollRace, JoinOk, JoinError, Exhausted, Deadline, HandshakeTls,
                TlsDone, TlsFails, HandshakeHttp, HttpDone, HttpFails
  <2> QED
    BY <1>0, <2>1, <2>2 DEF Target, HostIsPeer
<1>10. CASE UNCHANGED vars
  BY <1>0, <1>10 DEF Target, HostIsPeer, vars, connVars, reqVars
<1> QED
  BY <1>1, <1>2, <1>3, <1>4, <1>5, <1>6, <1>7, <1>8, <1>9, <1>10
     DEF Next, PollRequest, Peer
-----------------------------------------------------------------------------
(* Before the call there is no connection, and the request is the caller's.*)
LEMMA RequestInvInit == Init => RequestInv
<1> SUFFICES ASSUME Init PROVE RequestInv
  OBVIOUS
<1> USE RequestAssumption
<1>1. /\ original \in RequestType /\ original.uri \in Uris
      /\ client \in ClientType /\ UsizeMax \in Nat
  BY DEF Init
<1>2. /\ <<>> \in Seq(Addrs) /\ <<>> \in Seq(SockStates)
  BY EmptySeq
<1>3. TypeOK
  <2>1. ConnTypeOK
    BY <1>2 DEF Init, ConnInit, NoConnection, ConnTypeOK
  <2>2. left \in 0..UsizeMax
    BY <1>1 DEF Init, ClientType
  <2> QED
    BY <1>1, <2>1, <2>2 DEF Init, TypeOK
<1>4. Sockets
  BY DEF Init, ConnInit, NoConnection, Sockets
<1>5. Given
  <2>1. IsGiven(original)
    BY <1>1 DEF RequestType, IsGiven
  <2> QED
    BY <1>1, <2>1 DEF Init, Given, IsGiven, Retried
<1>6. Target
  BY DEF Init, ConnInit, NoConnection, Target, HostIsPeer
<1> QED
  BY <1>3, <1>4, <1>5, <1>6 DEF RequestInv

LEMMA RequestInvStep == RequestInv /\ [Next]_vars => RequestInv'
BY RequestStepType, SocketsStep, GivenStep, TargetStep DEF RequestInv

(* Whatever the resolver, the servers, the peers and the timers do, and    *)
(* however retries and redirects follow each other: only the socket of the *)
(* winner is open, the Host header names the peer, and attempts start from *)
(* the caller's request, but for the URI of a redirect and without its     *)
(* extensions after the first (tcp.rs:276-301, service.rs:439-471,         *)
(* retry.rs:32-50).                                                        *)
THEOREM RequestsAreSound ==
  Spec => [](TypeOK /\ OnlyWinnerOpen /\ HostIsPeer /\ RetriedAsGiven)
<1>1. ASSUME RequestInv
      PROVE  TypeOK /\ OnlyWinnerOpen /\ HostIsPeer /\ RetriedAsGiven
  BY <1>1 DEF RequestInv, Sockets, Given, IsGiven, Target, OnlyWinnerOpen,
                   RetriedAsGiven
<1>2. RequestInv => TypeOK /\ OnlyWinnerOpen /\ HostIsPeer /\ RetriedAsGiven
  BY <1>1
<1> QED
  BY RequestInvInit, RequestInvStep, <1>2, PTL DEF Spec

(* A race that fails has not lost a connection, whatever timers fire with  *)
(* it (happy_eyeballs.rs:138-214).                                         *)
THEOREM NoSuccessIsMissed == Spec => SuccessNotMissed
<1>1. ASSUME TypeOK, [Next]_vars, phase = "race", phase' = "failed"
      PROVE  \A i \in 1..Len(sock) : sock[i] # "up"
  <2>1. Exhausted \/ Deadline
    BY <1>1 DEF Next, PollRequest, Call, CallService, CallTransport, Fail,
                ConnectionError, Execute, Retry, Peer, Respond, Redirect,
                Timeout, DropConnection, Connection, ConnNext, Resolve,
                Resolved, ResolveFails, Settle, Tick, PollRace, JoinOk,
                StartTls, JoinError, HandshakeTls, TlsDone, TlsFails,
                HandshakeHttp, HttpDone, HttpFails, vars, connVars, fixed, End
  <2> QED
    BY <2>1 DEF Exhausted, Deadline, Settled
<1>2. TypeOK /\ [Next]_vars
        => [phase = "race" /\ phase' = "failed"
              => \A i \in 1..Len(sock) : sock[i] # "up"]_vars
  BY <1>1
<1> QED
  BY RequestsAreSound, <1>2, PTL DEF Spec, SuccessNotMissed

(* The race tries what the resolver answered, each address once, in the    *)
(* order of preference (dns.rs:37-86, tcp.rs:276-301).                     *)
THEOREM AddressesInOrder == Spec => []PreferenceOrder
<1>1. Init => PreferenceOrder
  BY DEF Init, ConnInit, NoConnection, PreferenceOrder
<1>2. ASSUME PreferenceOrder, [Next]_vars PROVE PreferenceOrder'
  <2>1. ASSUME NEW ans \in Answers, Resolved(ans) PROVE PreferenceOrder'
    <3>1. ans \in Seq(Addrs)
      BY ConnectingAssumption
    <3>2. /\ answer' = ans /\ config' = config
          /\ config.happy_eyeballs_timeout # NONE
               => addrs' = SortPreferred(ans, FromBinding(config))
      BY <2>1 DEF Resolved, StartAttempts
    <3>3. FromBinding(config) = "v4"
            <=> config.local_address_ipv4 /\ ~config.local_address_ipv6
      BY ConnectingAssumption DEF FromBinding
    <3> DEFINE p == FromBinding(config)
    <3>4. IF p = "v4" THEN Ordered(ans, SortPreferred(ans, p), V4, V6)
                      ELSE Ordered(ans, SortPreferred(ans, p), V6, V4)
      BY <3>1, SortPreferredOrders
    <3> QED
      BY <3>2, <3>3, <3>4 DEF PreferenceOrder
  <2>2. CASE phase' = "race" => UNCHANGED <<config, phase, answer, addrs>>
    BY <1>2, <2>2 DEF PreferenceOrder
  <2>3. \/ \E ans \in Answers : Resolved(ans)
        \/ phase' = "race" => UNCHANGED <<config, phase, answer, addrs>>
    BY <1>2 DEF Next, PollRequest, Call, CallService, CallTransport, Fail,
                ConnectionError, Execute, Retry, Peer, Respond, Redirect,
                Timeout, DropConnection, Connection, ConnNext, Resolve,
                ResolveFails, Settle, Tick, PollRace, JoinOk, StartTls,
                JoinError, Exhausted, Deadline, HandshakeTls, TlsDone,
                TlsFails, HandshakeHttp, HttpDone, HttpFails, vars, connVars,
                fixed, End
  <2> QED
    BY <2>1, <2>2, <2>3
<1> QED
  BY <1>1, <1>2, PTL DEF Spec
=============================================================================
