--------------------------- MODULE IdleListProofs ---------------------------
(***************************************************************************)
(* A pop() of the idle list is atomic, for any connections, timeouts and   *)
(* clock: whatever closes or expires while it runs, it returns what Pool's *)
(* PopIdle returns at its last step.                                       *)
(***************************************************************************)
EXTENDS IdleListProps, SequenceTheorems, NaturalsInduction,
        WellFoundedInduction, TLAPS

(* Entries are in the order they were pushed, and none is from the future. *)
ByAge ==
  /\ \A i \in 1..Len(inner) : inner[i].at <= now
  /\ \A i, j \in 1..Len(inner) : i <= j => inner[i].at <= inner[j].at

(* What pop() computed from the clock tells who has outlived the timeout.  *)
CutoffIsFair ==
  popping /\ inner # <<>> => \A i \in 1..Len(inner) : Expired(inner[i]) <=> Outlived(inner[i])

(* Entries pop() has gone past were neither expired nor open, and a        *)
(* connection that has closed does not open again.                         *)
Passed ==
  /\ \A i \in (left + 1)..Len(inner) : /\ inner[i].conn \notin open
                                       /\ ~Outlived(inner[i])
  /\ ~popping => left = Len(inner)

IdleInv == TypeOK /\ ByAge /\ CutoffIsFair /\ Passed
-----------------------------------------------------------------------------
LEMMA IdleInit == Init => IdleInv
<1> SUFFICES ASSUME Init PROVE IdleInv
  OBVIOUS
<1>1. inner = <<>> /\ Len(inner) = 0 /\ inner \in Seq(Idle) /\ left = 0
  BY DEF Init
<1>2. TypeOK
  <2>0. popping \in BOOLEAN
    BY DEF Init
  <2>1. left \in 0..Len(inner) /\ asof \in 0..now
    BY <1>1 DEF Init
  <2>2. now \in 0..MaxNow /\ open \in SUBSET Connections
    BY IdleListAssumption DEF Init
  <2> QED
    BY <1>1, <2>0, <2>1, <2>2 DEF Init, TypeOK
<1> QED
  BY <1>1, <1>2 DEF Init, IdleInv, ByAge, CutoffIsFair, Passed

(* A list whose newest entries are taken away.                             *)
LEMMA Shortened ==
  ASSUME NEW s \in Seq(Idle), NEW n \in 0..Len(s)
  PROVE  /\ SubSeq(s, 1, n) \in Seq(Idle) /\ Len(SubSeq(s, 1, n)) = n
         /\ \A i \in 1..n : SubSeq(s, 1, n)[i] = s[i]
<1>1. Len(s) \in Nat /\ n \in Nat
  BY LenProperties
<1>2. \A i \in 1..n : s[i] \in Idle
  BY <1>1, ElementOfSeq
<1> QED
  BY <1>1, <1>2, SubSeqProperties

LEMMA Entries ==
  ASSUME TypeOK
  PROVE  /\ Len(inner) \in Nat
         /\ \A i \in 1..Len(inner) : /\ inner[i] \in Idle
                                     /\ inner[i].at \in Nat
                                     /\ inner[i].conn \in Connections
<1>1. Len(inner) \in Nat /\ \A i \in 1..Len(inner) : inner[i] \in Idle
  BY LenProperties, ElementOfSeq DEF TypeOK
<1> QED
  BY <1>1 DEF Idle

LEMMA IdleStep == IdleInv /\ [Next]_vars => IdleInv'
<1> SUFFICES ASSUME IdleInv, [Next]_vars PROVE IdleInv'
  OBVIOUS
<1>0. /\ TypeOK /\ ByAge /\ CutoffIsFair /\ Passed
      /\ Len(inner) \in Nat /\ now \in Nat /\ asof \in Nat /\ asof <= now
      /\ \A i \in 1..Len(inner) : /\ inner[i] \in Idle
                                  /\ inner[i].at \in Nat /\ inner[i].conn \in Connections
  BY Entries, IdleListAssumption DEF IdleInv, TypeOK
<1> USE DEF IdleInv
<1>1. CASE Pop
  <2>1. TypeOK'
    <3>1. Cutoff \in Nat \cup {NONE}
      BY <1>0, IdleListAssumption DEF TypeOK, Cutoff
    <3> QED
      BY <1>0, <1>1, <3>1 DEF TypeOK, Pop
  <2>2. ByAge'
    BY <1>0, <1>1 DEF ByAge, Pop
  <2>3. CutoffIsFair'
    <3> SUFFICES ASSUME inner # <<>>, NEW i \in 1..Len(inner)
                 PROVE  Expired(inner[i])' <=> Outlived(inner[i])'
      BY <1>1 DEF CutoffIsFair, Pop
    <3>1. exipred' = Cutoff /\ asof' = now /\ UNCHANGED <<idle_timeout, inner>>
      BY <1>1 DEF Pop
    <3>2. inner[i].at \in Nat /\ inner[i].at <= now
      BY <1>0 DEF ByAge
    <3>3. idle_timeout \in Nat \cup {NONE}
      BY <1>0, IdleListAssumption DEF TypeOK
    <3>4. Expired(inner[i])' <=> (Cutoff # NONE /\ inner[i].at < Cutoff)
      BY <3>1 DEF Expired
    <3>5. Outlived(inner[i])'
            <=> (idle_timeout \notin {NONE, 0} /\ inner[i].at + idle_timeout < now)
      BY <3>1 DEF Outlived
    <3> QED
      BY <1>0, <3>2, <3>3, <3>4, <3>5, IdleListAssumption DEF Cutoff
  <2>4. Passed'
    BY <1>0, <1>1 DEF Passed, Pop
  <2> QED
    BY <2>1, <2>2, <2>3, <2>4
<1>2. ASSUME NEW n \in 0..Len(inner), NEW c \in Connections \cup {NONE}, Return(n, c)
      PROVE  IdleInv'
  <2>1. /\ inner' \in Seq(Idle) /\ Len(inner') = n /\ left' = n
        /\ \A i \in 1..n : inner'[i] = inner[i]
    BY <1>0, <1>2, Shortened DEF TypeOK, Return
  <2>2. /\ UNCHANGED <<now, idle_timeout, open, exipred, asof>>
        /\ popping' = FALSE /\ returned' = c /\ n \in Nat /\ n <= Len(inner)
    BY <1>0, <1>2 DEF Return
  <2>3. TypeOK'
    <3>1. popping' \in BOOLEAN
      BY <2>2
    <3>2. left' \in 0..Len(inner')
      BY <2>1, <2>2
    <3> QED
      BY <1>0, <2>1, <2>2, <3>1, <3>2 DEF TypeOK
  <2>4. ByAge'
    <3>1. \A i \in 1..n : i \in 1..Len(inner) /\ inner'[i] = inner[i]
      BY <1>0, <2>1, <2>2
    <3> QED
      BY <1>0, <2>1, <2>2, <3>1 DEF ByAge
  <2>5. CutoffIsFair' /\ Passed'
    BY <2>1, <2>2 DEF CutoffIsFair, Passed
  <2> QED
    BY <2>3, <2>4, <2>5
<1>3. CASE FindExpired
  BY <1>0, <1>2, <1>3 DEF FindExpired
<1>4. CASE FindOpen
  <2>1. left \in 1..Len(inner) /\ left - 1 \in 0..Len(inner)
    BY <1>0, <1>4 DEF FindOpen, TypeOK
  <2> QED
    BY <1>0, <1>2, <1>4, <2>1 DEF FindOpen
<1>5. CASE FindClosed
  <2>1. left \in 1..Len(inner) /\ inner # <<>>
    BY <1>0, <1>5 DEF FindClosed, TypeOK
  <2>2. ~Outlived(inner[left])
    BY <1>0, <1>5, <2>1 DEF FindClosed, CutoffIsFair
  <2> QED
    BY <1>0, <1>5, <2>1, <2>2
       DEF FindClosed, TypeOK, ByAge, CutoffIsFair, Passed, Expired, Outlived
<1>6. CASE FindNone
  BY <1>0, <1>2, <1>6 DEF FindNone
<1>7. CASE Tick
  BY <1>0, <1>7, IdleListAssumption
     DEF Tick, TypeOK, ByAge, CutoffIsFair, Passed, Expired, Outlived
<1>8. ASSUME NEW c \in Connections, Push(c) PROVE IdleInv'
  <2> DEFINE e == [at |-> now, conn |-> c]
  <2>1. e \in Idle /\ e.at = now /\ inner' = Append(inner, e) /\ left' = left + 1
        /\ left = Len(inner) /\ ~popping'
    BY <1>0, <1>8 DEF Push, Idle, Passed
  <2> HIDE DEF e
  <2>2. /\ inner' \in Seq(Idle) /\ Len(inner') = Len(inner) + 1
        /\ \A i \in 1..Len(inner) : inner'[i] = inner[i]
        /\ inner'[Len(inner) + 1] = e
    BY <1>0, <2>1, AppendProperties DEF TypeOK
  <2>3. TypeOK'
    BY <1>0, <1>8, <2>1, <2>2 DEF TypeOK, Push
  <2>4. ByAge'
    <3>1. \A i \in 1..Len(inner') : i \in 1..Len(inner) \/ i = Len(inner) + 1
      BY <1>0, <2>2
    <3> QED
      BY <1>0, <1>8, <2>1, <2>2, <3>1 DEF ByAge, Push
  <2>5. Passed' /\ CutoffIsFair'
    BY <1>0, <2>1, <2>2 DEF Passed, CutoffIsFair
  <2> QED
    BY <2>3, <2>4, <2>5
<1>9. ASSUME NEW c \in Connections, Close(c) PROVE IdleInv'
  BY <1>0, <1>9 DEF Close, TypeOK, ByAge, CutoffIsFair, Passed, Expired,
     Outlived
<1>10. CASE UNCHANGED vars
  BY <1>0, <1>10 DEF vars, TypeOK, ByAge, CutoffIsFair, Passed, Expired,
     Outlived
<1> QED
  BY <1>1, <1>3, <1>4, <1>5, <1>6, <1>7, <1>8, <1>9, <1>10 DEF Next
-----------------------------------------------------------------------------
(* What the maximum of a set of naturals is.                               *)
LEMMA MaxIs ==
  ASSUME NEW S, S \subseteq Nat, NEW m \in S, \A i \in S : i <= m
  PROVE  Max(S) = m /\ Atomic!Max(S) = m
<1>1. \A x \in S : (\A i \in S : x >= i) => x = m
  OBVIOUS
<1> QED
  BY <1>1 DEF Max, Atomic!Max

(* A set of indexes has a last one.                                        *)
LEMMA LastOne ==
  ASSUME NEW n \in Nat, NEW S \in SUBSET (1..n), S # {}
  PROVE  \E m \in S : \A i \in S : i <= m
<1> DEFINE T == {n - i : i \in S}
           R == OpToRel(<, Nat)
<1>1. \A i \in S : i \in Nat /\ n - i \in Nat
  <2> SUFFICES ASSUME NEW i \in S PROVE i \in Nat /\ n - i \in Nat
    OBVIOUS
  <2>1. i \in 1..n
    OBVIOUS
  <2> QED
    BY <2>1
<1>2. T \subseteq Nat
  BY <1>1
<1>3. T # {}
  <2>1. PICK i \in S : TRUE
    OBVIOUS
  <2>2. n - i \in T
    OBVIOUS
  <2> QED
    BY <2>2
<1>4. IsWellFoundedOn(R, Nat)
  BY NatLessThanWellFounded
<1> HIDE DEF T, R
<1>5. PICK m \in T : \A t \in T : ~(<<t, m>> \in R)
  BY <1>2, <1>3, <1>4, WFMin
<1>6. \A t \in T : m <= t
  <2> TAKE t \in T
  <2>1. ~(t < m)
    BY <1>2, <1>5 DEF OpToRel, R
  <2> QED
    BY <1>2, <2>1
<1>7. PICK j \in S : m = n - j
  BY DEF T
<1>8. ASSUME NEW i \in S PROVE i <= j
  <2>1. n - i \in T
    BY DEF T
  <2>2. n - j <= n - i
    BY <1>6, <1>7, <2>1
  <2> QED
    BY <1>1, <2>2
<1> QED
  BY <1>8

(* Pool's view of the list: so many entries have expired, and they are the *)
(* oldest, because entries are in the order of their age.                  *)
ExpiryCounts ==
  /\ Expiry[Host] \in 0..Len(inner)
  /\ \A i \in 1..Len(inner) : Outlived(inner[i]) <=> i <= Expiry[Host]

LEMMA OldestExpire == IdleInv => ExpiryCounts
<1> SUFFICES ASSUME IdleInv PROVE ExpiryCounts
  OBVIOUS
<1> DEFINE n == Len(inner)
<1>1. n \in Nat /\ \A i \in 1..n : inner[i].at \in Nat
  BY Entries DEF IdleInv
<1>2. \A i, j \in 1..n : i <= j /\ Outlived(inner[j]) => Outlived(inner[i])
  <2> SUFFICES ASSUME NEW i \in 1..n, NEW j \in 1..n, i <= j, Outlived(inner[j])
               PROVE  Outlived(inner[i])
    OBVIOUS
  <2>1. inner[i].at <= inner[j].at /\ inner[i].at \in Nat /\ inner[j].at \in Nat
    BY <1>1 DEF IdleInv, ByAge
  <2>2. idle_timeout \in Nat /\ asof \in Nat
    BY IdleListAssumption DEF IdleInv, TypeOK, Outlived
  <2> QED
    BY <2>1, <2>2 DEF Outlived
<1>3. CASE Aged = {}
  <2>1. Expiry[Host] = 0
    BY <1>3 DEF Expiry
  <2> QED
    BY <1>1, <1>3, <2>1 DEF Aged, ExpiryCounts
<1>4. CASE Aged # {}
  <2>1. PICK m \in Aged : \A i \in Aged : i <= m
    BY <1>1, <1>4, LastOne DEF Aged
  <2>2. Expiry[Host] = m
    <3>1. Aged \subseteq Nat
      BY <1>1 DEF Aged
    <3> QED
      BY <1>4, <2>1, <3>1, MaxIs DEF Expiry
  <2> QED
    BY <1>1, <1>2, <2>1, <2>2 DEF Aged, ExpiryCounts
<1> QED
  BY <1>3, <1>4

LEMMA IdlesAre ==
  ASSUME IdleInv
  PROVE  /\ Idles[Host] \in Seq(Connections) /\ Len(Idles[Host]) = Len(inner)
         /\ \A i \in 1..Len(inner) : Idles[Host][i] = inner[i].conn
<1>1. Len(inner) \in Nat /\ \A i \in 1..Len(inner) : inner[i].conn \in Connections
  BY Entries DEF IdleInv
<1> QED
  BY <1>1 DEF Idles

(* The same entries have expired when no other bound does for them.        *)
LEMMA SameCount ==
  ASSUME NEW n \in Nat, NEW e \in 0..n, NEW f \in 0..n,
         \A i \in 1..n : i <= e <=> i <= f
  PROVE  e = f
<1>1. e # 0 => e <= f
  OBVIOUS
<1>2. f # 0 => f <= e
  OBVIOUS
<1> QED
  BY <1>1, <1>2

(* Who is left to return: an entry that has not expired and is open.       *)
LEMMA UsableAre ==
  ASSUME IdleInv, ExpiryCounts
  PROVE  Atomic!Usable(Host)
           = {i \in 1..Len(inner) : ~Outlived(inner[i]) /\ inner[i].conn \in open}
<1>1. Len(inner) \in Nat /\ \A i \in 1..Len(inner) : inner[i].conn \in Connections
  BY Entries DEF IdleInv
<1>2. \A i \in 1..Len(inner) : Atomic!IsOpen(Idles[Host][i]) <=> inner[i].conn \in open
  BY <1>1, IdlesAre DEF Atomic!IsOpen, States
<1>3. \A i \in Int : i \in (Expiry[Host] + 1)..Len(inner)
                       <=> i \in 1..Len(inner) /\ ~(i <= Expiry[Host])
  BY <1>1 DEF ExpiryCounts
<1>4. \A i \in 1..Len(inner) : Outlived(inner[i]) <=> i <= Expiry[Host]
  BY DEF ExpiryCounts
<1> QED
  BY <1>1, <1>2, <1>3, <1>4, IdlesAre DEF Atomic!Usable

(* Nothing is usable: the list is cleared.                                 *)
LEMMA Cleared ==
  ASSUME IdleInv, ExpiryCounts, ExpiryCounts', Return(0, NONE),
         \A i \in 1..Len(inner) : Outlived(inner[i]) \/ inner[i].conn \notin open
  PROVE  Pops
<1>1. Atomic!Usable(Host) = {}
  BY UsableAre
<1>2. inner' = <<>> /\ Len(inner') = 0
  <2>1. Len(SubSeq(inner, 1, 0)) = 0 /\ SubSeq(inner, 1, 0) \in Seq(Idle)
    <3>1. 0 \in 0..Len(inner)
      BY Entries DEF IdleInv
    <3> QED
      BY <3>1, Shortened DEF IdleInv, TypeOK
  <2> QED
    BY <2>1, EmptySeq DEF Return
<1>3. Expiry' = [Expiry EXCEPT ![Host] = 0]
  <2>1. Expiry'[Host] = 0
    BY <1>2 DEF ExpiryCounts
  <2> QED
    BY <2>1 DEF Expiry
<1>4. Idles' = [Idles EXCEPT ![Host] = <<>>]
  BY <1>2 DEF Idles
<1> QED
  BY <1>1, <1>3, <1>4
     DEF Pops, Return, Atomic!PopIdle, Atomic!Popped, Atomic!Remaining

(* The loop stops at the newest of the usable entries.                     *)
LEMMA Found ==
  ASSUME IdleInv, ExpiryCounts, ExpiryCounts', FindOpen
  PROVE  Pops
<1> DEFINE n == Len(inner)
<1>0. left \in 1..n /\ n \in Nat /\ left \in Nat /\ left - 1 \in 0..n
      /\ \A i \in 1..n : inner[i].conn \in Connections
  BY Entries DEF IdleInv, TypeOK, FindOpen
<1>1. left \in Atomic!Usable(Host) /\ \A i \in Atomic!Usable(Host) : i <= left
  <2>1. ~Outlived(inner[left]) /\ inner[left].conn \in open
    BY <1>0 DEF FindOpen, IdleInv, CutoffIsFair
  <2>2. \A i \in 1..n : i \in (left + 1)..n => inner[i].conn \notin open
    BY DEF IdleInv, Passed
  <2>3. \A i \in 1..n : inner[i].conn \in open => i <= left
    BY <1>0, <2>2
  <2> QED
    BY <1>0, <2>1, <2>3, UsableAre
<1>2. Atomic!Max(Atomic!Usable(Host)) = left
  <2>1. Atomic!Usable(Host) \subseteq Nat
    BY <1>0, UsableAre
  <2> QED
    BY <1>1, <2>1, MaxIs
<1>3. Atomic!Popped(Host) = inner[left].conn
  BY <1>0, <1>1, <1>2, IdlesAre DEF Atomic!Popped
<1>4. /\ inner' \in Seq(Idle) /\ Len(inner') = left - 1
      /\ \A i \in 1..(left - 1) : inner'[i] = inner[i]
  <2>1. inner' = SubSeq(inner, 1, left - 1)
    BY DEF FindOpen, Return
  <2> QED
    BY <1>0, <2>1, Shortened DEF IdleInv, TypeOK
<1>5. Idles' = [Idles EXCEPT ![Host] = Atomic!Remaining(Host)]
  <2>1. Atomic!Remaining(Host) = SubSeq(Idles[Host], 1, left - 1)
    BY <1>1, <1>2 DEF Atomic!Remaining
  <2>2. SubSeq(Idles[Host], 1, left - 1) = [i \in 1..(left - 1) |-> Idles[Host][i]]
    BY <1>0, IdlesAre
  <2>3. Idles'[Host] = [i \in 1..(left - 1) |-> inner[i].conn]
    BY <1>4 DEF Idles
  <2>4. \A i \in 1..(left - 1) : Idles[Host][i] = inner[i].conn
    BY <1>0, IdlesAre
  <2>5. Idles'[Host] = Atomic!Remaining(Host)
    BY <2>1, <2>2, <2>3, <2>4
  <2> QED
    BY <2>5 DEF Idles
<1>6. Expiry' = Expiry
  <2>1. Expiry[Host] \in 0..(left - 1)
    BY <1>0, <1>1, UsableAre DEF ExpiryCounts
  <2>2. Expiry'[Host] \in 0..(left - 1)
    BY <1>4 DEF ExpiryCounts
  <2>3. \A i \in 1..(left - 1) : i <= Expiry'[Host] <=> i <= Expiry[Host]
    BY <1>0, <1>4 DEF ExpiryCounts, Outlived, FindOpen, Return
  <2>4. Expiry'[Host] = Expiry[Host]
    BY <1>0, <2>1, <2>2, <2>3, SameCount
  <2> QED
    BY <2>4 DEF Expiry
<1>7. Expiry' = [Expiry EXCEPT ![Host] = Expiry[Host]]
  BY <1>6 DEF Expiry
<1> QED
  BY <1>1, <1>3, <1>5, <1>7 DEF Pops, FindOpen, Return, Atomic!PopIdle

(* The same entries, and later perhaps: more of them have expired.         *)
LEMMA Older ==
  ASSUME IdleInv, ExpiryCounts, ExpiryCounts', UNCHANGED <<inner, idle_timeout, returned>>,
         asof' \in Nat, asof <= asof'
  PROVE  Ages
<1>1. /\ Len(inner) \in Nat /\ \A i \in 1..Len(inner) : inner[i].at \in Nat
      /\ asof \in Nat /\ idle_timeout \in Nat \cup {NONE}
      /\ Len(Idles[Host]) = Len(inner)
  BY Entries, IdlesAre, IdleListAssumption DEF IdleInv, TypeOK
<1>2. \A i \in 1..Len(inner) : Outlived(inner[i]) => Outlived(inner[i])'
  BY <1>1 DEF Outlived
<1> DEFINE e == Expiry[Host]
           f == Expiry'[Host]
<1>3. /\ e \in 0..Len(inner) /\ f \in 0..Len(inner)
      /\ \A i \in 1..Len(inner) : i <= e => i <= f
  BY <1>2 DEF ExpiryCounts
<1> HIDE DEF e, f
<1>4. f \in e..Len(inner)
  <2>1. e # 0 => e \in 1..Len(inner)
    BY <1>3
  <2> QED
    BY <1>1, <1>3, <2>1
<1>5. Idles' = Idles
  BY DEF Idles
<1> QED
  BY <1>1, <1>4, <1>5 DEF Ages, e, f

(* A connection that becomes idle is the newest, and has not expired.      *)
LEMMA Newest ==
  ASSUME IdleInv, ExpiryCounts, ExpiryCounts', NEW c \in Connections, Push(c)
  PROVE  Pushes(c)
<1> DEFINE n == Len(inner)
<1>1. /\ n \in Nat /\ now \in Nat /\ asof \in Nat /\ asof <= now
      /\ idle_timeout \in Nat \cup {NONE} /\ inner \in Seq(Idle)
  BY Entries, IdleListAssumption DEF IdleInv, TypeOK
<1>2. PICK e \in Idle : e.at = now /\ e.conn = c /\ inner' = Append(inner, e)
  BY <1>1 DEF Push, Idle
<1>3. /\ Len(inner') = n + 1 /\ inner'[n + 1] = e
      /\ \A i \in 1..n : inner'[i] = inner[i]
  BY <1>1, <1>2, AppendProperties
<1>4. Idles' = [Idles EXCEPT ![Host] = Append(Idles[Host], c)]
  <2>1. Idles'[Host] = [i \in 1..(n + 1) |-> inner'[i].conn]
    BY <1>3 DEF Idles
  <2>2. /\ Len(Idles[Host]) = n /\ Idles[Host] \in Seq(Connections)
        /\ \A i \in 1..n : Idles[Host][i] = inner[i].conn
    BY IdlesAre
  <2>3. Append(Idles[Host], c)
          = [i \in 1..(n + 1) |-> IF i = n + 1 THEN c ELSE Idles[Host][i]]
    BY <2>2
  <2>4. \A i \in 1..(n + 1) :
          inner'[i].conn = IF i = n + 1 THEN c ELSE Idles[Host][i]
    <3>1. \A i \in 1..(n + 1) : i # n + 1 => i \in 1..n
      BY <1>1
    <3> QED
      BY <1>2, <1>3, <2>2, <3>1
  <2>5. Idles'[Host] = Append(Idles[Host], c)
    BY <2>1, <2>3, <2>4
  <2> QED
    BY <2>5 DEF Idles
<1>5. Expiry' = Expiry
  <2>1. ~Outlived(e)' /\ UNCHANGED <<idle_timeout, asof>>
    BY <1>1, <1>2 DEF Outlived, Push
  <2>2. Expiry'[Host] \in 0..n
    <3>1. Expiry'[Host] \in 0..(n + 1) /\ ~(n + 1 <= Expiry'[Host])
      <4>1. PICK m \in 1..Len(inner') : m = n + 1 /\ inner'[m] = e
        BY <1>1, <1>3
      <4>2. ~Outlived(inner[m])'
        BY <2>1, <4>1 DEF Outlived
      <4> QED
        BY <1>3, <4>1, <4>2 DEF ExpiryCounts
    <3> QED
      BY <1>1, <3>1
  <2>3. \A i \in 1..n : i <= Expiry'[Host] <=> i <= Expiry[Host]
    <3>1. \A i \in 1..n : i \in 1..(n + 1)
      BY <1>1
    <3> QED
      BY <1>3, <2>1, <3>1 DEF ExpiryCounts, Outlived
  <2>4. Expiry'[Host] = Expiry[Host]
    BY <1>1, <2>2, <2>3, SameCount DEF ExpiryCounts
  <2> QED
    BY <2>4 DEF Expiry
<1> QED
  BY <1>4, <1>5 DEF Pushes, Push

LEMMA AtomicStep ==
  ASSUME IdleInv, ExpiryCounts, ExpiryCounts', [Next]_vars
  PROVE  IF popping /\ ~popping' THEN Pops
         ELSE Ages \/ \E c \in Connections : Pushes(c)
<1>1. now \in Nat /\ asof \in Nat /\ asof <= now
  BY IdleListAssumption DEF IdleInv, TypeOK
<1>2. CASE Pop
  <2>1. asof' \in Nat /\ asof <= asof'
    BY <1>1, <1>2 DEF Pop
  <2> QED
    BY <1>2, <2>1, Older DEF Pop
<1>3. CASE FindExpired
  <2>1. left \in 1..Len(inner) /\ Outlived(inner[left])
    BY <1>3, Entries DEF FindExpired, IdleInv, TypeOK, CutoffIsFair
  <2>2. \A i \in 1..Len(inner) : i <= left \/ i \in (left + 1)..Len(inner)
    BY <2>1
  <2>3. \A i \in 1..Len(inner) : i <= left => Outlived(inner[i])
    BY <2>1 DEF ExpiryCounts
  <2>4. \A i \in 1..Len(inner) : Outlived(inner[i]) \/ inner[i].conn \notin open
    BY <2>2, <2>3 DEF IdleInv, Passed
  <2>5. Return(0, NONE)
    BY <1>3 DEF FindExpired
  <2>6. Pops
    BY <2>4, <2>5, Cleared
  <2> QED
    BY <1>3, <2>6 DEF FindExpired, Return
<1>4. CASE FindOpen
  BY <1>4, Found DEF FindOpen, Return
<1>5. CASE FindClosed
  BY <1>1, <1>5, Older DEF FindClosed
<1>6. CASE FindNone
  <2>1. \A i \in 1..Len(inner) : inner[i].conn \notin open
    BY <1>6 DEF FindNone, IdleInv, Passed
  <2>2. Return(0, NONE)
    BY <1>6 DEF FindNone
  <2>3. Pops
    BY <2>1, <2>2, Cleared
  <2> QED
    BY <1>6, <2>3 DEF FindNone, Return
<1>7. CASE Tick
  BY <1>1, <1>7, Older DEF Tick
<1>8. ASSUME NEW c \in Connections, Push(c) PROVE Pushes(c) /\ ~popping
  BY <1>8, Newest DEF Push
<1>9. ASSUME NEW c \in Connections, Close(c) PROVE Ages /\ popping' = popping
  BY <1>1, <1>9, Older DEF Close
<1>10. CASE UNCHANGED vars
  BY <1>1, <1>10, Older DEF vars
<1> QED
  BY <1>2, <1>3, <1>4, <1>5, <1>6, <1>7, <1>8, <1>9, <1>10 DEF Next

(* The list keeps its types, is in the order of age, and what pop() makes  *)
(* of the clock is who has outlived the timeout (idle.rs:13-20, 38-60).    *)
THEOREM EntriesInOrder == Spec => [](TypeOK /\ ByAge /\ CutoffIsFair)
<1>1. Spec => []IdleInv
  BY IdleInit, IdleStep, PTL DEF Spec
<1>2. IdleInv => TypeOK /\ ByAge /\ CutoffIsFair
  BY DEF IdleInv
<1> QED
  BY <1>1, <1>2, PTL

(* A pop() is as if it took one step, when it returns (idle.rs:38-79).     *)
THEOREM PopIsAtomic == Spec => PopsAtOnce
<1>1. Spec => []IdleInv
  BY IdleInit, IdleStep, PTL DEF Spec
<1>2. IdleInv /\ ExpiryCounts /\ ExpiryCounts' /\ [Next]_vars
        => [IF popping /\ ~popping' THEN Pops
            ELSE Ages \/ \E c \in Connections : Pushes(c)]_vars
  BY AtomicStep
<1> QED
  BY <1>1, <1>2, OldestExpire, PTL DEF Spec, PopsAtOnce
=============================================================================
