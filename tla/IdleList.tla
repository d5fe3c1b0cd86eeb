------------------------------ MODULE IdleList ------------------------------
(***************************************************************************)
(* The idle connections of one host (src/src/client/pool/idle.rs), with    *)
(* the time they became idle.  A pop() samples the clock once and then     *)
(* takes entries out of the list one by one; the pool's mutex keeps other  *)
(* calls out of the list, but the clock goes on and connections close      *)
(* between its steps.                                                      *)
(***************************************************************************)
EXTENDS Integers, Sequences

CONSTANTS
  Connections,   (* the connections                                        *)
  IdleTimeouts,  (* what Config::idle_timeout may be, NONE among others    *)
  MaxNow,        (* the clock stops here: the bound of the model           *)
  NONE           (* no connection, no duration, no Instant                 *)

ASSUME IdleListAssumption ==
  /\ NONE \notin Connections /\ NONE \notin Nat
  /\ IdleTimeouts \subseteq Nat \cup {NONE}
  /\ MaxNow \in Nat

VARIABLES
  now,           (* Instant::now(), from the first one there is            *)
  idle_timeout,  (* the pool's Config::idle_timeout                        *)
  inner,         (* the entries, those that pop() is taking out included   *)
  left,          (* how many entries pop() has not taken out yet           *)
  open,          (* the connections that are open                          *)
  popping,       (* a call of pop() is in progress                         *)
  exipred,       (* its local: entries from before this have expired       *)
  returned,      (* what the last pop() returned                           *)
  asof           (* history: when the last pop() of entries began          *)

vars == <<now, idle_timeout, inner, left, open, popping, exipred, returned, asof>>

(* An Idle: the connection, and when it became idle.                       *)
Idle == [at : Nat, conn : Connections]

TypeOK ==
  /\ now \in 0..MaxNow
  /\ idle_timeout \in IdleTimeouts
  /\ inner \in Seq(Idle)
  /\ left \in 0..Len(inner)
  /\ open \in SUBSET Connections
  /\ popping \in BOOLEAN
  /\ exipred \in Nat \cup {NONE}
  /\ returned \in Connections \cup {NONE}
  /\ asof \in 0..now
-----------------------------------------------------------------------------
Init ==
  /\ now = 0
  /\ idle_timeout \in IdleTimeouts
  /\ inner = <<>>
  /\ left = 0
  /\ open = Connections
  /\ popping = FALSE
  /\ exipred = NONE
  /\ returned = NONE
  /\ asof = 0

(* A connection becomes idle.                                              *)
Push(c) ==
  /\ ~popping
  /\ \A i \in 1..Len(inner) : inner[i].conn # c
  /\ inner' = Append(inner, [at |-> now, conn |-> c])
  /\ left' = left + 1
  /\ UNCHANGED <<now, idle_timeout, open, popping, exipred, returned, asof>>

CutoffAnyTimeout ==          (* mutant: a timeout of zero is one like any other *)
  IF idle_timeout = NONE \/ now < idle_timeout THEN NONE ELSE now - idle_timeout

(* The Instant before which entries have expired: none without a timeout,  *)
(* with one of zero, or when it would be before the first Instant.         *)
Cutoff ==
  IF idle_timeout = NONE \/ idle_timeout = 0 \/ now < idle_timeout THEN NONE
  ELSE now - idle_timeout

(* pop() begins.  There is no need for the clock when the list is empty.   *)
Pop ==
  /\ ~popping
  /\ popping' = TRUE
  /\ IF inner = <<>> THEN exipred' = NONE /\ asof' = asof
                     ELSE exipred' = Cutoff /\ asof' = now
  /\ UNCHANGED <<now, idle_timeout, inner, left, open, returned>>

Expired(entry) == exipred # NONE /\ entry.at < exipred

(* pop() returns conn and leaves the first n entries.                      *)
Return(n, conn) ==
  /\ inner' = SubSeq(inner, 1, n)
  /\ left' = n
  /\ popping' = FALSE
  /\ returned' = conn
  /\ UNCHANGED <<now, idle_timeout, open, exipred, asof>>

(* The loop: the newest entry left has expired, and so all the others: the *)
(* list is cleared.                                                        *)
FindExpired ==
  /\ popping /\ left > 0
  /\ Expired(inner[left])
  /\ Return(0, NONE)

FindOpen ==
  /\ popping /\ left > 0
  /\ ~Expired(inner[left])
  /\ inner[left].conn \in open
  /\ Return(left - 1, inner[left].conn)

(* It has closed: drop it and go on.                                       *)
FindClosed ==
  /\ popping /\ left > 0
  /\ ~Expired(inner[left])
  /\ inner[left].conn \notin open
  /\ left' = left - 1
  /\ UNCHANGED <<now, idle_timeout, inner, open, popping, exipred, returned, asof>>

FindNone ==
  /\ popping /\ left = 0
  /\ Return(0, NONE)

Tick ==
  /\ now < MaxNow
  /\ now' = now + 1
  /\ UNCHANGED <<idle_timeout, inner, left, open, popping, exipred, returned, asof>>

(* The peer closes a connection, or it breaks.                             *)
Close(c) ==
  /\ c \in open
  /\ open' = open \ {c}
  /\ UNCHANGED <<now, idle_timeout, inner, left, popping, exipred, returned, asof>>

Next ==
  \/ Pop \/ FindExpired \/ FindOpen \/ FindClosed \/ FindNone
  \/ Tick
  \/ \E c \in Connections : Push(c) \/ Close(c)

Spec == Init /\ [][Next]_vars
=============================================================================
