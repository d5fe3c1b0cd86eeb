--------------------------- MODULE IdleListProps ----------------------------
(***************************************************************************)
(* The list of idle connections does what Pool says of it: however a pop() *)
(* interleaves with the clock and with connections that close, it is as if *)
(* it took one step.                                                       *)
(***************************************************************************)
EXTENDS IdleList, FiniteSetsExt

(* The entry has been idle for longer than the timeout, at the time the    *)
(* last pop() looked at the clock.                                         *)
Outlived(entry) ==
  idle_timeout \notin {NONE, 0} /\ entry.at + idle_timeout < asof

(* The list as Pool has it: connections, and how many of them have expired.*)
Host    == "host"
Idles   == [k \in {Host} |-> [i \in 1..Len(inner) |-> inner[i].conn]]
Aged    == {i \in 1..Len(inner) : Outlived(inner[i])}
Expiry  == [k \in {Host} |-> IF Aged = {} THEN 0 ELSE Max(Aged)]
States  == [c \in Connections |-> IF c \in open THEN "ready" ELSE "closed"]

(* The rest of the pool plays no part in it.                               *)
Atomic == INSTANCE Pool WITH
  Reqs <- Connections, Keys <- {Host}, Versions <- {}, Alpn <- {},
  idle <- Idles, expired <- Expiry, st <- States,
  alive <- TRUE, connecting <- {}, waiting <- NONE, lock <- NONE, pc <- NONE,
  key <- NONE, version <- NONE, inner <- NONE, rx <- NONE, box <- NONE,
  raw <- NONE, own <- NONE, kind <- NONE

(* The connections that some pushed and popped, Pool's view of a step.     *)
Pushes(c) ==
  /\ Idles' = [Idles EXCEPT ![Host] = Append(@, c)]
  /\ Expiry' = Expiry /\ returned' = returned

Pops == Atomic!PopIdle(Host) /\ returned' = Atomic!Popped(Host)

(* Some of the entries expire, one after the other, or none.               *)
Ages ==
  /\ Idles' = Idles /\ returned' = returned
  /\ Expiry'[Host] \in Expiry[Host]..Len(Idles[Host])

(* A pop() takes effect when it returns, as Pool's PopIdle: it returns the *)
(* newest open connection that has not outlived the timeout, keeps what is *)
(* older, and clears the list when there is none; until then it only finds *)
(* out which entries have expired (idle.rs:38-79).                         *)
PopsAtOnce ==
  [][IF popping /\ ~popping' THEN Pops
     ELSE Ages \/ \E c \in Connections : Pushes(c)]_vars
=============================================================================
