------------------------------ MODULE Draining ------------------------------
(***************************************************************************)
(* What a server promises about its connections, whatever it consists of:  *)
(* it starts each at most once, and none once it has stopped; those it has *)
(* started go on by themselves and can only end.                           *)
(***************************************************************************)
CONSTANT Conns

VARIABLES
  phase,  (* "serving", then "draining"                                    *)
  live,   (* the connections being served                                  *)
  over    (* those that have ended                                         *)

vars == <<phase, live, over>>

Init ==
  /\ phase = "serving"
  /\ live = {}
  /\ over = {}

Start(c) ==
  /\ phase = "serving"
  /\ c \notin live \cup over
  /\ live' = live \cup {c}
  /\ UNCHANGED <<phase, over>>

End(c) ==
  /\ c \in live
  /\ live' = live \ {c}
  /\ over' = over \cup {c}
  /\ phase' = phase

Stop ==
  /\ phase = "serving"
  /\ phase' = "draining"
  /\ UNCHANGED <<live, over>>

Next == (\E c \in Conns : Start(c) \/ End(c)) \/ Stop

Spec == Init /\ [][Next]_vars
=============================================================================
