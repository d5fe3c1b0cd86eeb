---------------------------- MODULE ShutdownProps ----------------------------
(***************************************************************************)
(* What the server promises, over the state of GracefulShutdown.           *)
(***************************************************************************)
EXTENDS GracefulShutdown

(* The server is a Draining: it stops when its future is Ready or dropped, *)
(* or when the signal has been passed on, and from then on it neither      *)
(* accepts nor spawns, while tasks already spawned run on (mod.rs:468-509).*)
Abstract == INSTANCE Draining WITH
  phase <- IF ~open \/ at = "ended" THEN "draining" ELSE "serving",
  live  <- Tasks,
  over  <- {c \in Conns : conn[c] = "ended"}

Drained == Abstract!Spec

(* A connection that was accepted stays in the server's hands until it has *)
(* a task: the loop never has two of them, or loses one on its way through *)
(* State::Making, unless the future is dropped (mod.rs:303-331).           *)
Handover ==
  ~dropped => \A c \in Conns :
    conn[c] = "making" => /\ state = "Making"
                          /\ \A d \in Conns : conn[d] = "making" => d = c

(* The server returns Ok because of the signal and nothing else: not when  *)
(* all its connections are closed while it could accept more, which the    *)
(* poll of `finished' would do (mod.rs:444, 516-522).                      *)
StopsForSignal == result = "ok" => signal

(* A request that is being answered is answered, whatever the signal, the  *)
(* future's end or drop do to the server; only its client may cut it short *)
(* ("individual connections will have an opportunity to finish             *)
(* processing", mod.rs:98).                                                *)
ExchangeNotCut ==
  [][\A c \in Conns :
       conn[c] = "busy" /\ conn'[c] # "busy" => TaskResponds(c) \/ left[c]]_vars
-----------------------------------------------------------------------------
(* The signal ends the server, busy as its acceptor may be.                *)
SignalStops == signal ~> at = "ended" \/ dropped

(* When a GracefulShutdown has ended or is dropped, connections that wait  *)
(* for nothing but their client come to an end, whatever they were doing   *)
(* when the close channel closed: in the acceptor, half made, detecting    *)
(* their version, idle or in an exchange.  One that is waiting for its     *)
(* first request to be complete may be kept open by its client.            *)
Drains ==
  (graceful /\ (at = "ended" \/ dropped))
    ~> \A c \in Conns : conn[c] \in {"away", "gone", "ended", "first"}
-----------------------------------------------------------------------------
(* "individual connections will have an opportunity to finish processing   *)
(* before the server stops" (mod.rs:98-99): the future does not end while  *)
(* a connection is still being served.                                     *)
ConnectionsFinishFirst == result = "ok" => Tasks = {}
=============================================================================
