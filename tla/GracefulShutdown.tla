-------------------------- MODULE GracefulShutdown --------------------------
(***************************************************************************)
(* The server (src/src/server/mod.rs): the accept loop as the plain        *)
(* Serving future and as GracefulShutdown, the task spawned for every      *)
(* connection, and the two watch channels between them.                    *)
(*                                                                         *)
(* The loop runs on one thread and every connection task on another, and   *)
(* clients and the shutdown signal take no part in either, so the loop is  *)
(* a step for each future it polls.  A connection task owns its            *)
(* connection: from the shutdown branch of its select! it goes on to poll  *)
(* the connection again before anybody else can, so that is one step.      *)
(***************************************************************************)
CONSTANTS
  Conns,     (* the connections clients may open                           *)
  Graceful   (* the ways to run the server: TRUE with_graceful_shutdown    *)

ASSUME ServerAssumption == Graceful \subseteq BOOLEAN

VARIABLES
  graceful,  (* the future is a GracefulShutdown, not a Serving            *)
  at,        (* the future its loop polls next, or "ended" once it is Ready*)
  state,     (* Serving.state                                              *)
  result,    (* what the future returned                                   *)
  signal,    (* the shutdown signal has resolved                           *)
  open,      (* GracefulShutdown.shutdown holds its receiver: `channel'    *)
             (* and the clones in the tasks do not see closed() yet        *)
  dropped,   (* the server's future has been dropped                       *)
  conn,      (* where each connection is                                   *)
  told,      (* its task has seen closed(); the branch is fused            *)
  left       (* its client has gone                                        *)

loopVars   == <<at, state, result>>
clientVars == <<graceful, signal, left>>
vars == <<graceful, at, state, result, signal, open, dropped, conn, told, left>>

(* A connection waits in the acceptor, then with the future that makes its *)
(* service, and then has a task: detecting the version, waiting for the    *)
(* first request to be complete, idle between requests, or answering one.  *)
Running == {"version", "first", "idle", "busy"}
Tasks == {c \in Conns : conn[c] \in Running}

TypeOK ==
  /\ graceful \in BOOLEAN
  /\ at \in {"signal", "once", "finished", "ended"}
  /\ state \in {"Preparing", "Accepting", "Making"}
  /\ result \in {"none", "ok", "error"}
  /\ (result = "none") = (at # "ended")
  /\ signal \in BOOLEAN /\ open \in BOOLEAN /\ dropped \in BOOLEAN
  /\ conn \in [Conns -> Running \cup {"away", "queued", "making", "ended", "gone"}]
  /\ told \in [Conns -> BOOLEAN]
  /\ left \in [Conns -> BOOLEAN]

(* The first future either loop polls: Serving has no signal.              *)
Top(g) == IF g THEN "signal" ELSE "once"

Init ==
  /\ graceful \in Graceful
  /\ at = Top(graceful)
  /\ state = "Preparing"
  /\ result = "none"
  /\ signal = FALSE
  /\ open = TRUE
  /\ dropped = FALSE
  /\ conn = [c \in Conns |-> "away"]
  /\ told = [c \in Conns |-> FALSE]
  /\ left = [c \in Conns |-> FALSE]
-----------------------------------------------------------------------------
(* The loop                                                                *)

ReturnNothing(r) ==       (* mutant: the result is lost *)
  at' = "ended" /\ result' = result

(* The future is Ready.                                                    *)
Return(r) == at' = "ended" /\ result' = r

(* poll_once gave Ok(..): poll `finished', or start over.                  *)
GoOn == at' = (IF graceful THEN "finished" ELSE Top(graceful)) /\ result' = result

NotSignalled ==
  /\ at = "signal" /\ ~dropped
  /\ ~signal
  /\ at' = "once"
  /\ UNCHANGED <<state, result, open, dropped, conn, told, clientVars>>

SignalledGoesOn ==        (* mutant: the loop goes on after the signal *)
  /\ at = "signal" /\ ~dropped
  /\ signal
  /\ open' = FALSE
  /\ at' = "once"
  /\ UNCHANGED <<state, result, dropped, conn, told, clientVars>>

(* The signal: tell the connections, and return at once.                   *)
Signalled ==
  /\ at = "signal" /\ ~dropped
  /\ signal
  /\ open' = FALSE
  /\ Return("ok")
  /\ UNCHANGED <<state, dropped, conn, told, clientVars>>

(* poll_once: the make-service is not ready, there is nothing to accept, or*)
(* the service is not made yet.                                            *)
OncePending ==
  /\ at = "once" /\ ~dropped
  /\ state = "Accepting" => \A c \in Conns : conn[c] # "queued"
  /\ at' = Top(graceful)
  /\ UNCHANGED <<state, result, open, dropped, conn, told, clientVars>>

(* poll_ready_ref, poll_accept or the service's future gave an error.      *)
OnceFails ==
  /\ at = "once" /\ ~dropped
  /\ Return("error")
  /\ UNCHANGED <<state, open, dropped, conn, told, clientVars>>

Prepared ==
  /\ at = "once" /\ ~dropped
  /\ state = "Preparing"
  /\ state' = "Accepting"
  /\ GoOn
  /\ UNCHANGED <<open, dropped, conn, told, clientVars>>

AcceptInPassing(c) ==     (* mutant: accepting does not wait for the service *)
  /\ at = "once" /\ ~dropped
  /\ state = "Accepting"
  /\ conn[c] = "queued"
  /\ conn' = [conn EXCEPT ![c] = "making"]
  /\ GoOn
  /\ UNCHANGED <<state, open, dropped, told, clientVars>>

Accepted(c) ==
  /\ at = "once" /\ ~dropped
  /\ state = "Accepting"
  /\ conn[c] = "queued"
  /\ state' = "Making"
  /\ conn' = [conn EXCEPT ![c] = "making"]
  /\ GoOn
  /\ UNCHANGED <<open, dropped, told, clientVars>>

(* The service is made: the connection is spawned with clones of the close *)
(* channels, and the server prepares for the next one.                     *)
Spawned(c) ==
  /\ at = "once" /\ ~dropped
  /\ state = "Making"
  /\ conn[c] = "making"
  /\ state' = "Preparing"
  /\ conn' = [conn EXCEPT ![c] = "version"]
  /\ GoOn
  /\ UNCHANGED <<open, dropped, told, clientVars>>

OwnSenderMoved == FALSE   (* mutant: only connections hold a close sender *)

(* GracefulShutdown.connection, the close sender the tasks get clones of,  *)
(* is a field of the future and holds `finished' back like they do.        *)
OwnSender == TRUE

Finished == Tasks = {} /\ ~OwnSender

PollFinished ==
  /\ at = "finished" /\ ~dropped
  /\ IF Finished THEN Return("ok") ELSE at' = "signal" /\ result' = result
  /\ UNCHANGED <<state, open, dropped, conn, told, clientVars>>

(* The future is dropped, when it has ended or at any await before: the    *)
(* acceptor and the connection in State::Making go with it, and so does    *)
(* the receiver in `shutdown'.                                             *)
DropServer ==
  /\ ~dropped
  /\ dropped' = TRUE
  /\ at \in {Top(graceful), "ended"}
  /\ open' = FALSE
  /\ conn' = [c \in Conns |-> IF conn[c] \in {"queued", "making"} THEN "gone"
                                                                  ELSE conn[c]]
  /\ UNCHANGED <<loopVars, told, clientVars>>
-----------------------------------------------------------------------------
(* The task of a connection                                                *)

ShutdownHyperOnly(s) ==   (* mutant: ReadVersion is not cancelled *)
  IF s = "idle" THEN {"idle", "ended"} ELSE {s}

(* Connection::graceful_shutdown and the poll after it: detection of the   *)
(* version is cancelled with an error; hyper closes an idle HTTP/1         *)
(* connection and starts to say goodbye on HTTP/2.                         *)
AfterShutdown(s) == CASE s = "version" -> {"ended"}
                      [] s = "idle"    -> {"idle", "ended"}
                      [] OTHER         -> {s}

ShutdownBreaks(c) ==      (* mutant: the select! loop ends with the signal *)
  /\ c \in Tasks
  /\ graceful /\ ~open /\ ~told[c]
  /\ told' = [told EXCEPT ![c] = TRUE]
  /\ conn' = [conn EXCEPT ![c] = "ended"]
  /\ UNCHANGED <<loopVars, open, dropped, clientVars>>

(* The shutdown branch, fused: it is taken once.  The task of a Serving    *)
(* has no such branch.                                                     *)
TaskShutdown(c) ==
  /\ c \in Tasks
  /\ graceful /\ ~open /\ ~told[c]
  /\ told' = [told EXCEPT ![c] = TRUE]
  /\ \E s \in AfterShutdown(conn[c]) : conn' = [conn EXCEPT ![c] = s]
  /\ UNCHANGED <<loopVars, open, dropped, clientVars>>

(* ReadVersion is done: hyper takes over.                                  *)
TaskDetects(c) ==
  /\ conn[c] = "version"
  /\ conn' = [conn EXCEPT ![c] = "first"]
  /\ UNCHANGED <<loopVars, open, dropped, told, clientVars>>

(* A request is complete and the service is called.                        *)
TaskRequest(c) ==
  /\ conn[c] \in {"first", "idle"}
  /\ conn' = [conn EXCEPT ![c] = "busy"]
  /\ UNCHANGED <<loopVars, open, dropped, told, clientVars>>

(* The last response is out: a connection told to shut down closes.        *)
TaskResponds(c) ==
  /\ conn[c] = "busy"
  /\ conn' = [conn EXCEPT ![c] = IF told[c] THEN "ended" ELSE "idle"]
  /\ UNCHANGED <<loopVars, open, dropped, told, clientVars>>

(* The client is gone.                                                     *)
TaskLeft(c) ==
  /\ c \in Tasks
  /\ left[c]
  /\ conn' = [conn EXCEPT ![c] = "ended"]
  /\ UNCHANGED <<loopVars, open, dropped, told, clientVars>>

(* hyper and the client agree to close a connection told to shut down:     *)
(* while nothing is asked, or before the first request.                    *)
TaskCloses(c) ==
  /\ told[c]
  /\ conn[c] \in {"first", "idle"}
  /\ conn' = [conn EXCEPT ![c] = "ended"]
  /\ UNCHANGED <<loopVars, open, dropped, told, clientVars>>
-----------------------------------------------------------------------------
(* The environment                                                         *)

Connect(c) ==
  /\ conn[c] = "away" /\ ~dropped
  /\ conn' = [conn EXCEPT ![c] = "queued"]
  /\ UNCHANGED <<loopVars, open, dropped, told, clientVars>>

Leave(c) ==
  /\ conn[c] \in Running \cup {"queued", "making"}
  /\ ~left[c]
  /\ left' = [left EXCEPT ![c] = TRUE]
  /\ UNCHANGED <<loopVars, graceful, signal, open, dropped, conn, told>>

Signal ==
  /\ graceful /\ ~signal
  /\ signal' = TRUE
  /\ UNCHANGED <<loopVars, graceful, left, open, dropped, conn, told>>
-----------------------------------------------------------------------------
Server ==
  \/ NotSignalled \/ Signalled \/ OncePending \/ OnceFails \/ Prepared
  \/ PollFinished
  \/ \E c \in Conns : Accepted(c) \/ Spawned(c)

Task(c) ==
  \/ TaskShutdown(c) \/ TaskDetects(c) \/ TaskRequest(c) \/ TaskResponds(c)
  \/ TaskLeft(c) \/ TaskCloses(c)

Next ==
  \/ Server
  \/ DropServer
  \/ \E c \in Conns : Task(c) \/ Connect(c) \/ Leave(c)
  \/ Signal

Spec == Init /\ [][Next]_vars

(* The runtime polls a future that can make progress, the server's owner   *)
(* drops it once it is Ready, services answer, and a client that was told  *)
(* goodbye acknowledges it or leaves.  Clients need not connect, send or   *)
(* leave, a first request need not come, nor the signal.                   *)
Fairness ==
  /\ WF_vars(Server)
  /\ WF_vars(at = "ended" /\ DropServer)
  /\ \A c \in Conns : /\ WF_vars(TaskShutdown(c))
                      /\ WF_vars(TaskResponds(c))
                      /\ WF_vars(TaskLeft(c))
                      /\ WF_vars(conn[c] = "idle" /\ TaskCloses(c))

FairSpec == Spec /\ Fairness
=============================================================================
