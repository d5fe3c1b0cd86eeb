--------------------------- MODULE ShutdownProofs ---------------------------
(***************************************************************************)
(* The server is type correct, stops for the signal only, hands over every *)
(* connection it accepts, and implements Draining, for any set of          *)
(* connections.                                                            *)
(***************************************************************************)
EXTENDS ShutdownProps, TLAPS

(* The invariant the others follow from: the close channel stays open      *)
(* while the loop runs.                                                    *)
OpenWhileServing == ~open => at = "ended" \/ dropped

Inv == TypeOK /\ OpenWhileServing /\ StopsForSignal /\ Handover

(* The invariant holds when the server starts (mod.rs:435-447).            *)
LEMMA InvInit == Init => Inv
  BY ServerAssumption DEF Init, Inv, TypeOK, OpenWhileServing, StopsForSignal,
     Handover, Top, Running

(* The types are kept by every action (mod.rs:293-526).                    *)
LEMMA TypeStep == TypeOK /\ [Next]_vars => TypeOK'
<1> SUFFICES ASSUME TypeOK, [Next]_vars PROVE TypeOK'
    OBVIOUS
<1> USE DEF TypeOK, Running
<1>1. CASE NotSignalled
      BY <1>1 DEF NotSignalled, clientVars
<1>2. CASE Signalled
      BY <1>2 DEF Signalled, Return, clientVars
<1>3. CASE OncePending
      BY <1>3 DEF OncePending, Top, clientVars
<1>4. CASE OnceFails
      BY <1>4 DEF OnceFails, Return, clientVars
<1>5. CASE Prepared
      BY <1>5 DEF Prepared, GoOn, Top, clientVars
<1>6. CASE PollFinished
      BY <1>6 DEF PollFinished, Return, clientVars
<1>7. ASSUME NEW c \in Conns, Accepted(c) PROVE TypeOK'
      BY <1>7 DEF Accepted, GoOn, Top, clientVars
<1>8. ASSUME NEW c \in Conns, Spawned(c) PROVE TypeOK'
      BY <1>8 DEF Spawned, GoOn, Top, clientVars
<1>9. CASE DropServer
      BY <1>9 DEF DropServer, loopVars, clientVars
<1>10. ASSUME NEW c \in Conns, TaskShutdown(c) PROVE TypeOK'
  <2>1. PICK s \in AfterShutdown(conn[c]) : conn' = [conn EXCEPT ![c] = s]
        BY <1>10 DEF TaskShutdown
  <2>2. s \in Running \cup {"ended"}
        BY <2>1, <1>10 DEF AfterShutdown, TaskShutdown, Tasks
  <2>3. QED
        BY <1>10, <2>1, <2>2 DEF TaskShutdown, loopVars, clientVars
<1>11. ASSUME NEW c \in Conns, TaskDetects(c) \/ TaskRequest(c) \/ TaskResponds(c)
       PROVE TypeOK'
      BY <1>11 DEF TaskDetects, TaskRequest, TaskResponds, loopVars, clientVars
<1>12. ASSUME NEW c \in Conns, TaskLeft(c) \/ TaskCloses(c) PROVE TypeOK'
      BY <1>12 DEF TaskLeft, TaskCloses, loopVars, clientVars
<1>13. ASSUME NEW c \in Conns, Connect(c) \/ Leave(c) PROVE TypeOK'
      BY <1>13 DEF Connect, Leave, loopVars, clientVars
<1>14. CASE Signal
      BY <1>14 DEF Signal, loopVars
<1>15. CASE UNCHANGED vars
      BY <1>15 DEF vars
<1>16. QED
      BY <1>1, <1>2, <1>3, <1>4, <1>5, <1>6, <1>7, <1>8, <1>9, <1>10, <1>11,
         <1>12, <1>13, <1>14, <1>15 DEF Next, Server, Task

(* One future at a time: steps of the loop and of tasks keep the close     *)
(* channel, the result and the connection that is being made in agreement. *)
LEMMA InvStep == Inv /\ [Next]_vars => Inv'
<1> SUFFICES ASSUME Inv, [Next]_vars PROVE Inv'
    OBVIOUS
<1>t. TypeOK /\ TypeOK'
      BY TypeStep DEF Inv
<1> SUFFICES (OpenWhileServing /\ StopsForSignal /\ Handover)'
    BY <1>t DEF Inv
<1> USE <1>t DEF Inv, TypeOK, OpenWhileServing, StopsForSignal, Handover
<1>1. CASE NotSignalled
      BY <1>1 DEF NotSignalled, clientVars
<1>2. CASE Signalled
      BY <1>2 DEF Signalled, Return, clientVars
<1>3. CASE OncePending
      BY <1>3 DEF OncePending, Top, clientVars
<1>4. CASE OnceFails
      BY <1>4 DEF OnceFails, Return, clientVars
<1>5. CASE Prepared
      BY <1>5 DEF Prepared, GoOn, Top, clientVars
<1>6. CASE PollFinished
      BY <1>6 DEF PollFinished, Return, Finished, OwnSender, clientVars
<1>7. ASSUME NEW c \in Conns, Accepted(c)
      PROVE (OpenWhileServing /\ StopsForSignal /\ Handover)'
      BY <1>7 DEF Accepted, GoOn, Top, clientVars
<1>8. ASSUME NEW c \in Conns, Spawned(c)
      PROVE (OpenWhileServing /\ StopsForSignal /\ Handover)'
      BY <1>8 DEF Spawned, GoOn, Top, clientVars
<1>9. CASE DropServer
      BY <1>9 DEF DropServer, loopVars, clientVars
<1>10. ASSUME NEW c \in Conns, TaskShutdown(c)
       PROVE (OpenWhileServing /\ StopsForSignal /\ Handover)'
  <2>1. PICK s \in AfterShutdown(conn[c]) : conn' = [conn EXCEPT ![c] = s]
        BY <1>10 DEF TaskShutdown
  <2>2. s # "making"
        BY <2>1, <1>10 DEF AfterShutdown, TaskShutdown, Tasks, Running
  <2>3. QED
        BY <1>10, <2>1, <2>2 DEF TaskShutdown, loopVars, clientVars
<1>11. ASSUME NEW c \in Conns, TaskDetects(c) \/ TaskRequest(c) \/ TaskResponds(c)
       PROVE (OpenWhileServing /\ StopsForSignal /\ Handover)'
      BY <1>11 DEF TaskDetects, TaskRequest, TaskResponds, loopVars, clientVars
<1>12. ASSUME NEW c \in Conns, TaskLeft(c) \/ TaskCloses(c)
       PROVE (OpenWhileServing /\ StopsForSignal /\ Handover)'
      BY <1>12 DEF TaskLeft, TaskCloses, loopVars, clientVars
<1>13. ASSUME NEW c \in Conns, Connect(c) \/ Leave(c)
       PROVE (OpenWhileServing /\ StopsForSignal /\ Handover)'
      BY <1>13 DEF Connect, Leave, loopVars, clientVars
<1>14. CASE Signal
      BY <1>14 DEF Signal, loopVars
<1>15. CASE UNCHANGED vars
      BY <1>15 DEF vars
<1>16. QED
      BY <1>1, <1>2, <1>3, <1>4, <1>5, <1>6, <1>7, <1>8, <1>9, <1>10, <1>11,
         <1>12, <1>13, <1>14, <1>15 DEF Next, Server, Task

(* The server's invariants, for every set of connections: an accepted      *)
(* connection is handed over, and Ok means the signal came (mod.rs:293-526)*)
THEOREM ServerInvariants ==
  Spec => [](TypeOK /\ StopsForSignal /\ Handover)
<1>1. Spec => []Inv
      BY InvInit, InvStep, PTL DEF Spec
<1>2. Inv => TypeOK /\ StopsForSignal /\ Handover
      BY DEF Inv
<1>3. QED
      BY <1>1, <1>2, PTL
-----------------------------------------------------------------------------
(* The server's state as a Draining's.                                     *)
Phase == IF ~open \/ at = "ended" THEN "draining" ELSE "serving"
Over  == {c \in Conns : conn[c] = "ended"}

(* What an abstract step is, spelled out: nothing happens, the phase ends, *)
(* or one connection is started or over.                                   *)
Shadow ==
  \/ Phase' = Phase /\ Tasks' = Tasks /\ Over' = Over
  \/ Phase = "serving" /\ Phase' = "draining" /\ Tasks' = Tasks /\ Over' = Over
  \/ \E c \in Conns :
       \/ /\ Phase = "serving" /\ Phase' = Phase
          /\ c \notin Tasks \cup Over
          /\ Tasks' = Tasks \cup {c} /\ Over' = Over
       \/ /\ c \in Tasks /\ Phase' = Phase
          /\ Tasks' = Tasks \ {c} /\ Over' = Over \cup {c}

(* A step that ends a task.                                                *)
LEMMA OneEnds ==
  ASSUME TypeOK, NEW c \in Tasks, conn' = [conn EXCEPT ![c] = "ended"]
  PROVE  Tasks' = Tasks \ {c} /\ Over' = Over \cup {c}
  BY DEF TypeOK, Tasks, Over, Running

(* Every step of the server is a step of a Draining or nothing to it.      *)
LEMMA ShadowStep == Inv /\ [Next]_vars => Shadow
<1> SUFFICES ASSUME Inv, [Next]_vars PROVE Shadow
    OBVIOUS
<1>t. TypeOK
      BY DEF Inv
<1>1. CASE NotSignalled
      BY <1>1 DEF NotSignalled, Shadow, Phase, Tasks, Over
<1>2. CASE Signalled
      BY <1>2 DEF Signalled, Return, Shadow, Phase, Tasks, Over
<1>3. CASE OncePending
      BY <1>3 DEF OncePending, Top, Shadow, Phase, Tasks, Over
<1>4. CASE OnceFails
      BY <1>4 DEF OnceFails, Return, Shadow, Phase, Tasks, Over
<1>5. CASE Prepared
      BY <1>5 DEF Prepared, GoOn, Top, Shadow, Phase, Tasks, Over
<1>6. CASE PollFinished
      BY <1>6 DEF PollFinished, Finished, OwnSender, Shadow, Phase, Tasks, Over
<1>7. ASSUME NEW c \in Conns, Accepted(c) PROVE Shadow
  <2>1. Tasks' = Tasks /\ Over' = Over
        BY <1>t, <1>7 DEF TypeOK, Accepted, Tasks, Over, Running
  <2>2. Phase' = Phase
        BY <1>7 DEF Accepted, GoOn, Top, Phase
  <2>3. QED
        BY <2>1, <2>2 DEF Shadow
<1>8. ASSUME NEW c \in Conns, Spawned(c) PROVE Shadow
  <2>1. Phase = "serving" /\ Phase' = Phase
        BY <1>8 DEF Inv, OpenWhileServing, Spawned, GoOn, Top, Phase
  <2>2. c \notin Tasks \cup Over
        BY <1>8 DEF Spawned, Tasks, Over, Running
  <2>3. Tasks' = Tasks \cup {c} /\ Over' = Over
        BY <1>t, <1>8 DEF TypeOK, Spawned, Tasks, Over, Running
  <2>4. QED
        BY <2>1, <2>2, <2>3 DEF Shadow
<1>9. CASE DropServer
  <2>1. Tasks' = Tasks /\ Over' = Over
        BY <1>t, <1>9 DEF TypeOK, DropServer, Tasks, Over, Running
  <2>2. Phase' = "draining"
        BY <1>9 DEF DropServer, Phase
  <2>3. QED
        BY <2>1, <2>2 DEF Shadow, Phase
<1>10. ASSUME NEW c \in Conns, TaskShutdown(c) PROVE Shadow
  <2>1. Phase' = Phase
        BY <1>10 DEF TaskShutdown, loopVars, Phase
  <2>2. PICK s \in AfterShutdown(conn[c]) : conn' = [conn EXCEPT ![c] = s]
        BY <1>10 DEF TaskShutdown
  <2>3. c \in Tasks /\ (s = "ended" \/ s = conn[c])
        BY <2>2, <1>10 DEF AfterShutdown, TaskShutdown, Tasks, Running
  <2>4. CASE s = "ended"
        BY <1>t, <2>1, <2>2, <2>3, <2>4, OneEnds DEF Shadow, Tasks
  <2>5. CASE s = conn[c]
    <3>1. conn' = conn
          BY <1>t, <2>2, <2>5 DEF TypeOK
    <3>2. QED
          BY <3>1, <2>1 DEF Shadow, Tasks, Over
  <2>6. QED
        BY <2>3, <2>4, <2>5
<1>11. ASSUME NEW c \in Conns, TaskDetects(c) \/ TaskRequest(c) PROVE Shadow
  <2>1. Tasks' = Tasks /\ Over' = Over
        BY <1>t, <1>11 DEF TypeOK, TaskDetects, TaskRequest, Tasks, Over, Running
  <2>2. Phase' = Phase
        BY <1>11 DEF TaskDetects, TaskRequest, loopVars, Phase
  <2>3. QED
        BY <2>1, <2>2 DEF Shadow
<1>12. ASSUME NEW c \in Conns, TaskResponds(c) PROVE Shadow
  <2>1. Phase' = Phase /\ c \in Tasks
        BY <1>12 DEF TaskResponds, loopVars, Phase, Tasks, Running
  <2>2. CASE told[c]
    <3>1. conn' = [conn EXCEPT ![c] = "ended"]
          BY <1>12, <2>2 DEF TaskResponds
    <3>2. QED
          BY <1>t, <2>1, <3>1, OneEnds DEF Shadow, Tasks
  <2>3. CASE ~told[c]
    <3>1. conn[c] = "busy" /\ conn' = [conn EXCEPT ![c] = "idle"]
          BY <1>12, <2>3 DEF TaskResponds
    <3>2. Tasks' = Tasks /\ Over' = Over
          BY <1>t, <3>1 DEF TypeOK, Tasks, Over, Running
    <3>3. QED
          BY <2>1, <3>2 DEF Shadow
  <2>4. QED
        BY <2>2, <2>3
<1>13. ASSUME NEW c \in Conns, TaskLeft(c) \/ TaskCloses(c) PROVE Shadow
  <2>1. Phase' = Phase /\ c \in Tasks
        BY <1>13 DEF TaskLeft, TaskCloses, loopVars, Phase, Tasks, Running
  <2>2. conn' = [conn EXCEPT ![c] = "ended"]
        BY <1>13 DEF TaskLeft, TaskCloses
  <2>3. QED
        BY <1>t, <2>1, <2>2, OneEnds DEF Shadow, Tasks
<1>14. ASSUME NEW c \in Conns, Connect(c) PROVE Shadow
  <2>1. Tasks' = Tasks /\ Over' = Over
        BY <1>t, <1>14 DEF TypeOK, Connect, Tasks, Over, Running
  <2>2. QED
        BY <2>1, <1>14 DEF Shadow, Connect, loopVars, Phase
<1>15. CASE \E c \in Conns : Leave(c)
      BY <1>15 DEF Leave, loopVars, Shadow, Phase, Tasks, Over
<1>16. CASE Signal
      BY <1>16 DEF Signal, loopVars, Shadow, Phase, Tasks, Over
<1>17. CASE UNCHANGED vars
      BY <1>17 DEF vars, Shadow, Phase, Tasks, Over
<1>18. QED
      BY <1>1, <1>2, <1>3, <1>4, <1>5, <1>6, <1>7, <1>8, <1>9, <1>10, <1>11,
         <1>12, <1>13, <1>14, <1>15, <1>16, <1>17 DEF Next, Server, Task

(* The server implements Draining: whatever the signal, errors, drops and  *)
(* clients do, it starts a connection at most once and none after it has   *)
(* stopped, and its tasks can then only end (mod.rs:293-526).              *)
THEOREM ServerDrains == Spec => Drained
<1>1. Init => Abstract!Init
      BY DEF Init, Abstract!Init, Tasks, Running, Top
<1>2. Shadow => [Abstract!Next]_(Abstract!vars)
      BY DEF Shadow, Phase, Over, Abstract!Next, Abstract!Start, Abstract!End,
         Abstract!Stop, Abstract!vars, Tasks
<1>3. Inv /\ [Next]_vars => [Abstract!Next]_(Abstract!vars)
      BY <1>2, ShadowStep
<1>4. QED
      BY <1>1, <1>3, InvInit, InvStep, PTL DEF Spec, Drained, Abstract!Spec
-----------------------------------------------------------------------------
(* Whoever moves, a connection that is answering a request leaves its      *)
(* exchange by answering, or because its client has gone.                  *)
LEMMA ExchangeStep ==
  ASSUME TypeOK, [Next]_vars, NEW c \in Conns, conn[c] = "busy", conn'[c] # "busy"
  PROVE  TaskResponds(c) \/ left[c]
<1> USE DEF TypeOK
<1>1. ASSUME Server PROVE FALSE
  <2>1. ASSUME NEW d \in Conns, Accepted(d) \/ Spawned(d) PROVE FALSE
        BY <2>1 DEF Accepted, Spawned
  <2>2. QED
        BY <1>1, <2>1 DEF Server, NotSignalled, Signalled, OncePending,
           OnceFails, Prepared, PollFinished
<1>2. ASSUME DropServer PROVE FALSE
      BY <1>2 DEF DropServer
<1>3. ASSUME NEW d \in Conns, TaskShutdown(d) PROVE FALSE
  <2>1. PICK s \in AfterShutdown(conn[d]) : conn' = [conn EXCEPT ![d] = s]
        BY <1>3 DEF TaskShutdown
  <2>2. conn[d] = "busy" => s = "busy"
        BY <2>1 DEF AfterShutdown
  <2>3. QED
        BY <2>1, <2>2
<1>4. ASSUME NEW d \in Conns, TaskResponds(d) PROVE TaskResponds(c)
      BY <1>4 DEF TaskResponds
<1>5. ASSUME NEW d \in Conns, TaskLeft(d) PROVE left[c]
      BY <1>5 DEF TaskLeft
<1>6. ASSUME NEW d \in Conns, TaskDetects(d) \/ TaskRequest(d) \/ TaskCloses(d)
      PROVE FALSE
      BY <1>6 DEF TaskDetects, TaskRequest, TaskCloses
<1>7. ASSUME NEW d \in Conns, Connect(d) \/ Leave(d) PROVE FALSE
      BY <1>7 DEF Connect, Leave
<1>8. ASSUME Signal \/ UNCHANGED vars PROVE FALSE
      BY <1>8 DEF Signal, vars
<1>9. QED
      BY <1>1, <1>2, <1>3, <1>4, <1>5, <1>6, <1>7, <1>8 DEF Next, Task

(* A request that is being answered is answered, whatever the signal, the  *)
(* end of the future or its drop do to the server (mod.rs:98, 468-509).    *)
THEOREM ExchangesAreFinished == Spec => ExchangeNotCut
<1>1. TypeOK /\ [Next]_vars
        => [\A c \in Conns : conn[c] = "busy" /\ conn'[c] # "busy"
                               => TaskResponds(c) \/ left[c]]_vars
      BY ExchangeStep
<1>2. QED
      BY <1>1, ServerInvariants, PTL DEF Spec, ExchangeNotCut
=============================================================================
