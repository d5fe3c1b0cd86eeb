--------------------------- MODULE PidFileProofs ---------------------------
(***************************************************************************)
(* One holder at a time, for any number of processes and pids.             *)
(***************************************************************************)
EXTENDS PidFileProps, TLAPS

(* No two processes have one pid, and one with a lock, a listener or a     *)
(* step to take runs.                                                      *)
Identities ==
  /\ \A p, q \in Procs : Running(p) /\ pid[p] = pid[q] => p = q
  /\ \A p \in Procs : at[p] \in {"new", "gone"} <=> ~Running(p)
  /\ \A p \in Procs : lock[p] => at[p] \in {"idle", "reset", "bind"}
  /\ \A p \in Procs : at[p] \in {"reset", "bind"} => lock[p]

(* While nothing has raced: beside a process past the check, no other is   *)
(* past it or has a pid to look up, and none is past the check while       *)
(* another has the lock, for it has read, or will, the pid of that one.    *)
Checked ==
  ~raced =>
    /\ \A p, q \in Procs : at[p] \in {"kill"} \cup Past /\ at[q] \in Past => p = q
    /\ \A p, q \in Procs : lock[q]
         => at[p] \notin Past /\ (at[p] = "kill" => read[p] = pid[q])
    /\ \A p \in Procs : at[p] \in {"reset", "bind"} => ~listener[p]

(* OneHolder without what follows for those who look.                      *)
Held ==
  ~raced =>
    \A p \in Procs :
      /\ listener[p] => lock[p] /\ socket = p
      /\ lock[p] => file = pid[p] /\ \A q \in Procs : lock[q] => q = p

Inv == TypeOK /\ Identities /\ Checked /\ Held

LEMMA InvInit == Init => Inv
  BY PidFileAssumption DEF Init, Inv, TypeOK, Identities, Checked, Held, Running,
     Inside, Past

LEMMA InvStep == Inv /\ [Next]_vars => Inv'
<1> SUFFICES ASSUME Inv, [Next]_vars PROVE Inv'
    OBVIOUS
<1> USE PidFileAssumption DEF Inv, TypeOK, Inside, Past, Goes, Running
<1>1. ASSUME NEW p \in Procs, Start(p) PROVE Inv'
      BY <1>1 DEF Start, Identities, Checked, Held
<1>2. ASSUME NEW p \in Procs, Crash(p) PROVE Inv'
      BY <1>2 DEF Crash, Identities, Checked, Held
<1>3. ASSUME NEW p \in Procs, New(p) PROVE Inv'
  <2>1. /\ at[p] \in {"idle", "refused", "failed"} /\ ~lock[p]
        /\ at' = [at EXCEPT ![p] = IF file = ABSENT THEN "create" ELSE "read"]
        /\ UNCHANGED <<pid, read, lock, listener, file, socket>>
        /\ raced' \in BOOLEAN
        /\ ~raced' => ~raced /\ (file = ABSENT => ~AnotherDecides(p))
        BY <1>3 DEF New
  <2>2. TypeOK' /\ Identities'
        BY <2>1 DEF Identities
  <2>3. ~raced' => \A q \in Procs : lock[q] => file # ABSENT
        BY <2>1 DEF Held, Identities
  <2>4. Checked'
        BY <2>1, <2>3 DEF Checked, Identities, Held, AnotherDecides,
                             AnotherIsPast
  <2>5. Held'
        BY <2>1 DEF Held
  <2>6. QED
        BY <2>2, <2>4, <2>5
<1>4. ASSUME NEW p \in Procs, ReadFile(p) PROVE Inv'
  <2>1. /\ at[p] = "read"
        /\ at' = [at EXCEPT ![p] = IF file \in Pids THEN "kill" ELSE "remove"]
        /\ IF file \in Pids THEN read' = [read EXCEPT ![p] = file] ELSE read' = read
        /\ UNCHANGED <<pid, lock, listener, file, socket>>
        /\ raced' \in BOOLEAN
        /\ ~raced' => ~raced /\ IF file \in Pids THEN ~AnotherIsPast(p)
                                                ELSE ~AnotherDecides(p)
        BY <1>4 DEF ReadFile
  <2>2. TypeOK' /\ Identities'
        BY <2>1 DEF Identities
  <2>3. ~raced' => \A q \in Procs : lock[q] => file = pid[q] /\ file \in Pids
        BY <2>1 DEF Held, Identities
  <2>4. Checked'
    <3>1. CASE file \in Pids
          BY <2>1, <2>3, <3>1 DEF Checked, Identities, AnotherIsPast
    <3>2. CASE file \notin Pids
          BY <2>1, <2>3, <3>2 DEF Checked, Identities, AnotherDecides, AnotherIsPast
    <3>3. QED
          BY <3>1, <3>2
  <2>5. Held'
        BY <2>1 DEF Held
  <2>6. QED
        BY <2>2, <2>4, <2>5
<1>5. ASSUME NEW p \in Procs, ReadFails(p) PROVE Inv'
      BY <1>5 DEF ReadFails, Identities, Checked, Held
<1>6. ASSUME NEW p \in Procs, Kill(p) PROVE Inv'
  <2>1. /\ at[p] = "kill"
        /\ at' = [at EXCEPT ![p] = IF Alive(p) THEN "refused" ELSE "remove"]
        /\ read' = [read EXCEPT ![p] = NONE]
        /\ UNCHANGED <<pid, lock, listener, file, socket>>
        /\ raced' \in BOOLEAN
        /\ ~raced' => ~raced /\ ~Hidden(p) /\ (Alive(p) \/ ~AnotherDecides(p))
        BY <1>6 DEF Kill
  <2>2. TypeOK' /\ Identities'
        BY <2>1 DEF Identities
  <2>3. ASSUME ~raced', NEW q \in Procs, lock[q] PROVE Alive(p)
    <3>1. read[p] = pid[q] /\ Running(q)
          BY <2>1, <2>3 DEF Checked, Identities
    <3>2. QED
          BY <2>1, <2>3, <3>1 DEF Alive, Hidden
  <2>4. Checked'
    <3>1. CASE Alive(p)
          BY <2>1, <3>1 DEF Checked
    <3>2. CASE ~Alive(p)
          BY <2>1, <2>3, <3>2 DEF Checked, AnotherDecides, AnotherIsPast
    <3>3. QED
          BY <3>1, <3>2
  <2>5. Held'
        BY <2>1 DEF Held
  <2>6. QED
        BY <2>2, <2>4, <2>5
<1>7. ASSUME NEW p \in Procs, Remove(p) PROVE Inv'
      BY <1>7 DEF Remove, Identities, Checked, Held
<1>8. ASSUME NEW p \in Procs, Create(p) PROVE Inv'
      BY <1>8 DEF Create, Identities, Checked, Held
<1>9. ASSUME NEW p \in Procs, Write(p) PROVE Inv'
      BY <1>9 DEF Write, Identities, Checked, Held
<1>10. ASSUME NEW p \in Procs, WriteFails(p) PROVE Inv'
      BY <1>10 DEF WriteFails, Identities, Checked, Held
<1>11. ASSUME NEW p \in Procs, Reset(p) PROVE Inv'
      BY <1>11 DEF Reset, Identities, Checked, Held
<1>12. ASSUME NEW p \in Procs, BindSocket(p) PROVE Inv'
      BY <1>12 DEF BindSocket, Identities, Checked, Held
<1>13. ASSUME NEW p \in Procs, BindFails(p) PROVE Inv'
      BY <1>13 DEF BindFails, Identities, Checked, Held
<1>14. ASSUME NEW p \in Procs, DropRegistry(p) PROVE Inv'
      BY <1>14 DEF DropRegistry, Identities, Checked, Held
<1>15. ASSUME NEW p \in Procs, DropServer(p) PROVE Inv'
      BY <1>15 DEF DropServer, Identities, Checked, Held
<1>16. CASE UNCHANGED vars
      BY <1>16 DEF vars, Identities, Checked, Held
<1>17. QED
      BY <1>1, <1>2, <1>3, <1>4, <1>5, <1>6, <1>7, <1>8, <1>9, <1>10, <1>11, <1>12,
         <1>13, <1>14, <1>15, <1>16 DEF Next, Acquire, Fails

(* Unless two calls find the lock free at once, processes that may signal  *)
(* each other never have it together, however many try while one holds it, *)
(* however they crash and whatever pid or empty file that leaves           *)
(* (pidfile.rs:20-101, 120-130).                                           *)
THEOREM Exclusive == Spec => []OneHolder
<1>1. Inv => OneHolder
  <2> SUFFICES ASSUME Inv, ~raced, NEW p \in Procs, lock[p],
                      NEW q \in Procs, Running(q), <<q, p>> \notin Mute
               PROVE  IsLocked(q)
      BY DEF Inv, Held, OneHolder
  <2>1. Running(p) /\ pid[p] = file
        BY DEF Inv, Identities, Held, Running
  <2>2. QED
        BY <2>1 DEF IsLocked
<1>2. Spec => []Inv
      BY InvInit, InvStep, PTL DEF Spec
<1>3. QED
      BY <1>1, <1>2, PTL
=============================================================================
