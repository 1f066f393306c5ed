-------------------------- MODULE SchedulerProofs --------------------------
(***************************************************************************)
(* Theorems about Scheduler, for any schedules, loops, clock and faults.   *)
(***************************************************************************)
EXTENDS Scheduler, TLAPS

-----------------------------------------------------------------------------
(* Types *)

LEMMA InitTyped == Init => TypeOK
<1> SUFFICES ASSUME Init PROVE TypeOK
  OBVIOUS
<1>1. 0 \in Instants /\ Instants \subseteq Nat /\ 0 \in 0..MaxFaults
  BY BoundsAssumption DEF Instants
<1>2. nextRun \in [Schedules -> Nat \cup {Never}]
  BY <1>1 DEF Init
<1>3. /\ \A l \in Loops : began[l] <= now
      /\ \A s \in Schedules : lastRun[s] # Never => lastRun[s] <= now
  BY DEF Init
<1> QED
  BY <1>1, <1>2, <1>3, LoopsAssumption DEF Init, TypeOK

LEMMA NextRunTyped ==
    ASSUME TypeOK, NEW s \in Schedules
    PROVE  NextRun(s) \in Nat \cup {Never} /\ (NextRun(s) # Never => NextRun(s) > now)
  BY IntervalAssumption, CronAssumption, BoundsAssumption DEF TypeOK, NextRun, Instants

LEMMA DropTyped ==
    ASSUME TypeOK, NEW l \in Loops, Drop(l)
    PROVE  /\ began' \in [Loops -> Instants]
           /\ list' \in [Loops -> SUBSET Schedules]
           /\ firing' \in [Loops -> Schedules \cup {NoSchedule}]
           /\ keys' \in SUBSET Schedules
           /\ firing'[l] = NoSchedule /\ began'[l] = 0
           /\ \A m \in Loops : m # l => began'[m] = began[m]
           /\ \A m \in Loops : m # l => firing'[m] = firing[m]
  BY BoundsAssumption DEF TypeOK, Drop, Instants

(* Every step of the specification keeps the types.                          *)
LEMMA StepTyped == TypeOK /\ [Next]_vars => TypeOK'
<1> SUFFICES ASSUME TypeOK, [Next]_vars PROVE TypeOK'
  OBVIOUS
<1> USE DEF TypeOK, Instants
<1>1. ASSUME NEW l \in Loops, Wake(l) \/ Select(l) \/ Done(l) \/ Leave(l) PROVE TypeOK'
  <2>1. CASE Wake(l)
    BY <2>1 DEF Wake, Go, table
  <2>2. CASE Select(l)
    BY <2>2 DEF Select, Go, table, locks
  <2>3. CASE Done(l)
    BY <2>3, BoundsAssumption DEF Done, Go, table, locks
  <2>4. CASE Leave(l)
    BY <2>4 DEF Leave, Go, table
  <2> QED BY <1>1, <2>1, <2>2, <2>3, <2>4
<1>2. ASSUME NEW l \in Loops, Turn(l) PROVE TypeOK'
  <2>1. ASSUME NEW s \in Schedules, Lock(l, s) \/ Skip(l, s) PROVE TypeOK'
    BY <2>1, LoopsAssumption DEF Lock, Skip, Go, table, locks
  <2>2. CASE Fire(l)
    <3>1. firing[l] \in Schedules
      BY <2>2 DEF Fire, Go
    <3> QED
      BY <2>2, <3>1, NextRunTyped DEF Fire, Go, locks
  <2>3. CASE Unlock(l)
    BY <2>3, LoopsAssumption DEF Unlock, Go, table
  <2> QED BY <1>2, <2>1, <2>2, <2>3 DEF Turn
<1>3. ASSUME NEW l \in Loops, PassFails(l) \/ Crash(l) PROVE TypeOK'
  <2>1. Fault /\ Drop(l) /\ UNCHANGED <<now, table, leader>>
    BY <1>3 DEF PassFails, Crash
  <2>2. \E to \in {"leave", "idle"} : at' = [at EXCEPT ![l] = to]
    BY <1>3 DEF PassFails, Crash
  <2>3. faults' \in 0..MaxFaults
    BY <2>1, BoundsAssumption DEF Fault
  <2> QED
    BY <2>1, <2>2, <2>3, DropTyped DEF table
<1>4. ASSUME NEW s \in Schedules, KeyExpires(s) PROVE TypeOK'
  BY <1>4 DEF KeyExpires, table, loop
<1>5. CASE LeaderExpires
  BY <1>5 DEF LeaderExpires, table, loop
<1>6. CASE Tick
  <2>1. now' \in Instants
    BY <1>6, BoundsAssumption DEF Tick
  <2>2. \A i \in Nat : i <= now => i <= now'
    BY <1>6, BoundsAssumption DEF Tick
  <2>3. UNCHANGED <<table, locks, loop, faults>>
    BY <1>6 DEF Tick
  <2> QED BY <2>1, <2>2, <2>3, NeverAssumption, BoundsAssumption DEF table, locks, loop
<1>7. CASE UNCHANGED vars
  BY <1>7 DEF vars, table, locks, loop
<1> QED
  BY <1>1, <1>2, <1>3, <1>4, <1>5, <1>6, <1>7 DEF Next, Pass

(* Every reachable state is well typed, a loop is firing a schedule exactly   *)
(* between taking and giving back the lock of its row, and neither a pass    *)
(* nor the last run of a schedule lies in the future.                        *)
THEOREM Typing == Spec => []TypeOK
  BY InitTyped, StepTyped, PTL DEF Spec

-----------------------------------------------------------------------------
(* The leader.  Whoever is in a pass has its key in Redis.                    *)

LeaderInv ==
    /\ \A l \in Electing : at[l] # "idle" => leader
    /\ \A l, m \in Electing : at[l] # "idle" /\ at[m] # "idle" => l = m

(* What a step can do to the leadership. *)
Stays == /\ leader' = leader
         /\ \A l \in Loops : (at'[l] = "idle") = (at[l] = "idle")

Enters(l) == /\ ~leader /\ leader'
             /\ at[l] = "idle" /\ at'[l] # "idle"
             /\ \A m \in Loops \ {l} : at'[m] = at[m]

Exits(l) == /\ leader' \in {leader, FALSE}
            /\ at[l] # "idle" /\ at'[l] = "idle"
            /\ \A m \in Loops \ {l} : at'[m] = at[m]

Lapses == /\ \A l \in Electing : at[l] = "idle"
          /\ ~leader' /\ at' = at

(* A gateway's loop, which elects nobody, is outside all this. *)
Aside(l) == /\ l \notin Electing /\ leader' = leader
            /\ \A m \in Loops \ {l} : at'[m] = at[m]

(* With a reliable lock every step is one of these five.                     *)
LEMMA LeaderEffect ==
    ASSUME TypeOK, LockReliable, [Next]_vars
    PROVE  \/ Stays \/ Lapses
           \/ \E l \in Electing : Enters(l) \/ Exits(l)
           \/ \E l \in Loops : Aside(l)
<1> DEFINE Goal == \/ Stays \/ Lapses
                   \/ \E l \in Electing : Enters(l) \/ Exits(l)
                   \/ \E l \in Loops : Aside(l)
<1> USE DEF TypeOK
<1>1. ASSUME NEW l \in Loops, Wake(l) \/ Leave(l) \/ Crash(l) PROVE Goal
  <2>1. CASE l \in Electing
    BY <1>1, <2>1, BoundsAssumption
       DEF Wake, Leave, Crash, Granted, Go, Enters, Exits, table, locks
  <2>2. CASE l \notin Electing
    BY <1>1, <2>2 DEF Wake, Leave, Crash, Go, Aside, table, locks
  <2> QED BY <2>1, <2>2
<1>2. ASSUME NEW l \in Loops, Select(l) \/ Turn(l) \/ Done(l) \/ PassFails(l) PROVE Goal
  BY <1>2 DEF Select, Turn, Lock, Skip, Fire, Unlock, Done, PassFails, Go, Stays, table, locks
<1>3. ASSUME NEW s \in Schedules, KeyExpires(s) PROVE Goal
  BY <1>3 DEF KeyExpires, Stays, table, loop
<1>4. CASE Tick \/ UNCHANGED vars
  BY <1>4 DEF Tick, Stays, vars, table, locks, loop
<1>5. CASE LeaderExpires
  BY <1>5 DEF LeaderExpires, Lapses, loop
<1> QED
  BY <1>1, <1>2, <1>3, <1>4, <1>5 DEF Next, Pass

LEMMA LeaderStep ==
    ASSUME TypeOK, LockReliable, LeaderInv, [Next]_vars
    PROVE  LeaderInv'
<1> USE LoopsAssumption DEF LeaderInv, TypeOK
<1>1. CASE Stays \/ Lapses
  BY <1>1 DEF Stays, Lapses
<1>2. ASSUME NEW l \in Electing, Enters(l) \/ Exits(l) PROVE LeaderInv'
  BY <1>2 DEF Enters, Exits
<1>3. ASSUME NEW l \in Loops, Aside(l) PROVE LeaderInv'
  BY <1>3 DEF Aside
<1> QED BY <1>1, <1>2, <1>3, LeaderEffect

LEMMA LeaderInit == Init => LeaderInv
  BY LoopsAssumption DEF Init, LeaderInv

(* With a reliable lock the passes of the scheduler's replicas implement the *)
(* abstract lock, whatever the loops of the gateways do.                     *)
THEOREM LeaderRefinement == ASSUME LockReliable PROVE Spec => LeaderContract
<1> DEFINE Inside == {l \in Electing : at[l] # "idle"}
           Held == [k \in {"leader"} |-> Inside]
<1>1. Init => Leadership!Init
  BY LoopsAssumption DEF Init, Leadership!Init
<1>2. TypeOK /\ LeaderInv /\ [Next]_vars => [Leadership!Next]_Held
  <2> SUFFICES ASSUME TypeOK, LeaderInv, [Next]_vars
               PROVE  Leadership!Next \/ Held' = Held
    OBVIOUS
  <2> USE LoopsAssumption DEF TypeOK, LeaderInv
  <2>1. CASE Stays \/ Lapses
    <3>1. Inside' = Inside
      BY <2>1 DEF Stays, Lapses
    <3> QED BY <3>1
  <2>2. ASSUME NEW l \in Electing, Enters(l) PROVE Leadership!Next
    <3>1. Inside = {} /\ Inside' = {l}
      BY <2>2 DEF Enters
    <3>2. Leadership!Enter(l, "leader")
      BY <3>1 DEF Leadership!Enter
    <3> QED BY <3>2 DEF Leadership!Next
  <2>3. ASSUME NEW l \in Electing, Exits(l) PROVE Leadership!Next
    <3>1. Inside = {l} /\ Inside' = {}
      BY <2>3 DEF Exits
    <3>2. Leadership!Leave(l, "leader")
      BY <3>1 DEF Leadership!Leave
    <3> QED BY <3>2 DEF Leadership!Next
  <2>4. ASSUME NEW l \in Loops, Aside(l) PROVE Held' = Held
    <3>1. Inside' = Inside
      BY <2>4 DEF Aside
    <3> QED BY <3>1
  <2> QED BY <2>1, <2>2, <2>3, <2>4, LeaderEffect
<1> QED
  BY <1>1, <1>2, LeaderInit, LeaderStep, Typing, PTL
     DEF Spec, LeaderContract, Leadership!Spec

-----------------------------------------------------------------------------
(* Once per occurrence.  What a leader still has on its list is due, since    *)
(* nobody else fires anything meanwhile; and a schedule is moved past the    *)
(* instant its last pass began.                                              *)

ListsDue == \A l \in Loops :
    /\ at[l] \in {"idle", "select", "leave"} => list[l] = {}
    /\ firing[l] # NoSchedule => firing[l] \in list[l]
    /\ \A s \in list[l] : Due(s) \/ (at[l] = "unlock" /\ s = firing[l])
    /\ began[l] <= now

MovedOn == \A s \in Schedules :
    lastRun[s] # Never /\ nextRun[s] # Never => lastRun[s] < nextRun[s]

FireInv == ListsDue /\ MovedOn

LEMMA FireInit == Init => FireInv
  BY NeverAssumption DEF Init, FireInv, ListsDue, MovedOn, Instants

(* A loop's own step leaves the lists of the others as they are.             *)
LEMMA FireStep ==
    ASSUME TypeOK, Loops = Electing, LeaderInv, FireInv, [Next]_vars
    PROVE  FireInv'
<1> USE DEF TypeOK, FireInv, ListsDue, MovedOn, Due, Instants
<1>1. ASSUME NEW l \in Loops, Wake(l) \/ Select(l) \/ Done(l) \/ Leave(l) PROVE FireInv'
  <2>1. CASE Wake(l)
    BY <2>1 DEF Wake, Go, table
  <2>2. CASE Select(l)
    BY <2>2 DEF Select, Go, table
  <2>3. CASE Leave(l)
    BY <2>3 DEF Leave, Go, table
  <2>4. CASE Done(l)
    BY <2>4 DEF Done, Go, table
  <2> QED BY <1>1, <2>1, <2>2, <2>3, <2>4
<1>2. ASSUME NEW l \in Loops, NEW s \in Schedules, Lock(l, s) \/ Skip(l, s) PROVE FireInv'
  BY <1>2 DEF Lock, Skip, Go, table, locks
<1>3. ASSUME NEW l \in Loops, Fire(l) PROVE FireInv'
  <2> DEFINE s == firing[l]
  <2>1. s \in Schedules /\ at[l] = "fire"
    BY <1>3 DEF Fire, Go
  <2>2. \A m \in Loops \ {l} : at[m] = "idle" /\ list[m] = {}
    BY <2>1 DEF LeaderInv
  <2>3. MovedOn'
    BY <1>3, <2>1, NextRunTyped, NeverAssumption DEF Fire
  <2>4. ListsDue'
    BY <1>3, <2>1, <2>2 DEF Fire, Go
  <2> QED BY <2>3, <2>4
<1>4. ASSUME NEW l \in Loops, Unlock(l) PROVE FireInv'
  BY <1>4 DEF Unlock, Go, table
<1>5. ASSUME NEW l \in Loops, PassFails(l) \/ Crash(l) PROVE FireInv'
  BY <1>5 DEF PassFails, Crash, Drop, table
<1>6. CASE (\E s \in Schedules : KeyExpires(s)) \/ LeaderExpires \/ UNCHANGED vars
  BY <1>6 DEF KeyExpires, LeaderExpires, vars, table, locks, loop
<1>7. CASE Tick
  BY <1>7 DEF Tick, table, locks, loop
<1> QED
  BY <1>1, <1>2, <1>3, <1>4, <1>5, <1>6, <1>7 DEF Next, Pass, Turn

(* When every loop elects and the lock is reliable, a schedule is fired only *)
(* while it is due, and each of its occurrences once.  Neither can be        *)
(* dropped: see the run with a gateway.                                      *)
THEOREM FiredOnce ==
    ASSUME LockReliable, Loops = Electing
    PROVE  Spec => OncePerOccurrence
<1>1. TypeOK /\ FireInv /\ [Next]_vars
        => [\A s \in Schedules : tasks'[s] # tasks[s] =>
               /\ Due(s)
               /\ lastRun[s] # Never => lastRun[s] < nextRun[s]]_vars
  <2> SUFFICES ASSUME TypeOK, FireInv, Next, NEW s \in Schedules, tasks'[s] # tasks[s]
               PROVE  Due(s) /\ (lastRun[s] # Never => lastRun[s] < nextRun[s])
    OBVIOUS
  <2>1. PICK l \in Loops : Fire(l)
    BY DEF Next, Pass, Turn, Wake, Select, Lock, Skip, Unlock, Done, Leave, PassFails,
           Crash, KeyExpires, LeaderExpires, Tick, table
  <2>2. s = firing[l] /\ at[l] = "fire"
    BY <2>1 DEF Fire, Go, TypeOK
  <2>3. Due(s)
    BY <2>2, LoopsAssumption DEF FireInv, ListsDue
  <2> QED BY <2>3 DEF FireInv, MovedOn, Due
<1> QED
  BY <1>1, LeaderInit, LeaderStep, FireInit, FireStep, Typing, PTL
     DEF Spec, OncePerOccurrence

=============================================================================
