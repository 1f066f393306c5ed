----------------------------- MODULE Scheduler -----------------------------
(***************************************************************************)
(* Recurring schedules: process_due_schedules (services/scheduler/main.py) *)
(* turns every schedule that is due into a task.  It is called by the      *)
(* replicas of the scheduler service, which elect a leader with the Redis  *)
(* lock scheduler:leader, and by a background loop of every API gateway    *)
(* (services/api-gateway/main.py), which elects nobody.                    *)
(*                                                                         *)
(* The due rows are read in one statement and fired one after the other,   *)
(* each under a lock of its own, without being read again.                 *)
(***************************************************************************)
EXTENDS Naturals, FiniteSets

CONSTANTS
    Schedules,      \* enabled rows of the task_schedules table
    Loops,          \* scheduler replicas and gateway loops
    Electing,       \* those of them that take the leader lock
    Interval,       \* interval_seconds, 0 for none
    Cron,           \* schedules with a cron_expression
    CronNext,       \* croniter's next instant, or Never for a bad expression
    Never,          \* NULL in next_run_at and last_run_at
    NoSchedule,     \* what a loop that fires nothing is firing
    LockReliable,   \* no grant without the key, no holder outlives its key
    MaxTime,        \* bound: instants
    MaxFaults       \* bound: crashes and failing commits

ASSUME LoopsAssumption    == Electing \subseteq Loops /\ NoSchedule \notin Schedules
ASSUME IntervalAssumption == Interval \in [Schedules -> Nat] /\ Cron \subseteq Schedules
ASSUME BoundsAssumption   == MaxTime \in Nat /\ MaxFaults \in Nat /\ LockReliable \in BOOLEAN
ASSUME NeverAssumption    == Never \notin Nat
ASSUME CronAssumption     ==
    /\ CronNext \in [Cron -> [0..MaxTime -> Nat \cup {Never}]]
    /\ \A s \in Cron, i \in 0..MaxTime : CronNext[s][i] # Never => CronNext[s][i] > i

VARIABLES
    now,        \* the clock
    nextRun,    \* task_schedules.next_run_at
    lastRun,    \* task_schedules.last_run_at
    tasks,      \* how many tasks have been inserted for each schedule
    leader,     \* whether the key lock:scheduler:leader exists
    keys,       \* schedules whose key lock:schedule:<id> exists
    at,         \* where each loop stands
    began,      \* the instant its pass began, 0 outside one
    list,       \* the rows it has read and not yet dealt with
    firing,     \* the one whose lock it has taken
    faults      \* crashes and failing commits so far

table == <<nextRun, lastRun, tasks>>
locks == <<leader, keys>>
loop  == <<at, began, list, firing>>
vars  == <<now, table, locks, loop, faults>>

Due(s) == nextRun[s] # Never /\ nextRun[s] <= now

Instants == 0..MaxTime

TypeOK ==
    /\ now     \in Instants
    /\ nextRun \in [Schedules -> Nat \cup {Never}]
    /\ lastRun \in [Schedules -> Instants \cup {Never}]
    /\ tasks   \in [Schedules -> Nat]
    /\ leader  \in BOOLEAN
    /\ keys    \in SUBSET Schedules
    /\ at      \in [Loops -> {"idle", "select", "work", "fire", "unlock", "leave"}]
    /\ began   \in [Loops -> Instants]
    /\ list    \in [Loops -> SUBSET Schedules]
    /\ firing  \in [Loops -> Schedules \cup {NoSchedule}]
    /\ faults  \in 0..MaxFaults
    /\ \A l \in Loops : at[l] \in {"fire", "unlock"} <=> firing[l] # NoSchedule
    /\ \A l \in Loops : began[l] <= now
    /\ \A s \in Schedules : lastRun[s] # Never => lastRun[s] <= now

Init ==
    /\ now     = 0
    /\ nextRun \in [Schedules -> Instants]
    /\ lastRun = [s \in Schedules |-> Never]
    /\ tasks   = [s \in Schedules |-> 0]
    /\ leader  = FALSE
    /\ keys    = {}
    /\ at      = [l \in Loops |-> "idle"]
    /\ began   = [l \in Loops |-> 0]
    /\ list    = [l \in Loops |-> {}]
    /\ firing  = [l \in Loops |-> NoSchedule]
    /\ faults  = 0

-----------------------------------------------------------------------------
Go(l, from, to) == at[l] = from /\ at' = [at EXCEPT ![l] = to]

Tick ==
    /\ now < MaxTime
    /\ now' = now + 1
    /\ UNCHANGED <<table, locks, loop, faults>>

(* distributed_lock around a pass or a row: SET NX, or the grant by default *)
(* when Redis raises, which sets nothing.                                   *)
Granted(taken) == taken => ~LockReliable

(* Mutant of Wake: SET without NX. *)
WakeWithoutNX(l) ==
    /\ Go(l, "idle", "select")
    /\ leader' \in IF l \in Electing THEN {TRUE} ELSE {leader}
    /\ UNCHANGED <<now, table, keys, began, list, firing, faults>>

(* run_scheduler waits for the leader lock, gateway_scheduler_loop for nothing. *)
Wake(l) ==
    /\ l \in Electing => Granted(leader)
    /\ Go(l, "idle", "select")
    /\ leader' \in IF l \notin Electing THEN {leader}
                   ELSE IF LockReliable THEN {TRUE} ELSE {leader, TRUE}
    /\ UNCHANGED <<now, table, keys, began, list, firing, faults>>

Select(l) ==
    /\ Go(l, "select", "work")
    /\ began' = [began EXCEPT ![l] = now]
    /\ list' = [list EXCEPT ![l] = {s \in Schedules : Due(s)}]
    /\ UNCHANGED <<now, table, locks, firing, faults>>

-----------------------------------------------------------------------------
(* One turn of the loop over the due rows *)

Lock(l, s) ==
    /\ s \in list[l] /\ Granted(s \in keys)
    /\ Go(l, "work", "fire")
    /\ firing' = [firing EXCEPT ![l] = s]
    /\ keys' \in IF LockReliable THEN {keys \cup {s}} ELSE {keys, keys \cup {s}}
    /\ UNCHANGED <<now, table, leader, began, list, faults>>

(* "if not lock_acquired: continue" *)
Skip(l, s) ==
    /\ at[l] = "work"
    /\ s \in list[l] \cap keys
    /\ list' = [list EXCEPT ![l] = @ \ {s}]
    /\ UNCHANGED <<now, table, locks, at, began, firing, faults>>

(* calculate_next_run, at the time of the call *)
NextRun(s) ==
    IF s \in Cron THEN CronNext[s][now]
    ELSE IF Interval[s] > 0 THEN now + Interval[s] ELSE Never

(* Mutant of Fire: the schedule is not moved on. *)
FireAgain(l) ==
    /\ Go(l, "fire", "unlock")
    /\ tasks' = [tasks EXCEPT ![firing[l]] = @ + 1]
    /\ lastRun' = [lastRun EXCEPT ![firing[l]] = began[l]]
    /\ UNCHANGED <<now, nextRun, locks, began, list, firing, faults>>

(* Mutant of Fire: the two columns of the schedule are mixed up. *)
FireSwapped(l) ==
    /\ Go(l, "fire", "unlock")
    /\ tasks' = [tasks EXCEPT ![firing[l]] = @ + 1]
    /\ lastRun' = [lastRun EXCEPT ![firing[l]] = NextRun(firing[l])]
    /\ nextRun' = [nextRun EXCEPT ![firing[l]] = began[l]]
    /\ UNCHANGED <<now, locks, began, list, firing, faults>>

(* The commit inserts the task, QUEUED, and moves the schedule on.  A lost  *)
(* publish afterwards costs nothing: the poller finds the row.              *)
Fire(l) ==
    /\ Go(l, "fire", "unlock")
    /\ tasks' = [tasks EXCEPT ![firing[l]] = @ + 1]
    /\ lastRun' = [lastRun EXCEPT ![firing[l]] = began[l]]
    /\ nextRun' = [nextRun EXCEPT ![firing[l]] = NextRun(firing[l])]
    /\ UNCHANGED <<now, locks, began, list, firing, faults>>

(* The DEL at the end of the lock may fail, which leaves the key to expire. *)
Unlock(l) ==
    /\ Go(l, "unlock", "work")
    /\ list' = [list EXCEPT ![l] = @ \ {firing[l]}]
    /\ firing' = [firing EXCEPT ![l] = NoSchedule]
    /\ keys' \in {keys, keys \ {firing[l]}}
    /\ UNCHANGED <<now, table, leader, began, faults>>

(* After the last row; a leader then releases delayed tasks (TaskRelease). *)
Done(l) ==
    /\ list[l] = {}
    /\ Go(l, "work", "leave")
    /\ began' = [began EXCEPT ![l] = 0]
    /\ UNCHANGED <<now, table, locks, list, firing, faults>>

Leave(l) ==
    /\ Go(l, "leave", "idle")
    /\ leader' \in IF l \in Electing THEN {leader, FALSE} ELSE {leader}
    /\ UNCHANGED <<now, table, keys, began, list, firing, faults>>

-----------------------------------------------------------------------------
(* Failures *)

Fault == faults < MaxFaults /\ faults' = faults + 1

Drop(l) ==
    /\ began' = [began EXCEPT ![l] = 0]
    /\ list' = [list EXCEPT ![l] = {}]
    /\ firing' = [firing EXCEPT ![l] = NoSchedule]
    /\ keys' \in {keys, keys \ {firing[l]}}

(* A statement raises: the rest of the list is dropped with the session. *)
PassFails(l) ==
    /\ Fault
    /\ at[l] \in {"select", "work", "fire"}
    /\ at' = [at EXCEPT ![l] = "leave"]
    /\ Drop(l)
    /\ UNCHANGED <<now, table, leader>>

(* The process dies and starts again. *)
Crash(l) ==
    /\ Fault
    /\ at[l] # "idle"
    /\ at' = [at EXCEPT ![l] = "idle"]
    /\ Drop(l)
    /\ UNCHANGED <<now, table, leader>>

(* Mutant of LeaderExpires: the key is set without EX. *)
LeaderKeyForGood == FALSE /\ UNCHANGED vars

LeaderExpires ==
    /\ leader
    /\ LockReliable => \A l \in Electing : at[l] = "idle"
    /\ leader' = FALSE
    /\ UNCHANGED <<now, table, keys, loop, faults>>

KeyExpires(s) ==
    /\ s \in keys
    /\ LockReliable => \A l \in Loops : firing[l] # s
    /\ keys' = keys \ {s}
    /\ UNCHANGED <<now, table, leader, loop, faults>>

-----------------------------------------------------------------------------
Turn(l) == \/ \E s \in Schedules : Lock(l, s) \/ Skip(l, s)
           \/ Fire(l) \/ Unlock(l)

Pass(l) == Wake(l) \/ Select(l) \/ Turn(l) \/ Done(l) \/ Leave(l)

Next ==
    \/ \E l \in Loops : Pass(l) \/ PassFails(l) \/ Crash(l)
    \/ \E s \in Schedules : KeyExpires(s)
    \/ LeaderExpires \/ Tick

Spec == Init /\ [][Next]_vars

(* The loops wake every five seconds and run; keys have an expiry.           *)
Fairness ==
    /\ \A l \in Loops : WF_vars(Pass(l))
    /\ \A s \in Schedules : WF_vars(KeyExpires(s))
    /\ WF_vars(LeaderExpires)

FairSpec == Spec /\ Fairness

-----------------------------------------------------------------------------
(* Properties *)

(* Replicas of the scheduler service take turns: a pass begins only when no  *)
(* other is under way, whichever of them dies or fails to delete its key.    *)
Leadership == INSTANCE DistributedLock WITH
    Keys <- {"leader"}, Clients <- Electing,
    inside <- [k \in {"leader"} |-> {l \in Electing : at[l] # "idle"}]

LeaderContract == Leadership!Spec

(* A task is inserted for a schedule only while its row is due, and for an   *)
(* occurrence later than its last run: each occurrence is fired once, by     *)
(* whatever replica, from however old a list.                                *)
OncePerOccurrence ==
    [][\A s \in Schedules : tasks'[s] # tasks[s] =>
           /\ Due(s)
           /\ lastRun[s] # Never => lastRun[s] < nextRun[s]]_vars

(* What is due is fired: no crash, failing commit or left-over key keeps a   *)
(* schedule from its next task for good.                                     *)
DueFires == \A s \in Schedules : Due(s) ~> ~Due(s)

=============================================================================
