---------------------------- MODULE TaskRelease ----------------------------
(***************************************************************************)
(* How a task that must wait is let go: a task with depends_on is PENDING  *)
(* until check_and_trigger_dependents (services/worker/executor.py) finds  *)
(* its prerequisites in SUCCESS, a task with delay_seconds until the       *)
(* scheduler (services/scheduler/main.py) or an operator's priority run    *)
(* finds its countdown over.                                               *)
(*                                                                         *)
(* Each of them reads rows in one statement and writes them in a later     *)
(* one, from copies its session keeps (expire_on_commit=False), and checks *)
(* nothing in between.  The execution itself is only what the release can  *)
(* tell apart; TaskExecution has the rest.                                 *)
(***************************************************************************)
EXTENDS Naturals, Sequences, FiniteSets

CONSTANTS
    Tasks,          \* rows of the tasks table
    Resolvers,      \* check_and_trigger_dependents coroutines live at once
    Schedulers,     \* process_delayed_tasks calls live at once
    NoTask,         \* what an idle resolver works for
    DependsOn,      \* tasks.depends_on
    Delayed         \* tasks created with delay_seconds > 0

ASSUME NoTaskOutside       == NoTask \notin Tasks
ASSUME DependsOnAssumption == DependsOn \in [Tasks -> Seq(Tasks)]
ASSUME DelayedAssumption   == Delayed \subseteq Tasks

VARIABLES
    status,     \* tasks.status; "ABSENT" before the insert, "GONE" once deleted
    creating,   \* the initial_status a create request has decided on
    elapsed,    \* tasks whose scheduled_at has passed
    working,    \* tasks an execution has begun and not yet settled
    phase,      \* where each resolver stands
    of,         \* the completed task it was started for
    list,       \* the PENDING rows it has read
    todo,       \* those of them it has still to examine
    kept,       \* the prerequisite rows it still holds, "ABSENT" where none
    pick,       \* the one it is about to release
    batch,      \* due tasks each scheduler has read and not yet released
    promoting,  \* ready PENDING tasks a priority run has read
    clearing,   \* ids clear_history has selected
    succeeded,  \* history: tasks that have been in SUCCESS
    missed      \* history: tasks a resolver was too early for, or ended before

resolver == <<phase, of, list, todo, kept, pick>>
history  == <<succeeded, missed>>
vars     == <<status, creating, elapsed, working, resolver, batch, promoting,
              clearing, history>>

Missing  == {"ABSENT", "GONE"}
Skipped  == {"SUCCESS", "CANCELLED"}
Terminal == Skipped \cup {"DEAD_LETTERED"}
Status   == Missing \cup Terminal \cup {"PENDING", "QUEUED", "RUNNING"}

Prereqs(t) == {DependsOn[t][i] : i \in DOMAIN DependsOn[t]}

(* all(d.status == SUCCESS for d in rows) and len(rows) == len(depends_on): *)
(* a deleted prerequisite, or one named twice, is never met.                *)
Met(t, view) ==
    LET rows == {d \in Prereqs(t) : view[d] \notin Missing}
    IN  /\ \A d \in rows : view[d] = "SUCCESS"
        /\ Cardinality(rows) = Len(DependsOn[t])

Rows   == [Tasks -> Status]
NoRows == [d \in Tasks |-> "ABSENT"]

Due(t) == t \in Delayed => t \in elapsed

TypeOK ==
    /\ status    \in [Tasks -> Status]
    /\ creating  \in [Tasks -> {"none", "QUEUED", "PENDING"}]
    /\ elapsed   \in SUBSET Tasks
    /\ working   \in SUBSET Tasks
    /\ phase     \in [Resolvers -> {"idle", "spawned", "scanning", "releasing"}]
    /\ of        \in [Resolvers -> Tasks \cup {NoTask}]
    /\ list      \in [Resolvers -> SUBSET Tasks]
    /\ todo      \in [Resolvers -> SUBSET Tasks]
    /\ kept      \in [Resolvers -> Rows]
    /\ pick      \in [Resolvers -> Tasks \cup {NoTask}]
    /\ batch     \in [Schedulers -> SUBSET Tasks]
    /\ promoting \in SUBSET Tasks
    /\ clearing  \in SUBSET Tasks
    /\ succeeded \in SUBSET Tasks
    /\ missed    \in SUBSET Tasks
    /\ \A w \in Resolvers : /\ phase[w] = "idle" <=> of[w] = NoTask
                            /\ phase[w] = "releasing" <=> pick[w] # NoTask

Init ==
    /\ status    = [t \in Tasks |-> "ABSENT"]
    /\ creating  = [t \in Tasks |-> "none"]
    /\ elapsed   = {}
    /\ working   = {}
    /\ phase     = [w \in Resolvers |-> "idle"]
    /\ of        = [w \in Resolvers |-> NoTask]
    /\ list      = [w \in Resolvers |-> {}]
    /\ todo      = [w \in Resolvers |-> {}]
    /\ kept      = [w \in Resolvers |-> NoRows]
    /\ pick      = [w \in Resolvers |-> NoTask]
    /\ batch     = [s \in Schedulers |-> {}]
    /\ promoting = {}
    /\ clearing  = {}
    /\ succeeded = {}
    /\ missed    = {}

-----------------------------------------------------------------------------
(* create_task: the prerequisites are looked up, later the row is inserted.  *)
(* A client knows the id of a prerequisite once that task has been created.  *)
(* create_batch_tasks does the same for each of its tasks before one commit. *)

CreateCheck(t) ==
    /\ status[t] = "ABSENT" /\ creating[t] = "none"
    /\ \A d \in Prereqs(t) : status[d] # "ABSENT"
    /\ creating' = [creating EXCEPT ![t] =
            IF t \in Delayed \/ (DependsOn[t] # <<>> /\ ~Met(t, status))
            THEN "PENDING" ELSE "QUEUED"]
    /\ UNCHANGED <<status, elapsed, working, resolver, batch, promoting, clearing, history>>

CreateCommit(t) ==
    /\ creating[t] # "none"
    /\ status' = [status EXCEPT ![t] = creating[t]]
    /\ creating' = [creating EXCEPT ![t] = "none"]
    /\ missed' = IF Prereqs(t) \subseteq succeeded THEN missed \cup {t} ELSE missed
    /\ UNCHANGED <<elapsed, working, resolver, batch, promoting, clearing, succeeded>>

(* now() passes scheduled_at. *)
Elapse(t) ==
    /\ t \in Delayed \ elapsed
    /\ status[t] # "ABSENT"
    /\ elapsed' = elapsed \cup {t}
    /\ UNCHANGED <<status, creating, working, resolver, batch, promoting, clearing, history>>

-----------------------------------------------------------------------------
(* Executions, one at a time per task (TaskExecution!MutualExclusion) *)

Begin(t) ==
    /\ status[t] = "QUEUED" /\ t \notin working
    /\ status' = [status EXCEPT ![t] = "RUNNING"]
    /\ working' = working \cup {t}
    /\ UNCHANGED <<creating, elapsed, resolver, batch, promoting, clearing, history>>

(* Mutant of Settle: a deleted row is written again. *)
SettleRevives(t, outcome) ==
    /\ t \in working
    /\ working' = working \ {t}
    /\ status' = [status EXCEPT ![t] = outcome]
    /\ UNCHANGED <<creating, elapsed, list, todo, kept, pick, batch, promoting, clearing, missed>>

(* The last commit of an execution writes its outcome over whatever the row  *)
(* says; on a deleted row the UPDATE matches nothing and raises.             *)
Settle(t, outcome) ==
    /\ t \in working
    /\ working' = working \ {t}
    /\ status' = [status EXCEPT ![t] = IF @ = "GONE" THEN @ ELSE outcome]
    /\ UNCHANGED <<creating, elapsed, list, todo, kept, pick, batch, promoting, clearing, missed>>

(* Mutant of Fails: the task gets the status its attempt gets, FAILED, from   *)
(* which nothing here or in the routes leads anywhere.                       *)
FailsAsFailed(t) ==
    /\ \E outcome \in {"QUEUED", "CANCELLED", "FAILED"} : Settle(t, outcome)
    /\ UNCHANGED <<phase, of, succeeded>>

(* QUEUED again after the backoff, CANCELLED on the signal, or no retry left. *)
Fails(t) ==
    /\ \E outcome \in {"QUEUED", "CANCELLED", "DEAD_LETTERED"} : Settle(t, outcome)
    /\ UNCHANGED <<phase, of, succeeded>>

(* asyncio.create_task(check_and_trigger_dependents(task.id)) *)
Spawn(t) == \E w \in Resolvers :
    /\ phase[w] = "idle"
    /\ phase' = [phase EXCEPT ![w] = "spawned"]
    /\ of' = [of EXCEPT ![w] = t]

(* Mutant of Succeeds: no resolver is started. *)
SucceedsSilently(t) ==
    /\ Settle(t, "SUCCESS")
    /\ succeeded' = IF status[t] = "GONE" THEN succeeded ELSE succeeded \cup {t}
    /\ UNCHANGED <<phase, of>>

Succeeds(t) ==
    /\ Settle(t, "SUCCESS")
    /\ IF status[t] = "GONE"
       THEN UNCHANGED <<phase, of, succeeded>>
       ELSE Spawn(t) /\ succeeded' = succeeded \cup {t}

-----------------------------------------------------------------------------
(* check_and_trigger_dependents *)

(* The coroutine is over. *)
Rest(w) ==
    /\ phase' = [phase EXCEPT ![w] = "idle"]
    /\ of'    = [of EXCEPT ![w] = NoTask]
    /\ list'  = [list EXCEPT ![w] = {}]
    /\ todo'  = [todo EXCEPT ![w] = {}]
    /\ kept'  = [kept EXCEPT ![w] = NoRows]
    /\ pick'  = [pick EXCEPT ![w] = NoTask]

(* It is over before its work is done. *)
Ends(w) ==
    /\ Rest(w)
    /\ missed' = missed \cup {t \in Tasks : of[w] \in Prereqs(t)}

Scan(w) ==
    /\ phase[w] = "spawned"
    /\ phase' = [phase EXCEPT ![w] = "scanning"]
    /\ list' = [list EXCEPT ![w] = {t \in Tasks : status[t] = "PENDING"}]
    /\ todo' = [todo EXCEPT ![w] = {t \in Tasks : /\ status[t] = "PENDING"
                                                  /\ of[w] \in Prereqs(t)}]
    /\ UNCHANGED <<status, creating, elapsed, working, of, kept, pick, batch, promoting,
                   clearing, history>>

(* What the query for the prerequisites returns.  The session keeps the copy *)
(* of a row it still holds: every row of the first query, and those of the   *)
(* query for the dependent examined before.                                  *)
Seen(w) == [d \in Tasks |->
    CASE status[d] = "GONE"      -> "GONE"
      [] d \in list[w]           -> "PENDING"
      [] kept[w][d] # "ABSENT"   -> kept[w][d]
      [] OTHER                   -> status[d]]

(* It holds the rows of this query until the next one; after the last one    *)
(* nothing reads them.                                                       *)
Keeps(w, t) == [d \in Tasks |->
    IF d \in Prereqs(t) /\ todo[w] # {t} /\ Seen(w)[d] # "GONE"
    THEN Seen(w)[d] ELSE "ABSENT"]

ExamineWith(w, t, isMet) ==
    /\ phase[w] = "scanning" /\ t \in todo[w]
    /\ todo' = [todo EXCEPT ![w] = @ \ {t}]
    /\ kept' = [kept EXCEPT ![w] = Keeps(w, t)]
    /\ IF isMet
       THEN /\ phase' = [phase EXCEPT ![w] = "releasing"]
            /\ pick' = [pick EXCEPT ![w] = t]
       ELSE UNCHANGED <<phase, pick>>
    /\ UNCHANGED <<status, creating, elapsed, working, of, list, batch, promoting,
                   clearing, history>>

(* Mutant of Examine: one prerequisite in SUCCESS is enough. *)
ExamineAny(w, t) == ExamineWith(w, t, \E d \in Prereqs(t) : Seen(w)[d] = "SUCCESS")

Examine(w, t) == ExamineWith(w, t, Met(t, Seen(w)))

(* Mutant of Release: the message is published, the row is not written. *)
ReleaseUnsaved(w) ==
    /\ phase[w] = "releasing"
    /\ phase' = [phase EXCEPT ![w] = "scanning"]
    /\ pick' = [pick EXCEPT ![w] = NoTask]
    /\ UNCHANGED <<status, of, list, todo, kept, creating, elapsed, working, batch, promoting,
                   clearing, history>>

(* The copy says PENDING, so QUEUED is written whatever the row says now; a  *)
(* deleted row raises, and the coroutine ends.                               *)
Release(w) ==
    /\ phase[w] = "releasing"
    /\ IF status[pick[w]] = "GONE"
       THEN Ends(w) /\ UNCHANGED status
       ELSE /\ status' = [status EXCEPT ![pick[w]] = "QUEUED"]
            /\ phase' = [phase EXCEPT ![w] = "scanning"]
            /\ pick' = [pick EXCEPT ![w] = NoTask]
            /\ UNCHANGED <<of, list, todo, kept, missed>>
    /\ UNCHANGED <<creating, elapsed, working, batch, promoting, clearing, succeeded>>

Done(w) ==
    /\ phase[w] = "scanning" /\ todo[w] = {}
    /\ Rest(w)
    /\ UNCHANGED <<status, creating, elapsed, working, batch, promoting, clearing, history>>

(* The process dies, or a statement raises and the coroutine logs it. *)
ResolverDies(w) ==
    /\ phase[w] # "idle"
    /\ Ends(w)
    /\ UNCHANGED <<status, creating, elapsed, working, batch, promoting, clearing, succeeded>>

-----------------------------------------------------------------------------
(* process_delayed_tasks: depends_on is not looked at. *)

(* Mutant of Poll: the countdown is not compared with now. *)
PollEarly(s) ==
    /\ batch[s] = {}
    /\ batch' = [batch EXCEPT ![s] = {t \in Delayed : status[t] = "PENDING"}]
    /\ UNCHANGED <<status, creating, elapsed, working, resolver, promoting, clearing, history>>

Poll(s) ==
    /\ batch[s] = {}
    /\ batch' = [batch EXCEPT ![s] = {t \in Delayed \cap elapsed : status[t] = "PENDING"}]
    /\ UNCHANGED <<status, creating, elapsed, working, resolver, promoting, clearing, history>>

(* One turn of the loop, under lock:task:delay:<id>. *)
ReleaseDelayed(s, t) ==
    /\ t \in batch[s]
    /\ IF status[t] = "GONE"
       THEN batch' = [batch EXCEPT ![s] = {}] /\ UNCHANGED status
       ELSE /\ batch' = [batch EXCEPT ![s] = @ \ {t}]
            /\ status' = [status EXCEPT ![t] = "QUEUED"]
    /\ UNCHANGED <<creating, elapsed, working, resolver, promoting, clearing, history>>

(* It dies, loses the database, or fails to get the lock for the rest. *)
SchedulerStops(s) ==
    /\ batch[s] # {}
    /\ batch' = [batch EXCEPT ![s] = {}]
    /\ UNCHANGED <<status, creating, elapsed, working, resolver, promoting, clearing, history>>

-----------------------------------------------------------------------------
(* Requests *)

(* process_priority_queue promotes the PENDING tasks that wait for nothing. *)
PromoteSelect ==
    /\ promoting = {}                           \* bound: one run at a time
    /\ promoting' = {t \in Tasks : status[t] = "PENDING" /\ DependsOn[t] = <<>> /\ Due(t)}
    /\ UNCHANGED <<status, creating, elapsed, working, resolver, batch, clearing, history>>

PromoteCommit ==
    /\ promoting # {}
    /\ promoting' = {}
    /\ status' = IF \E t \in promoting : status[t] = "GONE" THEN status
                 ELSE [t \in Tasks |-> IF t \in promoting THEN "QUEUED" ELSE status[t]]
    /\ UNCHANGED <<creating, elapsed, working, resolver, batch, clearing, history>>

(* cancel_task and retry_task; their own races are TaskExecution's. *)
Cancel(t) ==
    /\ status[t] \notin Terminal \cup Missing
    /\ status' = [status EXCEPT ![t] = "CANCELLED"]
    /\ UNCHANGED <<creating, elapsed, working, resolver, batch, promoting, clearing, history>>

Retry(t) ==
    /\ status[t] = "DEAD_LETTERED"
    /\ status' = [status EXCEPT ![t] = "QUEUED"]
    /\ UNCHANGED <<creating, elapsed, working, resolver, batch, promoting, clearing, history>>

ClearSelect ==
    /\ clearing = {}                            \* bound: one request at a time
    /\ clearing' = {t \in Tasks : status[t] \in Skipped}
    /\ UNCHANGED <<status, creating, elapsed, working, resolver, batch, promoting, history>>

(* DELETE ... WHERE id IN (the ids selected before) *)
ClearDelete ==
    /\ clearing # {}
    /\ clearing' = {}
    /\ status' = [t \in Tasks |-> IF t \in clearing THEN "GONE" ELSE status[t]]
    /\ UNCHANGED <<creating, elapsed, working, resolver, batch, promoting, history>>

-----------------------------------------------------------------------------
Resolve(w) == Scan(w) \/ (\E t \in Tasks : Examine(w, t)) \/ Release(w) \/ Done(w)

Execute(t) == Begin(t) \/ Fails(t) \/ Succeeds(t)

Next ==
    \/ \E t \in Tasks : \/ CreateCheck(t) \/ CreateCommit(t) \/ Elapse(t)
                        \/ Execute(t) \/ Cancel(t) \/ Retry(t)
    \/ \E w \in Resolvers : Resolve(w) \/ ResolverDies(w)
    \/ \E s \in Schedulers : \/ Poll(s) \/ SchedulerStops(s)
                             \/ \E t \in Tasks : ReleaseDelayed(s, t)
    \/ PromoteSelect \/ PromoteCommit \/ ClearSelect \/ ClearDelete

Spec == Init /\ [][Next]_vars

(* Coroutines run on, time passes, and the scheduler polls every five        *)
(* seconds and works through what it read.                                   *)
Fairness ==
    /\ \A w \in Resolvers : WF_vars(Resolve(w))
    /\ \A t \in Tasks : WF_vars(CreateCommit(t)) /\ WF_vars(Elapse(t)) /\ WF_vars(Execute(t))
    /\ \A s \in Schedulers : /\ WF_vars(Poll(s))
                             /\ \A t \in Tasks : SF_vars(ReleaseDelayed(s, t))

FairSpec == Spec /\ Fairness

-----------------------------------------------------------------------------
(* Properties *)

(* The status of each task moves as TaskLife allows: a deleted row does not  *)
(* come back from a copy read before, a row that is being inserted is not    *)
(* touched, and a PENDING task is queued before anything executes it.        *)
Life == INSTANCE TaskLife

LifeContract == Life!Spec

(* No execution of a task begins before each of its prerequisites has been   *)
(* in SUCCESS, whoever released it and from however old a copy of the rows.  *)
PrereqsFirst ==
    [][\A t \in Tasks : status[t] = "QUEUED" /\ status'[t] = "RUNNING"
                          => Prereqs(t) \subseteq succeeded]_vars

(* No execution of a delayed task begins before its countdown is over.       *)
CountdownFirst ==
    [][\A t \in Tasks : status[t] = "QUEUED" /\ status'[t] = "RUNNING"
                          => Due(t)]_vars

(* A resolver has yet to find t and will release it. *)
Owes(w, t) ==
    \/ phase[w] = "spawned" /\ of[w] \in Prereqs(t)
    \/ /\ phase[w] # "idle" /\ t \in todo[w]
       /\ \A d \in Prereqs(t) : d \notin list[w] /\ kept[w][d] \in {"ABSENT", "SUCCESS"}
    \/ pick[w] = t

(* A task whose prerequisites are all in SUCCESS is not forgotten in         *)
(* PENDING: prerequisites that succeed at the same time do not each leave    *)
(* the release to the other.  It is lost in two ways only, which missed      *)
(* records: the task was inserted after the last prerequisite succeeded, or  *)
(* a resolver of one of them ended early.                                    *)
NoLostWakeup ==
    \A t \in Tasks \ missed :
        status[t] = "PENDING" /\ DependsOn[t] # <<>> /\ Met(t, status)
        => \E w \in Resolvers : Owes(w, t)

(* What has nothing left to wait for leaves PENDING, by the scheduler when    *)
(* its countdown was all it waited for, by a resolver otherwise.             *)
Ready(t) ==
    /\ status[t] = "PENDING"
    /\ IF DependsOn[t] = <<>> THEN Due(t) ELSE t \notin missed /\ Met(t, status)

EventuallyReleased == \A t \in Tasks : Ready(t) ~> ~Ready(t)

=============================================================================
