--------------------------- MODULE TaskExecution ---------------------------
(***************************************************************************)
(* The execution pipeline of CloudTask: how a submitted task travels from  *)
(* the task service through RabbitMQ and the database poller to            *)
(* execute_task (services/worker/executor.py), and how cancel, retry and   *)
(* replay requests interfere with an execution in flight.                  *)
(*                                                                         *)
(* Four stores are shared: the tasks table (status, attempt) and the       *)
(* task_attempts table (completed counts its SUCCESS rows), the Redis lock *)
(* keys (locked), and the broker's ready messages (queue).  A runner is    *)
(* one activation of execute_task, in any worker or gateway process; it is *)
(* started by a broker message or by asyncio.create_task, and every await  *)
(* of the code is a point at which the others may move.                    *)
(***************************************************************************)
EXTENDS Integers, FiniteSets

CONSTANTS
    Tasks,          \* rows of the tasks table
    Runners,        \* activations of execute_task that can be live at once
    NoTask,         \* the job of an idle runner
    MaxRetries,     \* tasks.max_retries
    Modes,          \* the execution modes to consider: "auto", "manual"
    LockReliable,   \* no grant without the key, no execution outlives its key
    BrokerMayFail,  \* a publish to RabbitMQ may fail
    DbMayFail,      \* a database statement of an execution may fail
    PollersCrash,   \* an execution no message stands for may die
    MaxFaults,      \* bound: crashes and lost broker connections
    MaxRedrives     \* bound: committed retry/replay requests per task

ASSUME NoTaskAssumption    == NoTask \notin Tasks
ASSUME MaxRetriesAssumption == MaxRetries \in [Tasks -> Nat]
ASSUME ModesAssumption     == Modes \subseteq {"auto", "manual"}
ASSUME FlagsAssumption     == /\ LockReliable \in BOOLEAN
                              /\ BrokerMayFail \in BOOLEAN
                              /\ DbMayFail \in BOOLEAN
                              /\ PollersCrash \in BOOLEAN
ASSUME BoundsAssumption    == MaxFaults \in Nat /\ MaxRedrives \in Nat

VARIABLES
    status,     \* tasks.status, "ABSENT" before the insert
    attempt,    \* tasks.current_attempt
    completed,  \* how many task_attempts rows of the task have status SUCCESS
    locked,     \* tasks whose key lock:task:<id> exists in Redis (no owner)
    queue,      \* ready messages per task on the broker's task queue
    pc,         \* where each activation of execute_task stands
    job,        \* the task it was given
    via,        \* "message": an unacknowledged message stands for it
    seen,       \* its session's copy of the row (expire_on_commit=False)
    abort,      \* its subscription to task:abort:<id>
    posting,    \* create requests between their commit and their publish
    cancel,     \* cancel requests in flight
    redrive,    \* retry and replay requests in flight
    read,       \* current_attempt as the redrive request loaded it
    redriven,   \* committed redrives per task
    faults,     \* crashes and lost connections so far
    mode        \* cloudtask:execution_mode

table    == <<status, attempt, completed>>
runner   == <<pc, job, via, seen, abort>>
requests == <<posting, cancel, redrive, read, redriven>>
env      == <<faults, mode>>
vars     == <<table, locked, queue, runner, requests, env>>

(* TaskStatus.FAILED is declared in the model and assigned nowhere; PENDING *)
(* belongs to the release of delayed and dependent tasks.                   *)
Status   == {"ABSENT", "QUEUED", "RUNNING", "RETRY", "SUCCESS", "CANCELLED",
             "DEAD_LETTERED"}
Skipped  == {"CANCELLED", "SUCCESS"}            \* what execute_task refuses
Terminal == Skipped \cup {"DEAD_LETTERED"}

(* The stages of execute_task, named for what the runner does next. *)
Guarded  == {"begin", "start", "handler", "persist", "succeed", "fail",
             "aborted", "backoff", "publish"}   \* past the status guard
Working  == Guarded \ {"publish"}               \* has still to settle the row
Critical == Guarded \cup {"load", "release"}    \* inside distributed_lock
Stages   == Critical \cup {"idle", "lock", "reply"}

Fresh == [status |-> "ABSENT", attempt |-> 0]

Holders(t) == {r \in Runners : job[r] = t /\ pc[r] \in Critical}

TypeOK ==
    /\ status    \in [Tasks -> Status]
    /\ attempt   \in [Tasks -> Nat]
    /\ completed \in [Tasks -> Nat]
    /\ locked    \in SUBSET Tasks
    /\ queue     \in [Tasks -> Nat]
    /\ pc        \in [Runners -> Stages]
    /\ job       \in [Runners -> Tasks \cup {NoTask}]
    /\ via       \in [Runners -> {"message", "spawned"}]
    /\ seen      \in [Runners -> [status : Status, attempt : Nat]]
    /\ abort     \in [Runners -> {"off", "listening", "signalled"}]
    /\ posting   \in SUBSET Tasks
    /\ cancel    \in [Tasks -> {"none", "checked", "committed"}]
    /\ redrive   \in [Tasks -> {"none", "retry", "retried", "replay", "replayed"}]
    /\ read      \in [Tasks -> Nat]
    /\ redriven  \in [Tasks -> Nat]
    /\ faults    \in Nat
    /\ mode      \in Modes
    /\ \A r \in Runners : pc[r] = "idle" <=> job[r] = NoTask

Init ==
    /\ status    = [t \in Tasks |-> "ABSENT"]
    /\ attempt   = [t \in Tasks |-> 0]
    /\ completed = [t \in Tasks |-> 0]
    /\ locked    = {}
    /\ queue     = [t \in Tasks |-> 0]
    /\ pc        = [r \in Runners |-> "idle"]
    /\ job       = [r \in Runners |-> NoTask]
    /\ via       = [r \in Runners |-> "spawned"]
    /\ seen      = [r \in Runners |-> Fresh]
    /\ abort     = [r \in Runners |-> "off"]
    /\ posting   = {}
    /\ cancel    = [t \in Tasks |-> "none"]
    /\ redrive   = [t \in Tasks |-> "none"]
    /\ read      = [t \in Tasks |-> 0]
    /\ redriven  = [t \in Tasks |-> 0]
    /\ faults    = 0
    /\ mode      \in Modes

-----------------------------------------------------------------------------
(* SQLAlchemy's flush writes a column only when the new value differs from  *)
(* the one the session loaded; the row may have changed since.              *)
Written(current, loaded, new) == IF new = loaded THEN current ELSE new

Go(r, from, to) == pc[r] = from /\ pc' = [pc EXCEPT ![r] = to]

(* A new activation of execute_task(t). *)
Start(r, t, how) ==
    /\ Go(r, "idle", "lock")
    /\ job' = [job EXCEPT ![r] = t]
    /\ via' = [via EXCEPT ![r] = how]
    /\ UNCHANGED <<seen, abort>>

(* The activation is over and its session is closed. *)
Stop(r) ==
    /\ pc'    = [pc EXCEPT ![r] = "idle"]
    /\ job'   = [job EXCEPT ![r] = NoTask]
    /\ via'   = [via EXCEPT ![r] = "spawned"]
    /\ seen'  = [seen EXCEPT ![r] = Fresh]
    /\ abort' = [abort EXCEPT ![r] = "off"]

Put(t) == queue' = [queue EXCEPT ![t] = @ + 1]

(* A publish whose exception the caller swallows. *)
PutOrLose(t) == Put(t) \/ (BrokerMayFail /\ UNCHANGED queue)

-----------------------------------------------------------------------------
(* Creating a task: the row is committed first, the message follows. *)

Submit(t) ==
    /\ status[t] = "ABSENT"
    /\ status' = [status EXCEPT ![t] = "QUEUED"]
    /\ posting' = posting \cup {t}
    /\ UNCHANGED <<attempt, completed, locked, queue, runner, cancel, redrive,
                   read, redriven, env>>

Posted(t) ==
    /\ t \in posting
    /\ posting' = posting \ {t}
    /\ UNCHANGED <<table, locked, cancel, redrive, read, redriven, env>>

SubmitPublish(t) ==
    /\ mode = "auto"
    /\ Posted(t)
    /\ Put(t)
    /\ UNCHANGED runner

SubmitDirect(t) ==
    /\ mode = "auto" /\ BrokerMayFail
    /\ Posted(t)
    /\ \E r \in Runners : Start(r, t, "spawned")
    /\ UNCHANGED queue

SubmitStaged(t) ==
    /\ mode = "manual"
    /\ Posted(t)
    /\ UNCHANGED <<queue, runner>>

-----------------------------------------------------------------------------
(* How an execution starts: on_message, the poller's create_task, or the    *)
(* priority run an operator starts in either mode.                          *)

Deliver(r, t) ==
    /\ queue[t] > 0
    /\ queue' = [queue EXCEPT ![t] = @ - 1]
    /\ Start(r, t, "message")
    /\ UNCHANGED <<table, locked, requests, env>>

Poll(r, t) ==
    /\ mode = "auto"
    /\ status[t] = "QUEUED"
    /\ Start(r, t, "spawned")
    /\ UNCHANGED <<table, locked, queue, requests, env>>

(* The run works through the list it read; a task it has not reached yet is *)
(* an activation still waiting for its lock.                                *)
Dispatch(r, t) ==
    /\ status[t] = "QUEUED"
    /\ Start(r, t, "spawned")
    /\ UNCHANGED <<table, locked, queue, requests, env>>

SetMode ==
    /\ mode' \in Modes
    /\ UNCHANGED <<table, locked, queue, runner, requests, faults>>

-----------------------------------------------------------------------------
(* distributed_lock *)

(* Mutant of Acquire: SET without NX. *)
AcquireWithoutNX(r) ==
    /\ Go(r, "lock", "load")
    /\ locked' = locked \cup {job[r]}
    /\ UNCHANGED <<table, queue, job, via, seen, abort, requests, env>>

Acquire(r) ==
    /\ job[r] \notin locked
    /\ Go(r, "lock", "load")
    /\ locked' = locked \cup {job[r]}
    /\ UNCHANGED <<table, queue, job, via, seen, abort, requests, env>>

(* Redis raised: the "single-node grant". *)
AcquireFallback(r) ==
    /\ ~LockReliable
    /\ Go(r, "lock", "load")
    /\ UNCHANGED <<table, locked, queue, job, via, seen, abort, requests, env>>

(* Fifty refusals: (False, True, False), and on_message nacks with requeue. *)
LockTimeout(r) ==
    /\ pc[r] = "lock" /\ job[r] \in locked
    /\ Stop(r)
    /\ IF via[r] = "message" THEN Put(job[r]) ELSE UNCHANGED queue
    /\ UNCHANGED <<table, locked, requests, env>>

(* The finally block: DEL whether or not the key is still this holder's. *)
Release(r) ==
    /\ Go(r, "release", "reply")
    /\ locked' = locked \ {job[r]}
    /\ UNCHANGED <<table, queue, job, via, seen, abort, requests, env>>

(* The DEL raised; the key stays until it expires. *)
ReleaseFails(r) ==
    /\ Go(r, "release", "reply")
    /\ UNCHANGED <<table, locked, queue, job, via, seen, abort, requests, env>>

(* EX 60.  A reliable lock only ever expires with nobody behind it. *)
LockExpires(t) ==
    /\ t \in locked
    /\ LockReliable => Holders(t) = {}
    /\ locked' = locked \ {t}
    /\ UNCHANGED <<table, queue, runner, requests, env>>

-----------------------------------------------------------------------------
(* The body of execute_task *)

(* It returns: the session is closed, the lock is released next. *)
Leave(r) ==
    /\ pc' = [pc EXCEPT ![r] = "release"]
    /\ seen' = [seen EXCEPT ![r] = Fresh]

LoadSkipping(r, settled) ==
    /\ pc[r] = "load"
    /\ IF status[job[r]] \in settled
       THEN Leave(r)
       ELSE /\ pc' = [pc EXCEPT ![r] = "begin"]
            /\ seen' = [seen EXCEPT ![r] = [status  |-> status[job[r]],
                                            attempt |-> attempt[job[r]]]]
    /\ UNCHANGED <<table, locked, queue, job, via, abort, requests, env>>

(* Mutant of Load: the idempotent guard on SUCCESS is missing. *)
LoadRunsCompleted(r) == LoadSkipping(r, {"CANCELLED"})

(* Mutant of Load: the guard on CANCELLED is missing. *)
LoadRunsCancelled(r) == LoadSkipping(r, {"SUCCESS"})

Load(r) == LoadSkipping(r, Skipped)

(* A commit of the session's task.status. *)
SetStatus(r, new) ==
    status' = [status EXCEPT ![job[r]] = Written(@, seen[r].status, new)]

Begin(r) ==
    /\ Go(r, "begin", "start")
    /\ SetStatus(r, "RUNNING")
    /\ attempt' = [attempt EXCEPT ![job[r]] = seen[r].attempt + 1]
    /\ seen' = [seen EXCEPT ![r] = [status  |-> "RUNNING",
                                    attempt |-> seen[r].attempt + 1]]
    /\ UNCHANGED <<completed, locked, queue, job, via, abort, requests, env>>

(* The attempt row is inserted and the abort watcher subscribes, or cannot. *)
Subscribe(r) ==
    /\ Go(r, "start", "handler")
    /\ \E a \in {"listening", "off"} : abort' = [abort EXCEPT ![r] = a]
    /\ UNCHANGED <<table, locked, queue, job, via, seen, requests, env>>

HandlerSucceeds(r) ==
    /\ Go(r, "handler", "persist")
    /\ UNCHANGED <<table, locked, queue, job, via, seen, abort, requests, env>>

(* The handler raised, timed out, or the watcher died first and nothing had  *)
(* succeeded.  (A failing commit of progress = 70 leaves success as it is:   *)
(* the execution goes on as after Persisted, or DbFails ends it.)            *)
HandlerFails(r) ==
    /\ Go(r, "handler", "fail")
    /\ abort' = [abort EXCEPT ![r] = "off"]
    /\ UNCHANGED <<table, locked, queue, job, via, seen, requests, env>>

(* The watcher reads the signal while the handler or the 0.3 s pause runs. *)
NoticeAbort(r) ==
    /\ abort[r] = "signalled"
    /\ pc[r] \in {"handler", "persist"}
    /\ pc' = [pc EXCEPT ![r] = "aborted"]
    /\ abort' = [abort EXCEPT ![r] = "off"]
    /\ UNCHANGED <<table, locked, queue, job, via, seen, requests, env>>

(* progress = 70 is saved, the pause is over and the watcher is stopped. *)
Persisted(r) ==
    /\ Go(r, "persist", "succeed")
    /\ abort' = [abort EXCEPT ![r] = "off"]
    /\ UNCHANGED <<table, locked, queue, job, via, seen, requests, env>>

CommitAbort(r) ==
    /\ pc[r] = "aborted"
    /\ SetStatus(r, "CANCELLED")
    /\ Leave(r)
    /\ UNCHANGED <<attempt, completed, locked, queue, job, via, abort, requests, env>>

CommitSuccess(r) ==
    /\ pc[r] = "succeed"
    /\ SetStatus(r, "SUCCESS")
    /\ completed' = [completed EXCEPT ![job[r]] = @ + 1]
    /\ Leave(r)
    /\ UNCHANGED <<attempt, locked, queue, job, via, abort, requests, env>>

CommitRetry(r) ==
    /\ Go(r, "fail", "backoff")
    /\ seen[r].attempt < MaxRetries[job[r]]
    /\ SetStatus(r, "RETRY")
    /\ seen' = [seen EXCEPT ![r].status = "RETRY"]
    /\ UNCHANGED <<attempt, completed, locked, queue, job, via, abort, requests, env>>

(* Mutant of CommitDead: the other status the model declares is written,    *)
(* which no reader of the row knows.                                        *)
CommitDeadFailed(r) ==
    /\ pc[r] = "fail"
    /\ seen[r].attempt >= MaxRetries[job[r]]
    /\ SetStatus(r, "FAILED")
    /\ Leave(r)
    /\ UNCHANGED <<attempt, completed, locked, queue, job, via, abort, requests, env>>

CommitDead(r) ==
    /\ pc[r] = "fail"
    /\ seen[r].attempt >= MaxRetries[job[r]]
    /\ SetStatus(r, "DEAD_LETTERED")
    /\ Leave(r)
    /\ UNCHANGED <<attempt, completed, locked, queue, job, via, abort, requests, env>>

(* Mutant of Requeue: the retry is published without writing QUEUED back. *)
RequeueUnsaved(r) ==
    /\ Go(r, "backoff", "publish")
    /\ UNCHANGED <<table, locked, queue, job, via, seen, abort, requests, env>>

(* The backoff is slept inside the lock. *)
Requeue(r) ==
    /\ Go(r, "backoff", "publish")
    /\ SetStatus(r, "QUEUED")
    /\ seen' = [seen EXCEPT ![r].status = "QUEUED"]
    /\ UNCHANGED <<attempt, completed, locked, queue, job, via, abort, requests, env>>

PublishRetry(r) ==
    /\ pc[r] = "publish"
    /\ PutOrLose(job[r])
    /\ Leave(r)
    /\ UNCHANGED <<table, locked, job, via, abort, requests, env>>

(* on_message acks, or nacks without requeue: the message leaves the queue  *)
(* for good either way (nothing consumes the broker's dead-letter queue).   *)
Reply(r) ==
    /\ pc[r] = "reply"
    /\ Stop(r)
    /\ UNCHANGED <<table, locked, queue, requests, env>>

-----------------------------------------------------------------------------
(* Failures of an execution *)

(* A statement raises out of execute_task: the lock is released and the     *)
(* message is nacked without requeue, whatever the row says.                *)
DbFails(r) ==
    /\ DbMayFail
    /\ pc[r] \in {"load", "begin", "start", "aborted", "succeed", "fail", "backoff"}
    /\ Leave(r)
    /\ UNCHANGED <<table, locked, queue, job, via, abort, requests, env>>

Fault == faults < MaxFaults /\ faults' = faults + 1

(* Mutant of Crash: messages are acknowledged on receipt. *)
CrashAutoAck(r) ==
    /\ Fault
    /\ pc[r] # "idle"
    /\ via[r] = "message" \/ PollersCrash
    /\ UNCHANGED <<table, locked, queue, requests, mode>>
    /\ Stop(r)

(* The process dies: its message goes back to the queue, and the lock key   *)
(* stays (kill) or is deleted on the way out (an orderly shutdown).         *)
Crash(r) ==
    /\ Fault
    /\ pc[r] # "idle"
    /\ via[r] = "message" \/ PollersCrash
    /\ IF via[r] = "message" THEN Put(job[r]) ELSE UNCHANGED queue
    /\ \/ UNCHANGED locked
       \/ pc[r] \in Critical /\ locked' = locked \ {job[r]}
    /\ Stop(r)
    /\ UNCHANGED <<table, requests, mode>>

(* The broker connection drops while the handler goes on: the message is    *)
(* redelivered to another worker and the late acknowledgement is void.      *)
Disconnect(r) ==
    /\ Fault
    /\ pc[r] # "idle" /\ via[r] = "message"
    /\ via' = [via EXCEPT ![r] = "spawned"]
    /\ Put(job[r])
    /\ UNCHANGED <<table, locked, pc, job, seen, abort, requests, mode>>

-----------------------------------------------------------------------------
(* POST /{task_id}/cancel *)

CancelCheck(t) ==
    /\ cancel[t] = "none"                       \* bound: one request per task
    /\ status[t] \notin Terminal \cup {"ABSENT"}
    /\ cancel' = [cancel EXCEPT ![t] = "checked"]
    /\ UNCHANGED <<table, locked, queue, runner, posting, redrive, read, redriven, env>>

CancelCommit(t) ==
    /\ cancel[t] = "checked"
    /\ cancel' = [cancel EXCEPT ![t] = "committed"]
    /\ status' = [status EXCEPT ![t] = "CANCELLED"]
    /\ UNCHANGED <<attempt, completed, locked, queue, runner, posting, redrive,
                   read, redriven, env>>

(* PUBLISH reaches the subscribers there are, and keeps nothing for later. *)
CancelSignal(t) ==
    /\ cancel[t] = "committed"
    /\ cancel' = [cancel EXCEPT ![t] = "none"]
    /\ abort' = [r \in Runners |-> IF job[r] = t /\ abort[r] = "listening"
                                   THEN "signalled" ELSE abort[r]]
    /\ UNCHANGED <<table, locked, queue, pc, job, via, seen, posting, redrive,
                   read, redriven, env>>

-----------------------------------------------------------------------------
(* POST /{task_id}/retry and POST /dlq/replay-all *)

Redrivable(t) ==
    /\ status[t] = "DEAD_LETTERED"
    /\ redrive[t] = "none"                      \* bound: one request per task
    /\ redriven[t] < MaxRedrives

RetryCheck(t) ==
    /\ Redrivable(t)
    /\ redrive' = [redrive EXCEPT ![t] = "retry"]
    /\ read' = [read EXCEPT ![t] = attempt[t]]
    /\ UNCHANGED <<table, locked, queue, runner, posting, cancel, redriven, env>>

(* The commit of a redrive: QUEUED and current_attempt 0 for every task of S. *)
Redriven(S) ==
    /\ status' = [t \in Tasks |-> IF t \in S THEN "QUEUED" ELSE status[t]]
    /\ attempt' = [t \in Tasks |-> IF t \in S THEN Written(attempt[t], read[t], 0)
                                   ELSE attempt[t]]
    /\ read' = [t \in Tasks |-> IF t \in S THEN 0 ELSE read[t]]
    /\ redriven' = [t \in Tasks |-> IF t \in S THEN redriven[t] + 1 ELSE redriven[t]]

RetryCommit(t) ==
    /\ redrive[t] = "retry"
    /\ Redriven({t})
    /\ redrive' = [redrive EXCEPT ![t] = "retried"]
    /\ UNCHANGED <<completed, locked, queue, runner, posting, cancel, env>>

RetryPublish(t) ==
    /\ redrive[t] = "retried"
    /\ redrive' = [redrive EXCEPT ![t] = "none"]
    /\ PutOrLose(t)
    /\ UNCHANGED <<table, locked, runner, posting, cancel, read, redriven, env>>

Replaying == {t \in Tasks : redrive[t] \in {"replay", "replayed"}}

ReplaySelect ==
    /\ Replaying = {}                           \* bound: one replay at a time
    /\ \E t \in Tasks : Redrivable(t)
    /\ redrive' = [t \in Tasks |-> IF Redrivable(t) THEN "replay" ELSE redrive[t]]
    /\ read' = [t \in Tasks |-> IF Redrivable(t) THEN attempt[t] ELSE read[t]]
    /\ UNCHANGED <<table, locked, queue, runner, posting, cancel, redriven, env>>

(* The loop publishes each task before anything is committed. *)
ReplayPublish(t) ==
    /\ redrive[t] = "replay"
    /\ redrive' = [redrive EXCEPT ![t] = "replayed"]
    /\ PutOrLose(t)
    /\ UNCHANGED <<table, locked, runner, posting, cancel, read, redriven, env>>

ReplayCommit ==
    /\ Replaying # {}
    /\ \A t \in Replaying : redrive[t] = "replayed"
    /\ Redriven(Replaying)
    /\ redrive' = [t \in Tasks |-> IF t \in Replaying THEN "none" ELSE redrive[t]]
    /\ UNCHANGED <<completed, locked, queue, runner, posting, cancel, env>>

(* The API process dies: what its requests had still to do is lost. *)
ApiCrash ==
    /\ Fault
    /\ posting' = {}
    /\ cancel' = [t \in Tasks |-> "none"]
    /\ redrive' = [t \in Tasks |-> "none"]
    /\ read' = [t \in Tasks |-> 0]
    /\ UNCHANGED <<table, locked, queue, runner, redriven, mode>>

-----------------------------------------------------------------------------
Body(r) == \/ Load(r) \/ Begin(r) \/ Subscribe(r)
           \/ HandlerSucceeds(r) \/ HandlerFails(r) \/ NoticeAbort(r)
           \/ Persisted(r) \/ CommitAbort(r) \/ CommitSuccess(r)
           \/ CommitRetry(r) \/ CommitDead(r) \/ Requeue(r) \/ PublishRetry(r)

Locking(r) == \/ Acquire(r) \/ AcquireFallback(r) \/ LockTimeout(r)
              \/ Release(r) \/ ReleaseFails(r)

(* What an activation does by itself, given processor time. *)
Step(r) == Body(r) \/ Locking(r) \/ Reply(r)

Posts(t) == SubmitPublish(t) \/ SubmitDirect(t) \/ SubmitStaged(t)

Answers(t) == \/ Posts(t)
              \/ CancelCommit(t) \/ CancelSignal(t)
              \/ RetryCommit(t) \/ RetryPublish(t) \/ ReplayPublish(t)

Next ==
    \/ \E r \in Runners : Step(r) \/ DbFails(r) \/ Crash(r) \/ Disconnect(r)
    \/ \E r \in Runners, t \in Tasks : Deliver(r, t) \/ Poll(r, t) \/ Dispatch(r, t)
    \/ \E t \in Tasks : \/ Submit(t) \/ Answers(t) \/ LockExpires(t)
                        \/ CancelCheck(t) \/ RetryCheck(t)
    \/ ReplaySelect \/ ReplayCommit \/ ApiCrash \/ SetMode

Spec == Init /\ [][Next]_vars

(* The event loops run every ready coroutine, the broker delivers what is   *)
(* ready, keys expire, and a request the API has accepted is answered.      *)
(* Polling every two seconds is a gateway's that has services/worker beside *)
(* it (run_local.sh, Dockerfile.render), or a worker's that could not       *)
(* subscribe; a deployment with neither does not have this fairness, and    *)
(* nothing there makes up for a lost publish.  Users and faults owe nothing. *)
Fairness ==
    /\ \A r \in Runners : WF_vars(Step(r))
    /\ \A t \in Tasks : /\ WF_vars(\E r \in Runners : Deliver(r, t))
                        /\ WF_vars(\E r \in Runners : Poll(r, t))
                        /\ WF_vars(LockExpires(t))
                        /\ WF_vars(Answers(t))
    /\ WF_vars(ReplayCommit)

FairSpec == Spec /\ Fairness

-----------------------------------------------------------------------------
(* Properties *)

(* Two activations are never inside distributed_lock for one task: the      *)
(* redelivered, polled and directly spawned copies of a task exclude each   *)
(* other as long as the lock is reliable.                                   *)
MutualExclusion ==
    \A r, s \in Runners :
        /\ pc[r] \in Critical /\ pc[s] \in Critical
        /\ job[r] = job[s]
        => r = s

(* The status of each task moves as TaskLife allows: nothing but a redrive   *)
(* or a cancellation already on its way takes a task out of SUCCESS, and no  *)
(* step of an execution writes a row it did not find or was never queued.    *)
Life == INSTANCE TaskLife

LifeContract == Life!Spec

(* A task completes once per time it is set going: duplicate messages,      *)
(* polls, crashes and redeliveries add no second SUCCESS row, a committed   *)
(* redrive allows one more.                                                 *)
CompletionsBounded == \A t \in Tasks : completed[t] <= 1 + redriven[t]

(* A task is settled when execute_task refuses it, no execution has passed  *)
(* that guard, and no request already past its own check is about to write. *)
Settled(t) ==
    /\ status[t] \in Skipped
    /\ \A r \in Runners : job[r] = t => pc[r] \notin Guarded
    /\ cancel[t] # "checked"
    /\ redrive[t] \in {"none", "retried"}

(* Once settled, a task keeps its status for good, whatever messages, polls *)
(* and requests are still on their way.                                     *)
SettledIsFinal ==
    [][\A t \in Tasks : Settled(t) => Settled(t)' /\ status'[t] = status[t]]_vars

(* A task in RUNNING or RETRY has an execution at work on it, or a message  *)
(* that will start one: the poller looks only for QUEUED, so nothing else   *)
(* would ever move it.                                                      *)
NoStranded ==
    \A t \in Tasks : status[t] \in {"RUNNING", "RETRY"} =>
        \/ queue[t] > 0
        \/ \E r \in Runners :
              /\ job[r] = t
              /\ \/ pc[r] \in Working
                 \/ via[r] = "message" /\ pc[r] \in {"lock", "load"}

(* Every submitted task comes to rest: SUCCESS, CANCELLED or DEAD_LETTERED, *)
(* and stays at rest.                                                       *)
Settles == \A t \in Tasks : status[t] # "ABSENT" ~> [](status[t] \in Terminal)

(* What the architecture documents promise and the code does not keep.      *)

(* CANCELLED has no way out in the state diagram; in the code the commit of *)
(* an execution that missed the abort signal overwrites it.                 *)
CancelledStays ==
    [][\A t \in Tasks : status[t] = "CANCELLED" => status'[t] = "CANCELLED"]_vars

=============================================================================
