------------------------ MODULE TaskExecutionProofs ------------------------
(***************************************************************************)
(* Proofs about TaskExecution, for every set of tasks and runners and for  *)
(* every bound on faults and redrives.                                     *)
(***************************************************************************)
EXTENDS TaskExecution, TLAPS

USE DEF Stages, Critical, Working, Guarded, Skipped, Terminal, Status

(* TypeOK in five parts, so that a step is shown to keep only what it moves. *)
TableTyped ==
    /\ status    \in [Tasks -> Status]
    /\ attempt   \in [Tasks -> Nat]
    /\ completed \in [Tasks -> Nat]

StoresTyped == locked \in SUBSET Tasks /\ queue \in [Tasks -> Nat]

RunnersTyped ==
    /\ pc    \in [Runners -> Stages]
    /\ job   \in [Runners -> Tasks \cup {NoTask}]
    /\ via   \in [Runners -> {"message", "spawned"}]
    /\ seen  \in [Runners -> [status : Status, attempt : Nat]]
    /\ abort \in [Runners -> {"off", "listening", "signalled"}]
    /\ \A r \in Runners : pc[r] = "idle" <=> job[r] = NoTask

RequestsTyped ==
    /\ posting  \in SUBSET Tasks
    /\ cancel   \in [Tasks -> {"none", "checked", "committed"}]
    /\ redrive  \in [Tasks -> {"none", "retry", "retried", "replay", "replayed"}]
    /\ read     \in [Tasks -> Nat]
    /\ redriven \in [Tasks -> Nat]

EnvTyped == faults \in Nat /\ mode \in Modes

Typed == TableTyped /\ StoresTyped /\ RunnersTyped /\ RequestsTyped /\ EnvTyped

LEMMA TypeParts == (TypeOK <=> Typed) /\ (TypeOK' <=> Typed')
  BY DEF TypeOK, Typed, TableTyped, StoresTyped, RunnersTyped, RequestsTyped, EnvTyped

LEMMA InitTyped == Init => TypeOK
  BY NoTaskAssumption DEF Init, TypeOK, Fresh

(* What the helpers of the actions keep typed. *)
LEMMA StartTyped ==
    ASSUME RunnersTyped, NEW r \in Runners, NEW t \in Tasks,
           NEW how \in {"message", "spawned"}, Start(r, t, how)
    PROVE  RunnersTyped'
  BY NoTaskAssumption DEF RunnersTyped, Start, Go

LEMMA StopTyped ==
    ASSUME RunnersTyped, NEW r \in Runners, Stop(r)
    PROVE  RunnersTyped'
  BY DEF RunnersTyped, Stop, Fresh

LEMMA LeaveTyped ==
    ASSUME RunnersTyped, NEW r \in Runners, pc[r] # "idle", Leave(r),
           UNCHANGED <<job, via, abort>>
    PROVE  RunnersTyped'
  BY DEF RunnersTyped, Leave, Fresh

LEMMA GoTyped ==
    ASSUME RunnersTyped, NEW r \in Runners,
           NEW from \in Stages \ {"idle"}, NEW to \in Stages \ {"idle"}, Go(r, from, to),
           UNCHANGED <<job, via>>,
           seen' \in [Runners -> [status : Status, attempt : Nat]],
           abort' \in [Runners -> {"off", "listening", "signalled"}]
    PROVE  RunnersTyped'
  BY DEF RunnersTyped, Go

LEMMA PutTyped ==
    ASSUME StoresTyped, NEW t \in Tasks, Put(t) \/ UNCHANGED queue,
           locked' \in SUBSET Tasks
    PROVE  StoresTyped'
  BY DEF StoresTyped, Put

LEMMA SetStatusTyped ==
    ASSUME TableTyped, NEW r \in Runners, NEW new \in Status, SetStatus(r, new),
           UNCHANGED attempt, completed' \in [Tasks -> Nat]
    PROVE  TableTyped'
  BY DEF TableTyped, SetStatus, Written

LEMMA SeenTyped ==
    ASSUME RunnersTyped, NEW r \in Runners, NEW new \in Status,
           seen' = [seen EXCEPT ![r].status = new]
    PROVE  seen' \in [Runners -> [status : Status, attempt : Nat]]
  BY DEF RunnersTyped

LEMMA BusyRunner ==
    ASSUME RunnersTyped, NEW r \in Runners, pc[r] # "idle"
    PROVE  job[r] \in Tasks
  BY DEF RunnersTyped

(* What a step leaves alone stays typed. *)
LEMMA TypedUnchanged ==
    /\ TableTyped /\ UNCHANGED table => TableTyped'
    /\ StoresTyped /\ UNCHANGED <<locked, queue>> => StoresTyped'
    /\ RunnersTyped /\ UNCHANGED runner => RunnersTyped'
    /\ RequestsTyped /\ UNCHANGED requests => RequestsTyped'
    /\ EnvTyped /\ UNCHANGED env => EnvTyped'
  BY DEF table, runner, requests, env, TableTyped, StoresTyped, RunnersTyped,
         RequestsTyped, EnvTyped

LEMMA BodyTyped ==
    ASSUME Typed, NEW r \in Runners, Body(r)
    PROVE  Typed'
<1> USE TypedUnchanged DEF Typed
<1>0. /\ UNCHANGED <<requests, env>>
      /\ RequestsTyped' /\ EnvTyped'
  BY DEF Body, Load, LoadSkipping, Begin, Subscribe, HandlerSucceeds, HandlerFails,
         NoticeAbort, Persisted, CommitAbort, CommitSuccess, CommitRetry, CommitDead,
         Requeue, PublishRetry
<1>1. ASSUME Load(r) PROVE Typed'
  <2>1. TableTyped' /\ StoresTyped'
    BY <1>1 DEF Load, LoadSkipping
  <2>2. RunnersTyped'
    <3>1. CASE Leave(r)
      BY <1>1, <3>1, LeaveTyped DEF Load, LoadSkipping
    <3>2. CASE ~Leave(r)
      BY <1>1, <3>2, BusyRunner DEF Load, LoadSkipping, RunnersTyped, TableTyped
    <3> QED BY <3>1, <3>2
  <2> QED BY <1>0, <2>1, <2>2
<1>2. ASSUME Begin(r) PROVE Typed'
  <2>1. StoresTyped'
    BY <1>2 DEF Begin
  <2>2. TableTyped' /\ RunnersTyped'
    BY <1>2 DEF Begin, Go, SetStatus, Written, RunnersTyped, TableTyped
  <2> QED BY <1>0, <2>1, <2>2
<1>3. ASSUME \/ Subscribe(r) \/ HandlerSucceeds(r) \/ HandlerFails(r)
             \/ NoticeAbort(r) \/ Persisted(r)
      PROVE  Typed'
  <2>1. TableTyped' /\ StoresTyped'
    BY <1>3 DEF Subscribe, HandlerSucceeds, HandlerFails, NoticeAbort, Persisted
  <2>2. RunnersTyped'
    <3>1. CASE Subscribe(r)
      BY <3>1 DEF Subscribe, Go, RunnersTyped
    <3>2. CASE HandlerSucceeds(r) \/ HandlerFails(r)
      BY <3>2 DEF HandlerSucceeds, HandlerFails, Go, RunnersTyped
    <3>3. CASE NoticeAbort(r) \/ Persisted(r)
      BY <3>3 DEF NoticeAbort, Persisted, Go, RunnersTyped
    <3> QED BY <1>3, <3>1, <3>2, <3>3
  <2> QED BY <1>0, <2>1, <2>2
<1>4. ASSUME CommitAbort(r) \/ CommitSuccess(r) \/ CommitDead(r) PROVE Typed'
  <2>1. pc[r] # "idle" /\ Leave(r) /\ UNCHANGED <<job, via, abort, locked, queue>>
    BY <1>4 DEF CommitAbort, CommitSuccess, CommitDead
  <2>2. TableTyped'
    <3>1. completed' \in [Tasks -> Nat]
      BY <1>4, BusyRunner, <2>1 DEF CommitAbort, CommitSuccess, CommitDead, TableTyped
    <3> QED
      BY <1>4, <3>1, SetStatusTyped DEF CommitAbort, CommitSuccess, CommitDead
  <2> QED BY <1>0, <2>1, <2>2, LeaveTyped
<1>5. ASSUME CommitRetry(r) \/ Requeue(r) PROVE Typed'
  <2>1. RunnersTyped'
    <3>1. seen' \in [Runners -> [status : Status, attempt : Nat]]
      <4>1. \E new \in Status : seen' = [seen EXCEPT ![r].status = new]
        BY <1>5 DEF CommitRetry, Requeue
      <4> QED BY <4>1, SeenTyped
    <3>2. \/ Go(r, "fail", "backoff")
          \/ Go(r, "backoff", "publish")
      BY <1>5 DEF CommitRetry, Requeue
    <3>3. UNCHANGED <<job, via, abort>>
      BY <1>5 DEF CommitRetry, Requeue
    <3> QED BY <3>1, <3>2, <3>3 DEF RunnersTyped, Go
  <2>2. TableTyped'
    BY <1>5, SetStatusTyped DEF CommitRetry, Requeue, TableTyped
  <2>3. StoresTyped'
    BY <1>5 DEF CommitRetry, Requeue
  <2> QED BY <1>0, <2>1, <2>2, <2>3
<1>6. ASSUME PublishRetry(r) PROVE Typed'
  <2>1. RunnersTyped' /\ TableTyped'
    BY <1>6, LeaveTyped DEF PublishRetry
  <2>2. StoresTyped'
    <3>1. job[r] \in Tasks
      BY <1>6, BusyRunner DEF PublishRetry
    <3>2. (Put(job[r]) \/ UNCHANGED queue) /\ locked' \in SUBSET Tasks
      BY <1>6 DEF PublishRetry, PutOrLose, StoresTyped
    <3> QED BY <3>1, <3>2, PutTyped
  <2> QED BY <1>0, <2>1, <2>2
<1> QED
  BY <1>1, <1>2, <1>3, <1>4, <1>5, <1>6 DEF Body

LEMMA LockingTyped ==
    ASSUME Typed, NEW r \in Runners, Locking(r) \/ Reply(r) \/ DbFails(r)
    PROVE  Typed'
<1> USE TypedUnchanged DEF Typed
<1>1. TableTyped' /\ RequestsTyped' /\ EnvTyped'
  BY DEF Locking, Acquire, AcquireFallback, LockTimeout, Release, ReleaseFails, Reply,
         DbFails
<1>2. ASSUME Acquire(r) \/ AcquireFallback(r) \/ Release(r) \/ ReleaseFails(r)
      PROVE  Typed'
  <2>1. StoresTyped'
    BY <1>2, BusyRunner DEF Acquire, AcquireFallback, Release, ReleaseFails, Go, StoresTyped
  <2>2. \/ Go(r, "lock", "load")
        \/ Go(r, "release", "reply")
    BY <1>2 DEF Acquire, AcquireFallback, Release, ReleaseFails
  <2>3. UNCHANGED <<job, via, seen, abort>>
    BY <1>2 DEF Acquire, AcquireFallback, Release, ReleaseFails
  <2>4. RunnersTyped'
    BY <2>2, <2>3 DEF RunnersTyped, Go
  <2> QED BY <1>1, <2>1, <2>4
<1>3. ASSUME LockTimeout(r) PROVE Typed'
  <2>1. StoresTyped'
    BY <1>3, BusyRunner, PutTyped DEF LockTimeout, StoresTyped
  <2> QED BY <1>1, <1>3, <2>1, StopTyped DEF LockTimeout
<1>4. ASSUME Reply(r) PROVE Typed'
  BY <1>1, <1>4, StopTyped DEF Reply
<1>5. ASSUME DbFails(r) PROVE Typed'
  BY <1>1, <1>5, LeaveTyped DEF DbFails
<1> QED BY <1>2, <1>3, <1>4, <1>5 DEF Locking

LEMMA StartingTyped ==
    ASSUME Typed, NEW t \in Tasks,
           \/ Submit(t) \/ Posts(t) \/ LockExpires(t)
           \/ \E r \in Runners : Deliver(r, t) \/ Poll(r, t) \/ Dispatch(r, t)
    PROVE  Typed'
<1> USE TypedUnchanged DEF Typed
<1>1. CASE Submit(t)
  BY <1>1 DEF Submit, TableTyped, RequestsTyped, runner, env, RunnersTyped, EnvTyped,
              StoresTyped
<1>2. CASE Posts(t)
  <2>1. TableTyped' /\ RequestsTyped' /\ EnvTyped'
    BY <1>2 DEF Posts, SubmitPublish, SubmitDirect, SubmitStaged, Posted, RequestsTyped
  <2>2. UNCHANGED locked /\ (Put(t) \/ UNCHANGED queue)
    BY <1>2 DEF Posts, SubmitPublish, SubmitDirect, SubmitStaged, Posted
  <2>3. StoresTyped'
    BY <2>2, PutTyped DEF StoresTyped
  <2>4. \/ UNCHANGED runner
        \/ \E r \in Runners : Start(r, t, "spawned")
    BY <1>2 DEF Posts, SubmitPublish, SubmitDirect, SubmitStaged
  <2> QED BY <2>1, <2>3, <2>4, StartTyped
<1>3. CASE LockExpires(t)
  BY <1>3 DEF LockExpires, StoresTyped
<1>4. ASSUME NEW r \in Runners, Deliver(r, t) PROVE Typed'
  <2>1. StoresTyped'
    BY <1>4 DEF Deliver, StoresTyped
  <2> QED BY <1>4, <2>1, StartTyped DEF Deliver
<1>5. ASSUME NEW r \in Runners, Poll(r, t) \/ Dispatch(r, t) PROVE Typed'
  BY <1>5, StartTyped DEF Poll, Dispatch
<1> QED BY <1>1, <1>2, <1>3, <1>4, <1>5

LEMMA FaultsTyped ==
    ASSUME Typed, NEW r \in Runners, Crash(r) \/ Disconnect(r)
    PROVE  Typed'
<1> USE TypedUnchanged DEF Typed
<1>1. TableTyped' /\ RequestsTyped' /\ EnvTyped'
  BY BoundsAssumption DEF Crash, Disconnect, Fault, EnvTyped
<1>2. job[r] \in Tasks
  BY BusyRunner DEF Crash, Disconnect
<1>3. StoresTyped'
  <2>1. locked' \in SUBSET Tasks
    BY DEF Crash, Disconnect, StoresTyped
  <2>2. Put(job[r]) \/ UNCHANGED queue
    BY DEF Crash, Disconnect
  <2> QED BY <1>2, <2>1, <2>2, PutTyped
<1>4. RunnersTyped'
  <2>1. CASE Crash(r)
    BY <2>1, StopTyped DEF Crash
  <2>2. CASE Disconnect(r)
    BY <2>2 DEF Disconnect, RunnersTyped
  <2> QED BY <2>1, <2>2
<1> QED BY <1>1, <1>3, <1>4

LEMMA RedrivenTyped ==
    ASSUME TableTyped, RequestsTyped, NEW S \in SUBSET Tasks, Redriven(S),
           UNCHANGED <<completed, posting, cancel>>,
           redrive' \in [Tasks -> {"none", "retry", "retried", "replay", "replayed"}]
    PROVE  TableTyped' /\ RequestsTyped'
  BY DEF TableTyped, RequestsTyped, Redriven, Written

LEMMA RequestTyped ==
    ASSUME Typed,
           \/ \E t \in Tasks : \/ CancelCheck(t) \/ CancelCommit(t) \/ CancelSignal(t)
                               \/ RetryCheck(t) \/ RetryCommit(t) \/ RetryPublish(t)
                               \/ ReplayPublish(t)
           \/ ReplaySelect \/ ReplayCommit \/ ApiCrash \/ SetMode
    PROVE  Typed'
<1> USE TypedUnchanged DEF Typed
<1>1. ASSUME NEW t \in Tasks, CancelCheck(t) PROVE Typed'
  BY <1>1 DEF CancelCheck, RequestsTyped
<1>2. ASSUME NEW t \in Tasks, CancelCommit(t) PROVE Typed'
  BY <1>2 DEF CancelCommit, RequestsTyped, TableTyped
<1>3. ASSUME NEW t \in Tasks, CancelSignal(t) PROVE Typed'
  <2>1. RequestsTyped' /\ TableTyped' /\ StoresTyped' /\ EnvTyped'
    BY <1>3 DEF CancelSignal, RequestsTyped
  <2>2. RunnersTyped'
    BY <1>3 DEF CancelSignal, RunnersTyped
  <2> QED BY <2>1, <2>2
<1>4. ASSUME NEW t \in Tasks, RetryCheck(t) PROVE Typed'
  BY <1>4 DEF RetryCheck, RequestsTyped, TableTyped
<1>5. ASSUME NEW t \in Tasks, RetryCommit(t) PROVE Typed'
  <2>1. redrive' \in [Tasks -> {"none", "retry", "retried", "replay", "replayed"}]
    BY <1>5 DEF RetryCommit, RequestsTyped
  <2>2. TableTyped' /\ RequestsTyped'
    BY <1>5, <2>1, RedrivenTyped DEF RetryCommit
  <2> QED BY <1>5, <2>2 DEF RetryCommit
<1>6. ASSUME NEW t \in Tasks, RetryPublish(t) \/ ReplayPublish(t) PROVE Typed'
  <2>1. RequestsTyped'
    BY <1>6 DEF RetryPublish, ReplayPublish, RequestsTyped
  <2>2. UNCHANGED locked /\ (Put(t) \/ UNCHANGED queue)
    BY <1>6 DEF RetryPublish, ReplayPublish, PutOrLose
  <2>3. StoresTyped'
    BY <2>2, PutTyped DEF StoresTyped
  <2> QED BY <1>6, <2>1, <2>3 DEF RetryPublish, ReplayPublish
<1>7. CASE ReplaySelect
  <2>1. RequestsTyped'
    BY <1>7 DEF ReplaySelect, RequestsTyped, TableTyped
  <2> QED BY <1>7, <2>1 DEF ReplaySelect
<1>8. CASE ReplayCommit
  <2>1. redrive' \in [Tasks -> {"none", "retry", "retried", "replay", "replayed"}]
    BY <1>8 DEF ReplayCommit, RequestsTyped
  <2>2. Replaying \in SUBSET Tasks
    BY DEF Replaying
  <2>3. TableTyped' /\ RequestsTyped'
    BY <1>8, <2>1, <2>2, RedrivenTyped DEF ReplayCommit
  <2> QED BY <1>8, <2>3 DEF ReplayCommit
<1>9. CASE ApiCrash
  BY <1>9, BoundsAssumption DEF ApiCrash, Fault, RequestsTyped, EnvTyped
<1>10. CASE SetMode
  BY <1>10 DEF SetMode, EnvTyped
<1> QED BY <1>1, <1>2, <1>3, <1>4, <1>5, <1>6, <1>7, <1>8, <1>9, <1>10

LEMMA StepTyped == TypeOK /\ [Next]_vars => TypeOK'
<1> SUFFICES ASSUME Typed, [Next]_vars PROVE Typed'
  BY TypeParts DEF Typed
<1>1. CASE UNCHANGED vars
  BY <1>1, TypedUnchanged DEF vars, Typed
<1>2. CASE Next
  BY <1>2, BodyTyped, LockingTyped, StartingTyped, FaultsTyped, RequestTyped
     DEF Next, Step, Answers
<1> QED BY <1>1, <1>2

(* Every reachable state is well typed; in particular an activation has a   *)
(* task exactly while it is not idle.                                       *)
THEOREM Typing == Spec => []TypeOK
  BY InitTyped, StepTyped, PTL DEF Spec

-----------------------------------------------------------------------------
(* Mutual exclusion.  Every activation inside the lock has its key in Redis; *)
(* the keys carry no owner, so this is what makes a refused SET mean that    *)
(* somebody is inside, and an unconditional DEL harmless.                    *)

KeyHeld == \A r \in Runners : pc[r] \in Critical => job[r] \in locked

MutexInv == KeyHeld /\ MutualExclusion

(* The four things a step can do to the lock. *)
Outside == /\ UNCHANGED locked
           /\ \A r \in Runners : pc'[r] \in Critical => pc[r] \in Critical /\ job'[r] = job[r]
           /\ \/ UNCHANGED <<pc, job>>
              \/ \E r \in Runners :
                    /\ \A s \in Runners : s # r => pc'[s] = pc[s] /\ job'[s] = job[s]
                    /\ pc[r] \in Critical /\ pc'[r] \in Critical => job'[r] = job[r]

Entry(r) == /\ pc[r] = "lock" /\ pc'[r] = "load"
            /\ job[r] \notin locked /\ locked' = locked \cup {job[r]}
            /\ \A s \in Runners : s # r => pc'[s] = pc[s]
            /\ job' = job

Exit(r) == /\ pc[r] \in Critical /\ pc'[r] \notin Critical
           /\ locked' = locked \ {job[r]}
           /\ \A s \in Runners : s # r => pc'[s] = pc[s] /\ job'[s] = job[s]

Expiry(t) == /\ locked' = locked \ {t} /\ UNCHANGED <<pc, job>>
             /\ Holders(t) = {}

LEMMA LockEffect ==
    ASSUME Typed, LockReliable, [Next]_vars
    PROVE  \/ Outside
           \/ \E r \in Runners : Entry(r) \/ Exit(r)
           \/ \E t \in Tasks : Expiry(t)
<1> USE DEF Typed, RunnersTyped
<1>1. ASSUME NEW r \in Runners, Body(r) \/ Reply(r) \/ DbFails(r) PROVE Outside
  BY <1>1 DEF Body, Load, LoadSkipping, Begin, Subscribe, HandlerSucceeds, HandlerFails,
     NoticeAbort, Persisted, CommitAbort, CommitSuccess, CommitRetry, CommitDead,
     Requeue, PublishRetry, Reply, DbFails, Go, Leave, Stop, Outside
<1>2. ASSUME NEW r \in Runners, Locking(r) PROVE Outside \/ Entry(r) \/ Exit(r)
  <2>1. CASE Acquire(r)
    BY <2>1 DEF Acquire, Go, Entry
  <2>2. CASE Release(r)
    BY <2>2 DEF Release, Go, Exit
  <2>3. CASE LockTimeout(r) \/ ReleaseFails(r)
    BY <2>3 DEF LockTimeout, ReleaseFails, Stop, Go, Outside
  <2>4. CASE AcquireFallback(r)
    BY <2>4 DEF AcquireFallback
  <2> QED BY <1>2, <2>1, <2>2, <2>3, <2>4 DEF Locking
<1>3. ASSUME NEW r \in Runners, Crash(r) PROVE Outside \/ Exit(r)
  <2>1. CASE UNCHANGED locked
    BY <1>3, <2>1 DEF Crash, Stop, Outside
  <2>2. CASE ~UNCHANGED locked
    BY <1>3, <2>2 DEF Crash, Stop, Exit
  <2> QED BY <2>1, <2>2
<1>4. ASSUME NEW r \in Runners, NEW t \in Tasks, Deliver(r, t) \/ Poll(r, t) \/ Dispatch(r, t)
      PROVE  Outside
  BY <1>4 DEF Deliver, Poll, Dispatch, Start, Go, Outside
<1>5. ASSUME NEW t \in Tasks, Posts(t) PROVE Outside
  BY <1>5 DEF Posts, SubmitPublish, SubmitDirect, SubmitStaged, Posted, Start, Go,
              Outside, runner
<1>6. ASSUME NEW t \in Tasks, LockExpires(t) PROVE Expiry(t)
  BY <1>6 DEF LockExpires, Expiry, runner
<1>7. ASSUME \/ \E t \in Tasks : \/ Submit(t) \/ CancelCheck(t) \/ CancelCommit(t)
                                 \/ CancelSignal(t) \/ RetryCheck(t) \/ RetryCommit(t)
                                 \/ RetryPublish(t) \/ ReplayPublish(t)
             \/ ReplaySelect \/ ReplayCommit \/ ApiCrash \/ SetMode \/ UNCHANGED vars
             \/ \E r \in Runners : Disconnect(r)
      PROVE  Outside
  BY <1>7 DEF Submit, CancelCheck, CancelCommit, CancelSignal, RetryCheck, RetryCommit,
              RetryPublish, ReplayPublish, ReplaySelect, ReplayCommit, ApiCrash, SetMode,
              Disconnect, vars, runner, Outside
<1> QED
  BY <1>1, <1>2, <1>3, <1>4, <1>5, <1>6, <1>7 DEF Next, Step, Answers

LEMMA StepExclusive ==
    ASSUME Typed, LockReliable, MutexInv, [Next]_vars
    PROVE  MutexInv'
<1> USE DEF MutexInv, KeyHeld, MutualExclusion
<1>1. CASE Outside
  BY <1>1 DEF Outside
<1>2. ASSUME NEW r \in Runners, Entry(r) PROVE MutexInv'
  BY <1>2 DEF Entry
<1>3. ASSUME NEW r \in Runners, Exit(r) PROVE MutexInv'
  BY <1>3 DEF Exit
<1>4. ASSUME NEW t \in Tasks, Expiry(t) PROVE MutexInv'
  BY <1>4 DEF Expiry, Holders
<1> QED BY <1>1, <1>2, <1>3, <1>4, LockEffect

(* As long as a lock key outlives its holder and is never granted without   *)
(* Redis, no two executions of one task are ever inside the lock, whatever  *)
(* crashes, lost connections, requests and duplicate messages occur.        *)
THEOREM Exclusion == ASSUME LockReliable PROVE Spec => []MutualExclusion
<1>1. Init => MutexInv
  BY DEF Init, MutexInv, KeyHeld, MutualExclusion
<1>2. TypeOK /\ MutexInv /\ [Next]_vars => MutexInv'
  BY StepExclusive, TypeParts
<1> QED
  BY <1>1, <1>2, Typing, PTL DEF Spec, MutexInv

-----------------------------------------------------------------------------
(* What a session knows: from Begin on, its copy of the status is the one    *)
(* execute_task last wrote, so every later write of the status differs from  *)
(* it and reaches the row.                                                   *)

SeenInv ==
    \A r \in Runners :
        /\ pc[r] \in Working \ {"begin", "backoff"} => seen[r].status = "RUNNING"
        /\ pc[r] = "backoff" => seen[r].status = "RETRY"

LEMMA StepSeen ==
    ASSUME Typed, SeenInv, [Next]_vars
    PROVE  SeenInv'
<1> USE DEF Typed, RunnersTyped, SeenInv
<1>1. ASSUME NEW r \in Runners, Body(r) PROVE SeenInv'
  <2>1. CASE Load(r) \/ Begin(r)
    BY <2>1 DEF Load, LoadSkipping, Begin, Go, Leave
  <2>2. CASE \/ Subscribe(r) \/ HandlerSucceeds(r) \/ HandlerFails(r)
             \/ NoticeAbort(r) \/ Persisted(r)
    BY <2>2 DEF Subscribe, HandlerSucceeds, HandlerFails, NoticeAbort, Persisted, Go
  <2>3. CASE \/ CommitAbort(r) \/ CommitSuccess(r) \/ CommitDead(r) \/ PublishRetry(r)
    BY <2>3 DEF CommitAbort, CommitSuccess, CommitDead, PublishRetry, Leave
  <2>4. CASE CommitRetry(r) \/ Requeue(r)
    BY <2>4 DEF CommitRetry, Requeue, Go
  <2> QED BY <1>1, <2>1, <2>2, <2>3, <2>4 DEF Body
<1>2. ASSUME NEW r \in Runners, Locking(r) \/ Reply(r) \/ DbFails(r) PROVE SeenInv'
  BY <1>2 DEF Locking, Acquire, AcquireFallback, LockTimeout, Release, ReleaseFails,
              Reply, DbFails, Go, Stop, Leave
<1>3. ASSUME NEW r \in Runners, Crash(r) \/ Disconnect(r) PROVE SeenInv'
  BY <1>3 DEF Crash, Disconnect, Stop
<1>4. ASSUME NEW r \in Runners, NEW t \in Tasks, Deliver(r, t) \/ Poll(r, t) \/ Dispatch(r, t)
      PROVE  SeenInv'
  BY <1>4 DEF Deliver, Poll, Dispatch, Start, Go
<1>5. ASSUME NEW t \in Tasks, Posts(t) PROVE SeenInv'
  BY <1>5 DEF Posts, SubmitPublish, SubmitDirect, SubmitStaged, Start, Go, runner
<1>6. ASSUME \/ \E t \in Tasks : \/ Submit(t) \/ CancelCheck(t) \/ CancelCommit(t)
                                 \/ CancelSignal(t) \/ RetryCheck(t) \/ RetryCommit(t)
                                 \/ RetryPublish(t) \/ ReplayPublish(t) \/ LockExpires(t)
             \/ ReplaySelect \/ ReplayCommit \/ ApiCrash \/ SetMode \/ UNCHANGED vars
      PROVE  SeenInv'
  BY <1>6 DEF Submit, CancelCheck, CancelCommit, CancelSignal, RetryCheck, RetryCommit,
              RetryPublish, ReplayPublish, LockExpires, ReplaySelect, ReplayCommit,
              ApiCrash, SetMode, vars, runner
<1> QED
  BY <1>1, <1>2, <1>3, <1>4, <1>5, <1>6 DEF Next, Step, Answers

-----------------------------------------------------------------------------
(* A task is quiet when execute_task would refuse it and no execution of it  *)
(* has passed that guard.                                                    *)
Quiet(t) == /\ status[t] \in Skipped
            /\ \A r \in Runners : job[r] = t => pc[r] \notin Guarded

LEMMA StartUnguarded ==
    ASSUME RunnersTyped, NEW r \in Runners, NEW t, NEW how, Start(r, t, how)
    PROVE  \A s \in Runners : pc'[s] \in Guarded => pc'[s] = pc[s] /\ job'[s] = job[s]
  BY DEF RunnersTyped, Start, Go

(* A quiet task completes no further and stays quiet until it is redriven.   *)
LEMMA QuietStep ==
    ASSUME Typed, NEW t \in Tasks, Quiet(t), [Next]_vars
    PROVE  /\ completed'[t] = completed[t]
           /\ \A r \in Runners : job'[r] = t => pc'[r] \notin Guarded
           /\ \/ redriven'[t] = redriven[t] /\ status'[t] \in Skipped
              \/ redriven'[t] = redriven[t] + 1
<1> DEFINE Goal == /\ completed'[t] = completed[t]
                   /\ \A r \in Runners : job'[r] = t => pc'[r] \notin Guarded
                   /\ \/ redriven'[t] = redriven[t] /\ status'[t] \in Skipped
                      \/ redriven'[t] = redriven[t] + 1
<1> USE DEF Typed, RunnersTyped, TableTyped, RequestsTyped, Quiet
<1>1. ASSUME NEW r \in Runners, Body(r) PROVE Goal
  <2>1. CASE Load(r)
    BY <2>1 DEF Load, LoadSkipping, Leave, table, requests
  <2>2. CASE \/ Begin(r) \/ CommitRetry(r) \/ Requeue(r)
    BY <2>2, BusyRunner DEF Begin, CommitRetry, Requeue, Go, SetStatus, requests
  <2>3. CASE \/ Subscribe(r) \/ HandlerSucceeds(r) \/ HandlerFails(r)
             \/ NoticeAbort(r) \/ Persisted(r)
    BY <2>3 DEF Subscribe, HandlerSucceeds, HandlerFails, NoticeAbort, Persisted, Go,
                table, requests
  <2>4. CASE CommitAbort(r) \/ CommitSuccess(r) \/ CommitDead(r)
    BY <2>4, BusyRunner DEF CommitAbort, CommitSuccess, CommitDead, Leave, SetStatus,
                            requests
  <2>5. CASE PublishRetry(r)
    BY <2>5 DEF PublishRetry, Leave, table, requests
  <2> QED BY <1>1, <2>1, <2>2, <2>3, <2>4, <2>5 DEF Body
<1>2. ASSUME NEW r \in Runners, Locking(r) \/ Reply(r) \/ DbFails(r) PROVE Goal
  BY <1>2 DEF Locking, Acquire, AcquireFallback, LockTimeout, Release, ReleaseFails,
              Reply, DbFails, Go, Stop, Leave, table, requests
<1>3. ASSUME NEW r \in Runners, Crash(r) \/ Disconnect(r) PROVE Goal
  BY <1>3 DEF Crash, Disconnect, Stop, table, requests
<1>4. ASSUME NEW r \in Runners, NEW u \in Tasks, Deliver(r, u) \/ Poll(r, u) \/ Dispatch(r, u)
      PROVE  Goal
  <2>1. UNCHANGED <<status, completed, redriven>>
    BY <1>4 DEF Deliver, Poll, Dispatch, table, requests
  <2> QED BY <1>4, <2>1, StartUnguarded DEF Deliver, Poll, Dispatch
<1>5. ASSUME NEW u \in Tasks, Posts(u) PROVE Goal
  BY <1>5 DEF Posts, SubmitPublish, SubmitDirect, SubmitStaged, Posted, Start, Go,
              runner, table
<1>6. ASSUME NEW u \in Tasks, RetryCommit(u) PROVE Goal
  BY <1>6 DEF RetryCommit, Redriven, runner
<1>7. ASSUME ReplayCommit PROVE Goal
  <2>1. UNCHANGED <<completed, pc, job>>
    BY <1>7 DEF ReplayCommit, runner
  <2>2. Redriven(Replaying)
    BY <1>7 DEF ReplayCommit
  <2>3. \/ redriven'[t] = redriven[t] /\ status'[t] = status[t]
        \/ redriven'[t] = redriven[t] + 1
    BY <2>2 DEF Redriven
  <2> QED BY <2>1, <2>3
<1>8. ASSUME \/ \E u \in Tasks : \/ Submit(u) \/ CancelCheck(u) \/ CancelCommit(u)
                                 \/ CancelSignal(u) \/ RetryCheck(u) \/ RetryPublish(u)
                                 \/ ReplayPublish(u) \/ LockExpires(u)
             \/ ReplaySelect \/ ApiCrash \/ SetMode \/ UNCHANGED vars
      PROVE  Goal
  BY <1>8 DEF Submit, CancelCheck, CancelCommit, CancelSignal, RetryCheck, RetryPublish,
              ReplayPublish, LockExpires, ReplaySelect, ApiCrash, SetMode, vars, runner, table,
              requests
<1> QED
  BY <1>1, <1>2, <1>3, <1>4, <1>5, <1>6, <1>7, <1>8 DEF Next, Step, Answers

(* The bound on completions is not inductive by itself: a task that has used *)
(* up its completions must also be quiet.                                    *)
CompletionInv ==
    \A t \in Tasks : /\ completed[t] <= 1 + redriven[t]
                     /\ completed[t] = 1 + redriven[t] => Quiet(t)

(* Only CommitSuccess adds a completion, and redrives are never uncounted. *)
LEMMA Gain ==
    ASSUME Typed, NEW t \in Tasks, [Next]_vars
    PROVE  /\ redriven'[t] >= redriven[t]
           /\ \/ completed'[t] = completed[t]
              \/ \E r \in Runners : job[r] = t /\ CommitSuccess(r)
<1> DEFINE Goal == /\ redriven'[t] >= redriven[t]
                   /\ \/ completed'[t] = completed[t]
                      \/ \E r \in Runners : job[r] = t /\ CommitSuccess(r)
<1> USE DEF Typed, RequestsTyped
<1>1. ASSUME NEW r \in Runners, CommitSuccess(r) PROVE Goal
  <2>1. UNCHANGED redriven /\ completed' = [completed EXCEPT ![job[r]] = @ + 1]
    BY <1>1 DEF CommitSuccess, requests
  <2>2. CASE job[r] = t
    BY <1>1, <2>1, <2>2
  <2>3. CASE job[r] # t
    BY <2>1, <2>3 DEF TableTyped
  <2> QED BY <2>2, <2>3
<1>2. ASSUME NEW u \in Tasks, RetryCommit(u) PROVE Goal
  BY <1>2 DEF RetryCommit, Redriven
<1>3. ASSUME ReplayCommit PROVE Goal
  BY <1>3 DEF ReplayCommit, Redriven
<1>4. ASSUME NEW r \in Runners, Body(r), ~CommitSuccess(r) PROVE Goal
  BY <1>4 DEF Body, Load, LoadSkipping, Begin, Subscribe, HandlerSucceeds, HandlerFails,
     NoticeAbort, Persisted, CommitAbort, CommitRetry, CommitDead, Requeue,
     PublishRetry, table, requests
<1>5. ASSUME NEW r \in Runners,
             \/ Locking(r) \/ Reply(r) \/ DbFails(r) \/ Crash(r) \/ Disconnect(r)
      PROVE  Goal
  BY <1>5 DEF Locking, Acquire, AcquireFallback, LockTimeout, Release, ReleaseFails,
              Reply, DbFails, Crash, Disconnect, table, requests
<1>6. ASSUME NEW u \in Tasks,
             \/ Submit(u) \/ Posts(u) \/ CancelCheck(u) \/ CancelCommit(u)
             \/ CancelSignal(u) \/ RetryCheck(u) \/ RetryPublish(u)
             \/ ReplayPublish(u) \/ LockExpires(u)
             \/ \E r \in Runners : Deliver(r, u) \/ Poll(r, u) \/ Dispatch(r, u)
      PROVE  Goal
  BY <1>6 DEF Submit, Posts, SubmitPublish, SubmitDirect, SubmitStaged, Posted,
              CancelCheck, CancelCommit, CancelSignal, RetryCheck, RetryPublish,
              ReplayPublish, LockExpires, Deliver, Poll, Dispatch, table, requests
<1>7. ASSUME ReplaySelect \/ ApiCrash \/ SetMode \/ UNCHANGED vars PROVE Goal
  BY <1>7 DEF ReplaySelect, ApiCrash, SetMode, vars, table, requests
<1> QED
  BY <1>1, <1>2, <1>3, <1>4, <1>5, <1>6, <1>7 DEF Next, Step, Answers

LEMMA StepCompletes ==
    ASSUME Typed, MutualExclusion, SeenInv, CompletionInv, [Next]_vars
    PROVE  CompletionInv'
<1> SUFFICES ASSUME NEW t \in Tasks
             PROVE  /\ completed'[t] <= 1 + redriven'[t]
                    /\ completed'[t] = 1 + redriven'[t] => Quiet(t)'
  BY DEF CompletionInv
<1> USE DEF Typed, TableTyped, RequestsTyped
<1>0. /\ completed[t] \in Nat /\ redriven[t] \in Nat /\ redriven'[t] \in Nat
      /\ completed[t] <= 1 + redriven[t]
      /\ completed[t] = 1 + redriven[t] => Quiet(t)
  <2>1. Typed'
    BY StepTyped, TypeParts
  <2> QED BY <2>1 DEF CompletionInv
<1>1. CASE completed[t] = 1 + redriven[t]
  BY <1>0, <1>1, QuietStep DEF Quiet
<1>2. CASE completed[t] # 1 + redriven[t] /\ completed'[t] = completed[t]
  BY <1>0, <1>2, Gain
<1>3. ASSUME completed[t] # 1 + redriven[t],
             NEW r \in Runners, job[r] = t, CommitSuccess(r)
      PROVE  /\ completed'[t] <= 1 + redriven'[t]
             /\ Quiet(t)'
  <2>1. completed'[t] = completed[t] + 1 /\ redriven'[t] = redriven[t]
    BY <1>3 DEF CommitSuccess, requests
  <2>2. status'[t] = "SUCCESS"
    BY <1>3 DEF CommitSuccess, SetStatus, Written, SeenInv
  <2>3. \A s \in Runners : job'[s] = t => pc'[s] \notin Guarded
    BY <1>3 DEF CommitSuccess, Leave, MutualExclusion, RunnersTyped
  <2> QED BY <1>0, <1>3, <2>1, <2>2, <2>3 DEF Quiet
<1> QED BY <1>1, <1>2, <1>3, Gain

(* Under a reliable lock a task records at most one SUCCESS attempt, and one *)
(* more for each committed redrive, however often it is delivered.           *)
THEOREM Completions == ASSUME LockReliable PROVE Spec => []CompletionsBounded
<1>1. Init => MutexInv /\ SeenInv /\ CompletionInv
  BY DEF Init, MutexInv, KeyHeld, MutualExclusion, SeenInv, CompletionInv
<1>2. TypeOK /\ MutexInv /\ SeenInv /\ CompletionInv /\ [Next]_vars
        => (MutexInv /\ SeenInv /\ CompletionInv)'
  BY StepExclusive, StepSeen, StepCompletes, TypeParts DEF MutexInv
<1>3. CompletionInv => CompletionsBounded
  BY DEF CompletionInv, CompletionsBounded
<1> QED
  BY <1>1, <1>2, <1>3, Typing, PTL DEF Spec

-----------------------------------------------------------------------------
(* A settled task is quiet, and no request is about to write it. *)

LEMMA SettledStep ==
    ASSUME Typed, NEW t \in Tasks, Settled(t), [Next]_vars
    PROVE  Settled(t)' /\ status'[t] = status[t]
<1> DEFINE Goal == /\ status'[t] = status[t]
                   /\ cancel'[t] # "checked"
                   /\ redrive'[t] \in {"none", "retried"}
<1> USE DEF Typed, TableTyped, RequestsTyped, Settled
<1>1. ASSUME NEW r \in Runners, Body(r) PROVE Goal
  <2>1. UNCHANGED <<cancel, redrive>>
    BY <1>1 DEF Body, Load, LoadSkipping, Begin, Subscribe, HandlerSucceeds,
       HandlerFails, NoticeAbort, Persisted, CommitAbort, CommitSuccess, CommitRetry,
       CommitDead, Requeue, PublishRetry, requests
  <2>2. CASE pc[r] \in Guarded /\ UNCHANGED status
    BY <2>1, <2>2
  <2>3. CASE pc[r] \in Guarded /\ \E new \in Status : SetStatus(r, new)
    BY <2>1, <2>3, BusyRunner DEF SetStatus
  <2>4. CASE pc[r] = "load" /\ UNCHANGED status
    BY <2>1, <2>4
  <2> QED
    BY <1>1, <2>2, <2>3, <2>4 DEF Body, Load, LoadSkipping, Begin, Subscribe,
       HandlerSucceeds, HandlerFails, NoticeAbort, Persisted, CommitAbort,
       CommitSuccess, CommitRetry, CommitDead, Requeue, PublishRetry, Go, table
<1>2. ASSUME NEW r \in Runners,
             \/ Locking(r) \/ Reply(r) \/ DbFails(r) \/ Crash(r) \/ Disconnect(r)
      PROVE  Goal
  BY <1>2 DEF Locking, Acquire, AcquireFallback, LockTimeout, Release, ReleaseFails,
              Reply, DbFails, Crash, Disconnect, table, requests
<1>3. ASSUME NEW u \in Tasks,
             \/ Submit(u) \/ Posts(u) \/ LockExpires(u)
             \/ \E r \in Runners : Deliver(r, u) \/ Poll(r, u) \/ Dispatch(r, u)
      PROVE  Goal
  BY <1>3 DEF Submit, Posts, SubmitPublish, SubmitDirect, SubmitStaged, Posted,
              LockExpires, Deliver, Poll, Dispatch, table, requests
<1>4. ASSUME NEW u \in Tasks, CancelCheck(u) \/ CancelCommit(u) \/ CancelSignal(u)
      PROVE  Goal
  BY <1>4 DEF CancelCheck, CancelCommit, CancelSignal, table
<1>5. ASSUME NEW u \in Tasks,
             \/ RetryCheck(u) \/ RetryCommit(u) \/ RetryPublish(u) \/ ReplayPublish(u)
      PROVE  Goal
  BY <1>5 DEF RetryCheck, RetryCommit, RetryPublish, ReplayPublish, Redrivable,
              Redriven, table
<1>6. ASSUME ReplaySelect \/ ReplayCommit PROVE Goal
  BY <1>6 DEF ReplaySelect, ReplayCommit, Redrivable, Redriven, Replaying, table
<1>7. ASSUME ApiCrash \/ SetMode \/ UNCHANGED vars PROVE Goal
  BY <1>7 DEF ApiCrash, SetMode, vars, table, requests
<1>8. Goal
  BY <1>1, <1>2, <1>3, <1>4, <1>5, <1>6, <1>7 DEF Next, Step, Answers
<1>9. \A r \in Runners : job'[r] = t => pc'[r] \notin Guarded
  BY QuietStep DEF Quiet
<1> QED BY <1>8, <1>9

(* Once settled, a task keeps its status for good; no assumption about the   *)
(* lock is needed.                                                           *)
THEOREM Finality == Spec => SettledIsFinal
<1>1. TypeOK /\ [Next]_vars
        => [\A t \in Tasks : Settled(t) => Settled(t)' /\ status'[t] = status[t]]_vars
  BY SettledStep, TypeParts
<1> QED
  BY <1>1, Typing, PTL DEF Spec, SettledIsFinal

-----------------------------------------------------------------------------
(* What keeps a RUNNING or RETRY task from being stranded. *)

Attends(r, t) ==
    /\ job[r] = t
    /\ \/ pc[r] \in Working
       \/ via[r] = "message" /\ pc[r] \in {"lock", "load"}

Attended(t) == queue[t] > 0 \/ \E r \in Runners : Attends(r, t)

Stuck == {"RUNNING", "RETRY"}

(* An activation that stops attending to its task settles the row, hands the *)
(* message back, or found the row settled.                                   *)
LEMMA BodyAttends ==
    ASSUME Typed, SeenInv, NEW t \in Tasks, NEW r \in Runners, Body(r),
           status[t] \in Stuck => Attended(t)
    PROVE  status'[t] \in Stuck => Attended(t)'
<1> USE DEF Typed, TableTyped, RunnersTyped, StoresTyped, Stuck, Attended, Attends
<1>0. /\ UNCHANGED <<job, via>>
      /\ queue'[t] > 0 \/ queue'[t] = queue[t]
      /\ \A s \in Runners : s # r => pc'[s] = pc[s]
  BY DEF Body, Load, LoadSkipping, Begin, Subscribe, HandlerSucceeds, HandlerFails,
     NoticeAbort, Persisted, CommitAbort, CommitSuccess, CommitRetry, CommitDead,
     Requeue, PublishRetry, PutOrLose, Put, Go, Leave
<1>1. CASE Load(r)
  <2>1. UNCHANGED status
    BY <1>1 DEF Load, LoadSkipping, table
  <2>2. CASE job[r] = t
    <3>1. status'[t] \in Stuck => pc'[r] = "begin"
      BY <1>1, <2>1, <2>2 DEF Load, LoadSkipping
    <3> QED BY <1>0, <2>2, <3>1
  <2>3. CASE job[r] # t
    BY <1>0, <2>1, <2>3
  <2> QED BY <2>2, <2>3
<1>2. CASE Begin(r) \/ CommitRetry(r)
  <2>1. pc'[r] \in Working
    BY <1>2 DEF Begin, CommitRetry, Go
  <2>2. CASE job[r] = t
    BY <1>0, <2>1, <2>2
  <2>3. CASE job[r] # t
    <3>1. status'[t] = status[t]
      BY <1>2, <2>3, BusyRunner DEF Begin, CommitRetry, Go, SetStatus
    <3> QED BY <1>0, <2>3, <3>1
  <2> QED BY <2>2, <2>3
<1>3. CASE \/ Subscribe(r) \/ HandlerSucceeds(r) \/ HandlerFails(r)
           \/ NoticeAbort(r) \/ Persisted(r)
  BY <1>3 DEF Subscribe, HandlerSucceeds, HandlerFails, NoticeAbort, Persisted, Go, table
<1>4. CASE CommitAbort(r) \/ CommitSuccess(r) \/ CommitDead(r)
  BY <1>4 DEF CommitAbort, CommitSuccess, CommitDead, Leave, SetStatus, Written, SeenInv
<1>5. CASE Requeue(r)
  BY <1>5 DEF Requeue, Go, SetStatus, Written, SeenInv
<1>6. CASE PublishRetry(r)
  BY <1>6 DEF PublishRetry, Leave, PutOrLose, Put, table
<1> QED BY <1>1, <1>2, <1>3, <1>4, <1>5, <1>6 DEF Body

LEMMA StepAttends ==
    ASSUME Typed, SeenInv, ~DbMayFail, ~PollersCrash, [Next]_vars,
           NEW t \in Tasks, status[t] \in Stuck => Attended(t)
    PROVE  status'[t] \in Stuck => Attended(t)'
<1> DEFINE Goal == status'[t] \in Stuck => Attended(t)'
<1> USE DEF Typed, TableTyped, RunnersTyped, StoresTyped, Stuck, Attended, Attends
<1>1. ASSUME NEW r \in Runners, Locking(r) PROVE Goal
  BY <1>1 DEF Locking, Acquire, AcquireFallback, LockTimeout, Release, ReleaseFails,
              Go, Stop, Put, table
<1>2. ASSUME NEW r \in Runners, Reply(r) PROVE Goal
  BY <1>2 DEF Reply, Stop, table
<1>3. ASSUME NEW r \in Runners, Crash(r) PROVE Goal
  BY <1>3 DEF Crash, Stop, Put, table
<1>4. ASSUME NEW r \in Runners, Disconnect(r) PROVE Goal
  BY <1>4 DEF Disconnect, Put, table
<1>5. ASSUME NEW r \in Runners, NEW u \in Tasks, Deliver(r, u) PROVE Goal
  BY <1>5 DEF Deliver, Start, Go, table
<1>6. ASSUME NEW r \in Runners, NEW u \in Tasks, Poll(r, u) \/ Dispatch(r, u) PROVE Goal
  BY <1>6 DEF Poll, Dispatch, Start, Go, table
<1>7. ASSUME NEW u \in Tasks, Posts(u) PROVE Goal
  BY <1>7 DEF Posts, SubmitPublish, SubmitDirect, SubmitStaged, Posted, Put, Start, Go,
              runner, table
<1>8. ASSUME NEW u \in Tasks, RetryPublish(u) \/ ReplayPublish(u) PROVE Goal
  BY <1>8 DEF RetryPublish, ReplayPublish, PutOrLose, Put, runner, table
<1>9. ASSUME NEW u \in Tasks, Submit(u) \/ CancelCommit(u) \/ RetryCommit(u) PROVE Goal
  BY <1>9 DEF Submit, CancelCommit, RetryCommit, Redriven, runner
<1>10. CASE ReplayCommit
  BY <1>10 DEF ReplayCommit, Redriven, runner
<1>11. ASSUME \/ \E u \in Tasks : \/ CancelCheck(u) \/ CancelSignal(u) \/ RetryCheck(u)
                                  \/ LockExpires(u)
              \/ ReplaySelect \/ ApiCrash \/ SetMode \/ UNCHANGED vars
       PROVE  Goal
  BY <1>11 DEF CancelCheck, CancelSignal, RetryCheck, LockExpires, ReplaySelect,
               ApiCrash, SetMode, vars, runner, table
<1>12. ASSUME NEW r \in Runners, DbFails(r) PROVE Goal
  BY <1>12 DEF DbFails
<1> QED
  BY <1>1, <1>2, <1>3, <1>4, <1>5, <1>6, <1>7, <1>8, <1>9, <1>10, <1>11, <1>12,
     BodyAttends DEF Next, Step, Answers

(* If no database statement fails inside an execution and only executions   *)
(* that a message stands for can die, a task in RUNNING or RETRY always has *)
(* somebody at work on it or a message to come: this needs no reliable lock.*)
THEOREM Stranding ==
    ASSUME ~DbMayFail, ~PollersCrash
    PROVE  Spec => []NoStranded
<1> DEFINE Inv == \A t \in Tasks : status[t] \in Stuck => Attended(t)
<1>1. Inv <=> NoStranded
  BY DEF NoStranded, Attended, Attends, Stuck
<1>2. Init => SeenInv /\ Inv
  BY DEF Init, SeenInv, Stuck
<1>3. TypeOK /\ SeenInv /\ Inv /\ [Next]_vars => (SeenInv /\ Inv)'
  BY StepSeen, StepAttends, TypeParts
<1> QED
  BY <1>1, <1>2, <1>3, Typing, PTL DEF Spec

-----------------------------------------------------------------------------
(* The life of a task.  Whoever speaks of a task, a message, a request or an *)
(* execution, speaks of an inserted row; and no execution past the guard of  *)
(* execute_task ever has a row in SUCCESS in front of it, because the only   *)
(* writer of SUCCESS would be a second one inside the lock.                  *)

Spoken(t) ==
    \/ t \in posting
    \/ queue[t] > 0
    \/ \E r \in Runners : job[r] = t
    \/ cancel[t] # "none"
    \/ redrive[t] # "none"

SpokenInserted == \A t \in Tasks : Spoken(t) => status[t] # "ABSENT"

GuardKept == \A r \in Runners : pc[r] \in Guarded => status[job[r]] # "SUCCESS"

LifeInv == SpokenInserted /\ GuardKept

LEMMA LifeInit == Init => LifeInv
  BY NoTaskAssumption DEF Init, LifeInv, SpokenInserted, Spoken, GuardKept

Executable == {"QUEUED", "RUNNING", "RETRY", "CANCELLED", "DEAD_LETTERED"}
Outcomes   == {"RUNNING", "RETRY", "SUCCESS", "CANCELLED", "DEAD_LETTERED"}

LEMMA Arrows ==
    ASSUME NEW from, NEW to,
           \/ from = "ABSENT" /\ to = "QUEUED"
           \/ from \in Executable \cup {"SUCCESS"} /\ to \in {"QUEUED", "CANCELLED"}
           \/ from \in Executable /\ to \in Outcomes
    PROVE  <<from, to>> \in Life!Moves
  BY DEF Executable, Outcomes, Life!Existing, Life!Moves, Life!Inserted, Life!Queued,
         Life!Executed, Life!Cancelled, Life!Cleared

Lives == \A t \in Tasks : status'[t] = status[t] \/ <<status[t], status'[t]>> \in Life!Moves

(* A step that writes no status speaks of a task for the first time only if  *)
(* it has just read its row, and passes the guard only with one it has read. *)
LEMMA ReadingStep ==
    ASSUME LifeInv, UNCHANGED status,
           \A t \in Tasks : Spoken(t)' => Spoken(t) \/ status[t] # "ABSENT",
           \A r \in Runners : pc'[r] \in Guarded =>
               \/ pc[r] \in Guarded /\ job'[r] = job[r]
               \/ status[job'[r]] # "SUCCESS"
    PROVE  LifeInv' /\ Lives
  BY DEF LifeInv, SpokenInserted, GuardKept, Lives

LEMMA GuardedWrite ==
    ASSUME Typed, LifeInv, NEW r \in Runners, pc[r] \in Guarded,
           NEW new \in Outcomes \cup {"QUEUED"}, SetStatus(r, new)
    PROVE  /\ Lives
           /\ \A t \in Tasks : status[t] # "ABSENT" => status'[t] # "ABSENT"
           /\ \A t \in Tasks : status'[t] = "SUCCESS" =>
                  status[t] = "SUCCESS" \/ (t = job[r] /\ new = "SUCCESS")
<1> USE DEF Typed, RunnersTyped, TableTyped
<1>1. job[r] \in Tasks
  BY BusyRunner
<1>2. status[job[r]] \in Executable
  BY <1>1 DEF LifeInv, SpokenInserted, Spoken, GuardKept, Executable
<1>3. /\ \A t \in Tasks \ {job[r]} : status'[t] = status[t]
      /\ status'[job[r]] \in {status[job[r]], new}
  BY <1>1 DEF SetStatus, Written
<1>4. Lives
  BY <1>2, <1>3, Arrows DEF Lives
<1> QED BY <1>2, <1>3, <1>4 DEF Outcomes, Executable

LEMMA BodyLives ==
    ASSUME Typed, MutualExclusion, SeenInv, LifeInv, NEW r \in Runners, Body(r)
    PROVE  LifeInv' /\ Lives
<1> USE DEF Typed, RunnersTyped, TableTyped
<1>0. /\ UNCHANGED <<posting, cancel, redrive, job>>
      /\ \A s \in Runners \ {r} : pc'[s] = pc[s]
      /\ pc[r] # "idle"
  BY DEF Body, Load, LoadSkipping, Begin, Subscribe, HandlerSucceeds, HandlerFails,
     NoticeAbort, Persisted, CommitAbort, CommitSuccess, CommitRetry, CommitDead,
     Requeue, PublishRetry, Go, Leave, requests
<1>1. \A t \in Tasks : Spoken(t)' => Spoken(t)
  <2>1. \A t \in Tasks : t # job[r] => queue'[t] = queue[t]
    BY BusyRunner, <1>0 DEF Body, Load, LoadSkipping, Begin, Subscribe, HandlerSucceeds,
       HandlerFails, NoticeAbort, Persisted, CommitAbort, CommitSuccess, CommitRetry,
       CommitDead, Requeue, PublishRetry, PutOrLose, Put, StoresTyped
  <2> QED BY <1>0, <2>1 DEF Spoken
<1>2. CASE Load(r)
  <2>1. UNCHANGED status /\ (pc'[r] \in Guarded => status[job[r]] # "SUCCESS")
    BY <1>2 DEF Load, LoadSkipping, Leave, table
  <2> QED BY <1>0, <1>1, <2>1, ReadingStep
<1>3. CASE \/ Subscribe(r) \/ HandlerSucceeds(r) \/ HandlerFails(r)
           \/ NoticeAbort(r) \/ Persisted(r) \/ PublishRetry(r)
  <2>1. UNCHANGED status /\ pc[r] \in Guarded
    BY <1>3 DEF Subscribe, HandlerSucceeds, HandlerFails, NoticeAbort, Persisted,
                PublishRetry, Go, table
  <2> QED BY <1>0, <1>1, <2>1, ReadingStep
<1>4. ASSUME pc[r] \in Guarded, NEW new \in Outcomes \cup {"QUEUED"}, SetStatus(r, new),
             new = "SUCCESS" => pc'[r] \notin Guarded
      PROVE  LifeInv' /\ Lives
  <2>1. SpokenInserted'
    BY <1>1, <1>4, GuardedWrite DEF LifeInv, SpokenInserted
  <2>2. ASSUME NEW s \in Runners, pc'[s] \in Guarded PROVE status'[job[s]] # "SUCCESS"
    <3>1. pc[s] \in Guarded /\ job[s] \in Tasks /\ status[job[s]] # "SUCCESS"
      BY <1>0, <1>4, <2>2, BusyRunner DEF LifeInv, GuardKept
    <3>2. CASE job[s] = job[r]
      <4>1. s = r
        BY <1>4, <3>1, <3>2 DEF MutualExclusion
      <4> QED BY <1>4, <2>2, <3>1, <4>1, GuardedWrite
    <3>3. CASE job[s] # job[r]
      BY <1>4, <3>1, <3>3, GuardedWrite
    <3> QED BY <3>2, <3>3
  <2>3. GuardKept'
    BY <1>0, <2>2 DEF GuardKept
  <2> QED BY <1>4, <2>1, <2>3, GuardedWrite DEF LifeInv
<1>5. CASE Begin(r)
  BY <1>4, <1>5 DEF Begin, Go, Outcomes
<1>6. CASE CommitAbort(r) \/ CommitDead(r) \/ CommitSuccess(r)
  BY <1>4, <1>6 DEF CommitAbort, CommitDead, CommitSuccess, Leave, Outcomes
<1>7. CASE CommitRetry(r) \/ Requeue(r)
  BY <1>4, <1>7 DEF CommitRetry, Requeue, Go, Outcomes
<1> QED BY <1>2, <1>3, <1>5, <1>6, <1>7 DEF Body

LEMMA RunnerLives ==
    ASSUME Typed, LifeInv, NEW r \in Runners,
           Locking(r) \/ Reply(r) \/ DbFails(r) \/ Crash(r) \/ Disconnect(r)
    PROVE  LifeInv' /\ Lives
<1> USE DEF Typed, RunnersTyped, TableTyped
<1>1. UNCHANGED <<status, posting, cancel, redrive>>
  BY DEF Locking, Acquire, AcquireFallback, LockTimeout, Release, ReleaseFails, Reply,
         DbFails, Crash, Disconnect, table, requests
<1>2. \A s \in Runners : pc'[s] \in Guarded => pc[s] \in Guarded /\ job'[s] = job[s]
  BY DEF Locking, Acquire, AcquireFallback, LockTimeout, Release, ReleaseFails, Reply,
         DbFails, Crash, Disconnect, Go, Stop, Leave
<1>3. pc[r] # "idle" /\ job[r] \in Tasks
  BY BusyRunner DEF Locking, Acquire, AcquireFallback, LockTimeout, Release, ReleaseFails,
                    Reply, DbFails, Crash, Disconnect, Go
<1>4. \A s \in Runners : job'[s] \in {job[s], NoTask}
  BY DEF Locking, Acquire, AcquireFallback, LockTimeout, Release, ReleaseFails, Reply,
         DbFails, Crash, Disconnect, Stop
<1>5. \A t \in Tasks : t # job[r] => queue'[t] = queue[t]
  BY <1>3 DEF Locking, Acquire, AcquireFallback, LockTimeout, Release, ReleaseFails, Reply,
              DbFails, Crash, Disconnect, Put, StoresTyped
<1>6. \A t \in Tasks : Spoken(t)' => Spoken(t)
  BY <1>1, <1>4, <1>5, NoTaskAssumption DEF Spoken
<1> QED BY <1>1, <1>2, <1>6, ReadingStep

(* A submission, its announcement, and the start of an execution. *)
LEMMA StartLives ==
    ASSUME Typed, LifeInv, NEW t \in Tasks,
           \/ Submit(t) \/ Posts(t) \/ LockExpires(t)
           \/ \E r \in Runners : Deliver(r, t) \/ Poll(r, t) \/ Dispatch(r, t)
    PROVE  LifeInv' /\ Lives
<1> USE DEF Typed, RunnersTyped, TableTyped, StoresTyped
<1>1. CASE Submit(t)
  <2>1. /\ status[t] = "ABSENT" /\ status'[t] = "QUEUED"
        /\ \A u \in Tasks \ {t} : status'[u] = status[u] /\ (Spoken(u)' => Spoken(u))
        /\ UNCHANGED <<pc, job>>
    BY <1>1 DEF Submit, Spoken, runner
  <2>2. Lives
    BY <2>1, Arrows DEF Lives
  <2>3. SpokenInserted'
    BY <2>1 DEF LifeInv, SpokenInserted
  <2>4. GuardKept'
    BY <2>1, BusyRunner DEF LifeInv, GuardKept
  <2> QED BY <2>2, <2>3, <2>4 DEF LifeInv
<1>2. ASSUME UNCHANGED <<status, cancel, redrive>>, posting' \subseteq posting,
             \A u \in Tasks \ {t} : queue'[u] <= queue[u],
             \/ UNCHANGED <<pc, job>>
             \/ \E r \in Runners, how \in {"message", "spawned"} : Start(r, t, how),
             Spoken(t) \/ status[t] # "ABSENT"
      PROVE  LifeInv' /\ Lives
  <2>1. \A r \in Runners : pc'[r] \in Guarded => pc[r] \in Guarded /\ job'[r] = job[r]
    BY <1>2, StartUnguarded
  <2>2. \A r \in Runners : job'[r] \in {job[r], t}
    BY <1>2 DEF Start
  <2>3. ASSUME NEW u \in Tasks, u # t, Spoken(u)' PROVE Spoken(u)
    <3>1. StoresTyped'
      BY StepTyped, TypeParts, StartingTyped
    <3>2. queue'[u] > 0 => queue[u] > 0
      BY <1>2, <2>3, <3>1
    <3> QED BY <1>2, <2>2, <2>3, <3>2 DEF Spoken
  <2> QED BY <1>2, <2>1, <2>3, ReadingStep
<1>3. CASE Posts(t)
  <2>1. t \in posting /\ posting' \subseteq posting /\ UNCHANGED <<status, cancel, redrive>>
    BY <1>3 DEF Posts, SubmitPublish, SubmitDirect, SubmitStaged, Posted, table
  <2>2. \A u \in Tasks \ {t} : queue'[u] <= queue[u]
    BY <1>3 DEF Posts, SubmitPublish, SubmitDirect, SubmitStaged, Put
  <2>3. \/ UNCHANGED <<pc, job>>
        \/ \E r \in Runners, how \in {"message", "spawned"} : Start(r, t, how)
    BY <1>3 DEF Posts, SubmitPublish, SubmitDirect, SubmitStaged, runner
  <2> QED BY <1>2, <2>1, <2>2, <2>3 DEF Spoken
<1>4. CASE LockExpires(t)
  BY <1>4, ReadingStep DEF LockExpires, Spoken, table, runner, requests
<1>5. ASSUME NEW r \in Runners, Deliver(r, t) \/ Poll(r, t) \/ Dispatch(r, t)
      PROVE  LifeInv' /\ Lives
  <2>1. UNCHANGED <<status, cancel, redrive, posting>>
    BY <1>5 DEF Deliver, Poll, Dispatch, table, requests
  <2>2. \A u \in Tasks \ {t} : queue'[u] <= queue[u]
    BY <1>5 DEF Deliver, Poll, Dispatch
  <2>3. Spoken(t) \/ status[t] # "ABSENT"
    BY <1>5 DEF Deliver, Poll, Dispatch, Spoken
  <2>4. \E how \in {"message", "spawned"} : Start(r, t, how)
    BY <1>5 DEF Deliver, Poll, Dispatch
  <2> QED BY <1>2, <2>1, <2>2, <2>3, <2>4
<1> QED BY <1>1, <1>3, <1>4, <1>5

LEMMA RequestLives ==
    ASSUME Typed, LifeInv,
           \/ \E t \in Tasks : \/ CancelCheck(t) \/ CancelCommit(t) \/ CancelSignal(t)
                               \/ RetryCheck(t) \/ RetryCommit(t) \/ RetryPublish(t)
                               \/ ReplayPublish(t)
           \/ ReplaySelect \/ ReplayCommit \/ ApiCrash \/ SetMode \/ UNCHANGED vars
    PROVE  LifeInv' /\ Lives
<1> USE DEF Typed, TableTyped, RequestsTyped, StoresTyped
<1>0. UNCHANGED <<pc, job>>
  BY DEF CancelCheck, CancelCommit, CancelSignal, RetryCheck, RetryCommit, RetryPublish,
         ReplayPublish, ReplaySelect, ReplayCommit, ApiCrash, SetMode, vars, runner
<1>1. ASSUME UNCHANGED status,
             \A t \in Tasks : Spoken(t)' => Spoken(t) \/ status[t] # "ABSENT"
      PROVE  LifeInv' /\ Lives
  BY <1>0, <1>1, ReadingStep
<1>2. ASSUME NEW t \in Tasks, CancelCheck(t) \/ CancelSignal(t) \/ RetryCheck(t)
      PROVE  LifeInv' /\ Lives
  BY <1>0, <1>1, <1>2 DEF CancelCheck, CancelSignal, RetryCheck, Redrivable, Spoken, table
<1>3. ASSUME NEW t \in Tasks, RetryPublish(t) \/ ReplayPublish(t)
      PROVE  LifeInv' /\ Lives
  <2>1. UNCHANGED <<status, posting, cancel>> /\ Spoken(t)
    BY <1>3 DEF RetryPublish, ReplayPublish, Spoken, table
  <2>2. \A u \in Tasks \ {t} : queue'[u] = queue[u] /\ redrive'[u] = redrive[u]
    BY <1>3 DEF RetryPublish, ReplayPublish, PutOrLose, Put
  <2> QED BY <1>0, <1>1, <2>1, <2>2 DEF Spoken
<1>4. CASE ReplaySelect
  BY <1>0, <1>1, <1>4 DEF ReplaySelect, Redrivable, Spoken, table
<1>5. CASE ApiCrash \/ SetMode \/ UNCHANGED vars
  BY <1>0, <1>1, <1>5 DEF ApiCrash, SetMode, vars, Spoken, table, requests
<1>6. ASSUME NEW to \in {"QUEUED", "CANCELLED"}, NEW S \in SUBSET Tasks,
             \A t \in S : Spoken(t),
             \A t \in Tasks : status'[t] = IF t \in S THEN to ELSE status[t],
             \A t \in Tasks : Spoken(t)' => Spoken(t)
      PROVE  LifeInv' /\ Lives
  <2>1. \A t \in S : status[t] \in Executable \cup {"SUCCESS"}
    BY <1>6 DEF LifeInv, SpokenInserted, Executable
  <2>2. Lives
    BY <1>6, <2>1, Arrows DEF Lives
  <2>3. SpokenInserted'
    BY <1>6 DEF LifeInv, SpokenInserted
  <2>4. GuardKept'
    BY <1>0, <1>6, BusyRunner DEF LifeInv, GuardKept
  <2> QED BY <2>2, <2>3, <2>4 DEF LifeInv
<1>7. ASSUME NEW t \in Tasks, CancelCommit(t) PROVE LifeInv' /\ Lives
  <2>1. Spoken(t) /\ \A u \in Tasks : Spoken(u)' => Spoken(u)
    BY <1>7 DEF CancelCommit, Spoken, runner
  <2>2. \A u \in Tasks : status'[u] = IF u \in {t} THEN "CANCELLED" ELSE status[u]
    BY <1>7 DEF CancelCommit
  <2> QED BY <1>6, <2>1, <2>2
<1>8. ASSUME NEW t \in Tasks, RetryCommit(t) PROVE LifeInv' /\ Lives
  <2>1. Spoken(t) /\ \A u \in Tasks : Spoken(u)' => Spoken(u)
    BY <1>8 DEF RetryCommit, Spoken, runner
  <2>2. \A u \in Tasks : status'[u] = IF u \in {t} THEN "QUEUED" ELSE status[u]
    BY <1>8 DEF RetryCommit, Redriven
  <2> QED BY <1>6, <2>1, <2>2
<1>9. CASE ReplayCommit
  <2>1. Replaying \in SUBSET Tasks /\ \A t \in Replaying : Spoken(t)
    BY DEF Replaying, Spoken
  <2>2. \A u \in Tasks : Spoken(u)' => Spoken(u)
    BY <1>9 DEF ReplayCommit, Spoken, runner
  <2>3. \A u \in Tasks : status'[u] = IF u \in Replaying THEN "QUEUED" ELSE status[u]
    BY <1>9 DEF ReplayCommit, Redriven
  <2> QED BY <1>6, <2>1, <2>2, <2>3
<1> QED BY <1>2, <1>3, <1>4, <1>5, <1>7, <1>8, <1>9

LEMMA LifeStep ==
    ASSUME TypeOK, MutualExclusion, SeenInv, LifeInv, [Next]_vars
    PROVE  LifeInv' /\ [Life!Next]_status
<1>0. Typed
  BY TypeParts
<1>1. LifeInv' /\ Lives
  BY <1>0, BodyLives, RunnerLives, StartLives, RequestLives DEF Next, Step, Answers
<1>2. status' \in [Tasks -> Life!Status]
  BY StepTyped DEF TypeOK, Life!Status, Life!Missing, Life!Existing
<1> QED BY <1>1, <1>2 DEF Lives, Life!Next

(* Under a reliable lock the executions, requests and messages of the        *)
(* pipeline move a task only as TaskLife allows; without one, an execution   *)
(* that lost its lock overwrites the SUCCESS of another.                     *)
THEOREM LifeRefinement == ASSUME LockReliable PROVE Spec => LifeContract
<1>1. Init => Life!Init
  BY DEF Init, Life!Init
<1>2. Init => MutexInv /\ SeenInv
  BY DEF Init, MutexInv, KeyHeld, MutualExclusion, SeenInv
<1>3. TypeOK /\ MutexInv /\ SeenInv /\ LifeInv /\ [Next]_vars
        => (MutexInv /\ SeenInv /\ LifeInv)' /\ [Life!Next]_status
  BY StepExclusive, StepSeen, LifeStep, TypeParts DEF MutexInv
<1> QED
  BY <1>1, <1>2, <1>3, LifeInit, Typing, PTL DEF Spec, LifeContract, Life!Spec

=============================================================================
