------------------------- MODULE TaskReleaseProofs -------------------------
(***************************************************************************)
(* Proofs about TaskRelease, for every set of tasks, resolvers and         *)
(* schedulers and every dependency graph.                                  *)
(***************************************************************************)
EXTENDS TaskRelease, FiniteSetTheorems, TLAPS

USE DEF Missing, Skipped, Terminal, Status, resolver, history

LEMMA NoRowsTyped == NoRows \in Rows /\ \A d \in Tasks : NoRows[d] = "ABSENT"
  BY DEF NoRows, Rows

LEMMA InitTyped == Init => TypeOK
  BY NoTaskOutside, NoRowsTyped DEF Init, TypeOK

LEMMA RestTyped ==
    ASSUME TypeOK, NEW w \in Resolvers, Rest(w)
    PROVE  /\ phase' \in [Resolvers -> {"idle", "spawned", "scanning", "releasing"}]
           /\ of'   \in [Resolvers -> Tasks \cup {NoTask}]
           /\ list' \in [Resolvers -> SUBSET Tasks]
           /\ todo' \in [Resolvers -> SUBSET Tasks]
           /\ kept' \in [Resolvers -> Rows]
           /\ pick' \in [Resolvers -> Tasks \cup {NoTask}]
           /\ \A v \in Resolvers : /\ phase'[v] = "idle" <=> of'[v] = NoTask
                                   /\ phase'[v] = "releasing" <=> pick'[v] # NoTask
  BY NoRowsTyped DEF TypeOK, Rest

LEMMA CreateTyped ==
    ASSUME TypeOK, NEW t \in Tasks, CreateCheck(t) \/ CreateCommit(t) \/ Elapse(t)
    PROVE  TypeOK'
<1>1. CASE CreateCheck(t)
  BY <1>1 DEF TypeOK, CreateCheck
<1>2. CASE CreateCommit(t)
  BY <1>2 DEF TypeOK, CreateCommit
<1>3. CASE Elapse(t)
  BY <1>3 DEF TypeOK, Elapse
<1> QED BY <1>1, <1>2, <1>3

LEMMA ExecuteTyped ==
    ASSUME TypeOK, NEW t \in Tasks, Execute(t)
    PROVE  TypeOK'
<1>1. CASE Begin(t)
  BY <1>1 DEF TypeOK, Begin
<1>2. CASE Fails(t)
  BY <1>2 DEF TypeOK, Fails, Settle
<1>3. CASE Succeeds(t)
  <2>1. CASE status[t] = "GONE"
    BY <1>3, <2>1 DEF TypeOK, Succeeds, Settle
  <2>2. CASE status[t] # "GONE"
    BY <1>3, <2>2, NoTaskOutside DEF TypeOK, Succeeds, Settle, Spawn
  <2> QED BY <2>1, <2>2
<1> QED BY <1>1, <1>2, <1>3 DEF Execute

LEMMA KeepsTyped ==
    ASSUME TypeOK, NEW w \in Resolvers, NEW t \in Tasks
    PROVE  Seen(w) \in Rows /\ Keeps(w, t) \in Rows
<1>1. Seen(w) \in Rows
  BY DEF TypeOK, Seen, Rows
<1> QED BY <1>1 DEF Keeps, Rows

LEMMA ResolveTyped ==
    ASSUME TypeOK, NEW w \in Resolvers, Resolve(w) \/ ResolverDies(w)
    PROVE  TypeOK'
<1>1. CASE Scan(w)
  BY <1>1 DEF TypeOK, Scan
<1>2. ASSUME NEW t \in Tasks, Examine(w, t) PROVE TypeOK'
  BY <1>2, NoTaskOutside, KeepsTyped DEF TypeOK, Examine, ExamineWith
<1>3. CASE Release(w)
  <2>1. CASE status[pick[w]] = "GONE"
    BY <1>3, <2>1, RestTyped DEF TypeOK, Release, Ends
  <2>2. CASE status[pick[w]] # "GONE"
    BY <1>3, <2>2 DEF TypeOK, Release
  <2> QED BY <2>1, <2>2
<1>4. CASE Done(w)
  BY <1>4, RestTyped DEF TypeOK, Done
<1>5. CASE ResolverDies(w)
  BY <1>5, RestTyped DEF TypeOK, ResolverDies, Ends
<1> QED BY <1>1, <1>2, <1>3, <1>4, <1>5 DEF Resolve

LEMMA ScheduleTyped ==
    ASSUME TypeOK, NEW s \in Schedulers,
           Poll(s) \/ SchedulerStops(s) \/ \E t \in Tasks : ReleaseDelayed(s, t)
    PROVE  TypeOK'
  BY DelayedAssumption DEF TypeOK, Poll, SchedulerStops, ReleaseDelayed

LEMMA RequestTyped ==
    ASSUME TypeOK,
           \/ \E t \in Tasks : Cancel(t) \/ Retry(t)
           \/ PromoteSelect \/ PromoteCommit \/ ClearSelect \/ ClearDelete
    PROVE  TypeOK'
  BY DEF TypeOK, Cancel, Retry, PromoteSelect, PromoteCommit, ClearSelect, ClearDelete

LEMMA StepTyped == TypeOK /\ [Next]_vars => TypeOK'
<1> SUFFICES ASSUME TypeOK, [Next]_vars PROVE TypeOK'
  OBVIOUS
<1>1. CASE UNCHANGED vars
  BY <1>1 DEF TypeOK, vars
<1> QED
  BY <1>1, CreateTyped, ExecuteTyped, ResolveTyped, ScheduleTyped, RequestTyped DEF Next

(* Every reachable state is well typed; in particular a resolver has a task  *)
(* to release exactly while it is about to.                                  *)
THEOREM Typing == Spec => []TypeOK
  BY InitTyped, StepTyped, PTL DEF Spec

-----------------------------------------------------------------------------
LEMMA PrereqsAreTasks == \A t \in Tasks : Prereqs(t) \subseteq Tasks
  BY DependsOnAssumption DEF Prereqs

(* What the length comparison of the resolver is worth: when it holds, every *)
(* prerequisite has a row, and that row says SUCCESS.                        *)
LEMMA MetMeans ==
    ASSUME NEW t \in Tasks, NEW view, Met(t, view)
    PROVE  /\ \A d \in Prereqs(t) : view[d] = "SUCCESS"
           /\ Cardinality(Prereqs(t)) = Len(DependsOn[t])
<1> DEFINE rows == {d \in Prereqs(t) : view[d] \notin Missing}
           n == Len(DependsOn[t])
           f == [i \in 1..n |-> DependsOn[t][i]]
<1>1. n \in Nat /\ DOMAIN DependsOn[t] = 1..n
  BY DependsOnAssumption
<1>2. f \in Surjection(1..n, Prereqs(t))
  BY <1>1 DEF Surjection, Prereqs
<1>3. IsFiniteSet(1..n) /\ Cardinality(1..n) = n
  BY <1>1, FS_Interval
<1>4. IsFiniteSet(Prereqs(t)) /\ Cardinality(Prereqs(t)) <= n
  BY <1>2, <1>3, FS_Surjection
<1>5. Cardinality(rows) = n
  BY DEF Met
<1>6. /\ Cardinality(rows) <= Cardinality(Prereqs(t))
      /\ Cardinality(rows) = Cardinality(Prereqs(t)) => rows = Prereqs(t)
  BY <1>4, FS_Subset
<1>7. Cardinality(Prereqs(t)) \in Nat
  BY <1>4, FS_CardinalityType
<1>8. rows = Prereqs(t)
  BY <1>1, <1>4, <1>5, <1>6, <1>7
<1> QED
  BY <1>5, <1>8 DEF Met

LEMMA MetWhen ==
    ASSUME NEW t \in Tasks, NEW view,
           \A d \in Prereqs(t) : view[d] = "SUCCESS",
           Cardinality(Prereqs(t)) = Len(DependsOn[t])
    PROVE  Met(t, view)
<1>1. {d \in Prereqs(t) : view[d] \notin Missing} = Prereqs(t)
  OBVIOUS
<1> QED BY <1>1 DEF Met

-----------------------------------------------------------------------------
(* Nothing starts early.  Whoever may still put a task to QUEUED, from        *)
(* however old a copy of its row, decided to when the task was free to go,    *)
(* and a task that is free stays free: succeeded and elapsed only grow.  That *)
(* is the invariant; it holds as long as no task has both a countdown and     *)
(* prerequisites.                                                             *)

Free(t) == Prereqs(t) \subseteq succeeded /\ Due(t)

Started == {"QUEUED", "RUNNING", "SUCCESS", "DEAD_LETTERED"}

RowsFree == \A t \in Tasks :
    /\ status[t] \in Started \/ t \in working \/ creating[t] = "QUEUED" => Free(t)
    /\ status[t] = "SUCCESS" => t \in succeeded

ResolversFree == \A w \in Resolvers :
    /\ \A t \in todo[w] : Prereqs(t) # {}
    /\ pick[w] # NoTask => Free(pick[w])
    /\ \A d \in Tasks : kept[w][d] = "SUCCESS" => d \in succeeded

WritersFree ==
    /\ \A s \in Schedulers : \A t \in batch[s] : Free(t)
    /\ \A t \in promoting : Free(t)

GateInv == RowsFree /\ ResolversFree /\ WritersFree

OneGate == \A t \in Delayed : DependsOn[t] = <<>>

LEMMA NoPrereqs ==
    ASSUME NEW t \in Tasks
    PROVE  DependsOn[t] = <<>> <=> Prereqs(t) = {}
<1>1. DependsOn[t] \in Seq(Tasks)
  BY DependsOnAssumption
<1>2. DependsOn[t] = <<>> => Prereqs(t) = {}
  BY <1>1 DEF Prereqs
<1>3. DependsOn[t] # <<>> => 1 \in DOMAIN DependsOn[t]
  BY <1>1
<1> QED BY <1>2, <1>3 DEF Prereqs

LEMMA FreeStays ==
    ASSUME succeeded \subseteq succeeded', elapsed \subseteq elapsed'
    PROVE  \A t : Free(t) => Free(t)'
  BY DEF Free, Due

LEMMA GateInit == Init => GateInv
  BY NoTaskOutside, NoRowsTyped DEF Init, GateInv, RowsFree, ResolversFree, WritersFree, Started

LEMMA CreateGated ==
    ASSUME TypeOK, OneGate, GateInv,
           NEW t \in Tasks, CreateCheck(t) \/ CreateCommit(t) \/ Elapse(t)
    PROVE  GateInv'
<1> USE FreeStays DEF TypeOK, GateInv, RowsFree, ResolversFree, WritersFree, Started
<1>1. CASE CreateCheck(t)
  <2>1. creating'[t] = "QUEUED" => Free(t)
    <3>1. SUFFICES ASSUME creating'[t] = "QUEUED" PROVE Free(t)
      OBVIOUS
    <3>2. t \notin Delayed /\ (DependsOn[t] = <<>> \/ Met(t, status))
      BY <1>1, <3>1 DEF CreateCheck
    <3> QED BY <3>2, PrereqsAreTasks, NoPrereqs, MetMeans DEF Free, Due
  <2> QED BY <1>1, <2>1 DEF CreateCheck
<1>2. CASE CreateCommit(t)
  BY <1>2 DEF CreateCommit
<1>3. CASE Elapse(t)
  BY <1>3 DEF Elapse
<1> QED BY <1>1, <1>2, <1>3

LEMMA ExecuteGated ==
    ASSUME TypeOK, GateInv, NEW t \in Tasks, Execute(t)
    PROVE  GateInv'
<1> USE FreeStays DEF TypeOK, GateInv, RowsFree, ResolversFree, WritersFree, Started
<1>1. CASE Begin(t)
  BY <1>1 DEF Begin
<1>2. CASE Fails(t)
  BY <1>2 DEF Fails, Settle
<1>3. CASE Succeeds(t)
  BY <1>3 DEF Succeeds, Settle, Spawn
<1> QED BY <1>1, <1>2, <1>3 DEF Execute

LEMMA ResolveGated ==
    ASSUME TypeOK, OneGate, GateInv,
           NEW w \in Resolvers, Resolve(w) \/ ResolverDies(w)
    PROVE  GateInv'
<1> USE FreeStays DEF TypeOK, GateInv, RowsFree, ResolversFree, WritersFree, Started
<1>1. CASE Scan(w)
  BY <1>1 DEF Scan
<1>2. ASSUME NEW t \in Tasks, Examine(w, t) PROVE GateInv'
  <2>0. \A d \in Tasks : Seen(w)[d] = "SUCCESS" => d \in succeeded
    BY DEF Seen
  <2>1. Met(t, Seen(w)) => Free(t)
    <3>1. SUFFICES ASSUME Met(t, Seen(w)) PROVE Free(t)
      OBVIOUS
    <3>2. \A d \in Prereqs(t) : d \in succeeded
      BY <3>1, <2>0, MetMeans, PrereqsAreTasks
    <3>3. t \notin Delayed
      BY <1>2, NoPrereqs DEF OneGate, Examine, ExamineWith
    <3> QED BY <3>2, <3>3, PrereqsAreTasks DEF Free, Due
  <2>2. \A v \in Resolvers, d \in Tasks : kept'[v][d] = "SUCCESS" => d \in succeeded
    BY <1>2, <2>0 DEF Examine, ExamineWith, Keeps
  <2> QED BY <1>2, <2>1, <2>2 DEF Examine, ExamineWith
<1>3. CASE Release(w)
  <2>1. CASE status[pick[w]] = "GONE"
    BY <1>3, <2>1, NoRowsTyped DEF Release, Ends, Rest
  <2>2. CASE status[pick[w]] # "GONE"
    BY <1>3, <2>2 DEF Release
  <2> QED BY <2>1, <2>2
<1>4. CASE Done(w)
  BY <1>4, NoRowsTyped DEF Done, Rest
<1>5. CASE ResolverDies(w)
  BY <1>5, NoRowsTyped DEF ResolverDies, Ends, Rest
<1> QED BY <1>1, <1>2, <1>3, <1>4, <1>5 DEF Resolve

LEMMA ScheduleGated ==
    ASSUME TypeOK, OneGate, GateInv, NEW s \in Schedulers,
           Poll(s) \/ SchedulerStops(s) \/ \E t \in Tasks : ReleaseDelayed(s, t)
    PROVE  GateInv'
<1> USE FreeStays DEF TypeOK, GateInv, RowsFree, ResolversFree, WritersFree, Started
<1>1. CASE Poll(s)
  <2>1. \A t \in Delayed \cap elapsed : Free(t)
    BY NoPrereqs, DelayedAssumption DEF OneGate, Free, Due
  <2> QED BY <1>1, <2>1 DEF Poll
<1>2. CASE SchedulerStops(s)
  BY <1>2 DEF SchedulerStops
<1>3. ASSUME NEW t \in Tasks, ReleaseDelayed(s, t) PROVE GateInv'
  BY <1>3 DEF ReleaseDelayed
<1> QED BY <1>1, <1>2, <1>3

LEMMA RequestGated ==
    ASSUME TypeOK, GateInv,
           \/ \E t \in Tasks : Cancel(t) \/ Retry(t)
           \/ PromoteSelect \/ PromoteCommit \/ ClearSelect \/ ClearDelete
    PROVE  GateInv'
<1> USE FreeStays DEF TypeOK, GateInv, RowsFree, ResolversFree, WritersFree, Started
<1>1. ASSUME NEW t \in Tasks, Cancel(t) \/ Retry(t) PROVE GateInv'
  BY <1>1 DEF Cancel, Retry
<1>2. CASE PromoteSelect
  BY <1>2, NoPrereqs DEF PromoteSelect, Free
<1>3. CASE PromoteCommit
  BY <1>3 DEF PromoteCommit
<1>4. CASE ClearSelect \/ ClearDelete
  BY <1>4 DEF ClearSelect, ClearDelete
<1> QED BY <1>1, <1>2, <1>3, <1>4

LEMMA GateStep == TypeOK /\ OneGate /\ GateInv /\ [Next]_vars => GateInv'
<1> SUFFICES ASSUME TypeOK, OneGate, GateInv, [Next]_vars PROVE GateInv'
  OBVIOUS
<1>1. CASE UNCHANGED vars
  BY <1>1 DEF vars, GateInv, RowsFree, ResolversFree, WritersFree, Free, Due
<1> QED
  BY <1>1, CreateGated, ExecuteGated, ResolveGated, ScheduleGated, RequestGated DEF Next

(* A task starts only after its prerequisites have succeeded, provided no    *)
(* task has a countdown as well as prerequisites: the scheduler and the      *)
(* resolvers each look at one of the two.                                    *)
THEOREM Prerequisites == ASSUME OneGate PROVE Spec => PrereqsFirst
<1>1. TypeOK /\ GateInv /\ [Next]_vars
        => [\A t \in Tasks : status[t] = "QUEUED" /\ status'[t] = "RUNNING"
                             => Prereqs(t) \subseteq succeeded]_vars
  BY DEF GateInv, RowsFree, Started, Free
<1> QED
  BY <1>1, GateInit, GateStep, Typing, PTL DEF Spec, PrereqsFirst

(* Under the same proviso a delayed task starts only after its countdown.    *)
THEOREM Countdown == ASSUME OneGate PROVE Spec => CountdownFirst
<1>1. TypeOK /\ GateInv /\ [Next]_vars
        => [\A t \in Tasks : status[t] = "QUEUED" /\ status'[t] = "RUNNING"
                             => Due(t)]_vars
  BY DEF GateInv, RowsFree, Started, Free
<1> QED
  BY <1>1, GateInit, GateStep, Typing, PTL DEF Spec, CountdownFirst

-----------------------------------------------------------------------------
(* No lost wake-up.  Besides the property the invariant says that whatever   *)
(* a resolver has on its hands depends on the task it was started for, so    *)
(* that a resolver which ends early misses nothing that missed omits.        *)

Recorded == \A t \in Tasks : status[t] = "SUCCESS" => t \in succeeded

OwnWork == \A w \in Resolvers :
    /\ phase[w] = "idle" => todo[w] = {}
    /\ phase[w] \in {"idle", "spawned"} => kept[w] = NoRows
    /\ \A t \in todo[w] : of[w] \in Prereqs(t)
    /\ pick[w] # NoTask => of[w] \in Prereqs(pick[w])

WakeInv == Recorded /\ OwnWork /\ NoLostWakeup

(* The tasks the property speaks of. *)
Waiting(t) == /\ t \notin missed /\ status[t] = "PENDING" /\ DependsOn[t] # <<>>
              /\ Met(t, status)

LEMMA WakeInit == Init => WakeInv
  BY NoTaskOutside DEF Init, WakeInv, Recorded, OwnWork, NoLostWakeup

(* A step that writes neither SUCCESS nor a PENDING the property speaks of,   *)
(* and leaves the resolvers alone, keeps it.                                 *)
LEMMA QuietStep ==
    ASSUME TypeOK, NoLostWakeup, UNCHANGED resolver, missed \subseteq missed',
           \A t \in Tasks : status'[t] = "SUCCESS" => status[t] = "SUCCESS",
           \A t \in Tasks : Waiting(t)' => status[t] = "PENDING"
    PROVE  NoLostWakeup'
<1>1. SUFFICES ASSUME NEW t \in Tasks, Waiting(t)' PROVE \E w \in Resolvers : Owes(w, t)'
  BY DEF NoLostWakeup, Waiting
<1>2. Met(t, status') /\ status'[t] = "PENDING"
  BY <1>1 DEF Waiting
<1>3. Met(t, status)
  <2>1. /\ \A d \in Prereqs(t) : status'[d] = "SUCCESS"
        /\ Cardinality(Prereqs(t)) = Len(DependsOn[t])
    BY <1>2, MetMeans
  <2>2. \A d \in Prereqs(t) : status[d] = "SUCCESS"
    BY <2>1, PrereqsAreTasks
  <2> QED BY <2>1, <2>2, MetWhen
<1>4. Waiting(t)
  <2>1. status[t] = "PENDING"
    BY <1>1, <1>2
  <2>2. t \notin missed /\ DependsOn[t] # <<>>
    BY <1>1 DEF Waiting
  <2> QED BY <1>3, <2>1, <2>2 DEF Waiting
<1>5. PICK w \in Resolvers : Owes(w, t)
  BY <1>4 DEF NoLostWakeup, Waiting
<1> QED BY <1>5 DEF Owes

LEMMA QuieterStep ==
    ASSUME TypeOK, WakeInv, UNCHANGED resolver, UNCHANGED history,
           \A t \in Tasks : status'[t] = status[t] \/ status'[t] \notin {"SUCCESS", "PENDING"}
    PROVE  WakeInv'
<1> USE DEF WakeInv, Recorded, OwnWork
<1>1. Recorded' /\ OwnWork'
  OBVIOUS
<1>2. \A t \in Tasks : Waiting(t)' => status'[t] = "PENDING"
  BY DEF Waiting
<1>3. \A t \in Tasks : Waiting(t)' => status[t] = "PENDING"
  BY <1>2
<1> QED BY <1>1, <1>3, QuietStep

LEMMA CreateWakes ==
    ASSUME TypeOK, WakeInv, NEW t \in Tasks, CreateCheck(t) \/ CreateCommit(t) \/ Elapse(t)
    PROVE  WakeInv'
<1> USE DEF WakeInv, Recorded, OwnWork
<1>1. CASE CreateCheck(t) \/ Elapse(t)
  BY <1>1, QuieterStep DEF CreateCheck, Elapse
<1>2. CASE CreateCommit(t)
  <2>1. Recorded' /\ OwnWork'
    BY <1>2 DEF CreateCommit, TypeOK
  <2>2. ~Waiting(t)'
    <3>1. SUFFICES ASSUME Waiting(t)' PROVE FALSE
      OBVIOUS
    <3>2. \A d \in Prereqs(t) : status'[d] = "SUCCESS"
      BY <3>1, MetMeans DEF Waiting
    <3>3. Prereqs(t) \subseteq succeeded
      BY <2>1, <3>2, <1>2, PrereqsAreTasks DEF CreateCommit
    <3> QED BY <1>2, <3>1, <3>3 DEF CreateCommit, Waiting
  <2>3. /\ \A u \in Tasks : status'[u] = "SUCCESS" => status[u] = "SUCCESS"
        /\ \A u \in Tasks \ {t} : status'[u] = status[u]
    BY <1>2 DEF CreateCommit, TypeOK
  <2>4. UNCHANGED resolver /\ missed \subseteq missed'
    BY <1>2 DEF CreateCommit
  <2>5. \A u \in Tasks : Waiting(u)' => status'[u] = "PENDING"
    BY DEF Waiting
  <2>6. \A u \in Tasks : Waiting(u)' => status[u] = "PENDING"
    BY <2>2, <2>3, <2>5
  <2> QED BY <2>1, <2>3, <2>4, <2>6, QuietStep
<1> QED BY <1>1, <1>2

LEMMA ExecuteWakes ==
    ASSUME TypeOK, WakeInv, NEW t \in Tasks, Execute(t)
    PROVE  WakeInv'
<1> USE DEF WakeInv, Recorded, OwnWork
<1>1. CASE Begin(t)
  BY <1>1, QuieterStep DEF Begin, TypeOK
<1>2. CASE Fails(t)
  <2>1. \A u \in Tasks : status'[u] = status[u] \/ status'[u] \notin {"SUCCESS", "PENDING"}
    BY <1>2 DEF Fails, Settle, TypeOK
  <2> QED BY <1>2, <2>1, QuieterStep DEF Fails, Settle
<1>3. CASE Succeeds(t) /\ status[t] = "GONE"
  <2>1. status' = status
    BY <1>3 DEF Succeeds, Settle, TypeOK
  <2> QED BY <1>3, <2>1, QuieterStep DEF Succeeds, Settle
<1>4. CASE Succeeds(t) /\ status[t] # "GONE"
  <2>1. PICK w \in Resolvers : /\ phase[w] = "idle"
                               /\ phase' = [phase EXCEPT ![w] = "spawned"]
                               /\ of' = [of EXCEPT ![w] = t]
    BY <1>4 DEF Succeeds, Spawn
  <2>2. /\ UNCHANGED <<list, todo, kept, pick, missed>>
        /\ succeeded' = succeeded \cup {t}
        /\ status' = [status EXCEPT ![t] = "SUCCESS"]
    BY <1>4 DEF Succeeds, Settle
  <2>3. pick[w] = NoTask
    BY <2>1 DEF TypeOK
  <2>4. Recorded'
    BY <2>2 DEF TypeOK
  <2>5. OwnWork'
    BY <2>1, <2>2, <2>3 DEF TypeOK
  <2>6. ASSUME NEW u \in Tasks, Waiting(u)' PROVE \E v \in Resolvers : Owes(v, u)'
    <3>1. CASE t \in Prereqs(u)
      BY <2>1, <3>1 DEF Owes, TypeOK
    <3>2. CASE t \notin Prereqs(u)
      <4>1. Met(u, status)
        <5>1. Met(u, status')
          BY <2>6 DEF Waiting
        <5>2. /\ \A d \in Prereqs(u) : status'[d] = "SUCCESS"
              /\ Cardinality(Prereqs(u)) = Len(DependsOn[u])
          BY <5>1, MetMeans
        <5>3. \A d \in Prereqs(u) : status[d] = "SUCCESS"
          BY <2>2, <3>2, <5>2, PrereqsAreTasks DEF TypeOK
        <5> QED BY <5>2, <5>3, MetWhen
      <4>2. Waiting(u)
        BY <2>2, <2>6, <4>1 DEF Waiting, TypeOK
      <4>3. PICK v \in Resolvers : Owes(v, u)
        BY <4>2 DEF NoLostWakeup, Waiting
      <4>4. v # w
        BY <2>1, <2>3, <2>6, <4>3, NoTaskOutside DEF Owes
      <4> QED BY <2>1, <2>2, <4>3, <4>4 DEF Owes, TypeOK
    <3> QED BY <3>1, <3>2
  <2> QED BY <2>4, <2>5, <2>6 DEF NoLostWakeup, Waiting
<1> QED BY <1>1, <1>2, <1>3, <1>4 DEF Execute

(* A resolver that ends early is recorded for all it might have released. *)
LEMMA EndsWakes ==
    ASSUME TypeOK, WakeInv, NEW w \in Resolvers, phase[w] # "idle", Ends(w),
           UNCHANGED <<status, succeeded>>
    PROVE  WakeInv'
<1> USE DEF WakeInv, Recorded, OwnWork
<1>1. Recorded' /\ OwnWork'
  BY NoTaskOutside DEF Ends, Rest, TypeOK
<1>2. ASSUME NEW u \in Tasks, Waiting(u)' PROVE \E v \in Resolvers : Owes(v, u)'
  <2>1. Waiting(u) /\ of[w] \notin Prereqs(u)
    BY <1>2 DEF Waiting, Ends
  <2>2. PICK v \in Resolvers : Owes(v, u)
    BY <2>1 DEF NoLostWakeup, Waiting
  <2>3. v # w
    BY <2>1, <2>2, NoTaskOutside DEF Owes
  <2> QED BY <2>2, <2>3 DEF Owes, Ends, Rest, TypeOK
<1> QED BY <1>1, <1>2 DEF NoLostWakeup, Waiting

LEMMA ResolveWakes ==
    ASSUME TypeOK, WakeInv, NEW w \in Resolvers, Resolve(w) \/ ResolverDies(w)
    PROVE  WakeInv'
<1> USE DEF WakeInv, Recorded, OwnWork
<1>1. CASE Scan(w)
  <2>1. Recorded' /\ OwnWork'
    BY <1>1 DEF Scan, TypeOK
  <2>2. ASSUME NEW u \in Tasks, Waiting(u)' PROVE \E v \in Resolvers : Owes(v, u)'
    <3>1. Waiting(u)
      BY <1>1, <2>2 DEF Scan, Waiting
    <3>2. PICK v \in Resolvers : Owes(v, u)
      BY <3>1 DEF NoLostWakeup, Waiting
    <3>3. CASE v = w
      <4>1. of[w] \in Prereqs(u)
        BY <1>1, <3>2, <3>3, NoTaskOutside DEF Scan, Owes, TypeOK
      <4>2. \A d \in Prereqs(u) : status[d] = "SUCCESS"
        BY <3>1, MetMeans DEF Waiting
      <4>3. u \in todo'[w] /\ \A d \in Prereqs(u) : d \notin list'[w]
        BY <1>1, <3>1, <4>1, <4>2 DEF Scan, Waiting, TypeOK
      <4>4. \A d \in Prereqs(u) : kept'[w][d] = "ABSENT"
        BY <1>1, PrereqsAreTasks, NoRowsTyped DEF Scan
      <4> QED BY <1>1, <4>3, <4>4 DEF Scan, Owes, TypeOK
    <3>4. CASE v # w
      BY <1>1, <3>2, <3>4 DEF Scan, Owes, TypeOK
    <3> QED BY <3>3, <3>4
  <2> QED BY <2>1, <2>2 DEF NoLostWakeup, Waiting
<1>2. ASSUME NEW t \in Tasks, Examine(w, t) PROVE WakeInv'
  <2>1. Recorded' /\ OwnWork'
    BY <1>2, NoTaskOutside DEF Examine, ExamineWith, TypeOK
  <2>2. ASSUME NEW u \in Tasks, Waiting(u)' PROVE \E v \in Resolvers : Owes(v, u)'
    <3>1. Waiting(u)
      BY <1>2, <2>2 DEF Examine, ExamineWith, Waiting
    <3>2. PICK v \in Resolvers : Owes(v, u)
      BY <3>1 DEF NoLostWakeup, Waiting
    <3>3. CASE v = w /\ u = t
      <4>1. \A d \in Prereqs(t) : d \notin list[w] /\ kept[w][d] \in {"ABSENT", "SUCCESS"}
        BY <1>2, <3>2, <3>3, NoTaskOutside DEF Examine, ExamineWith, Owes, TypeOK
      <4>2. \A d \in Prereqs(t) : Seen(w)[d] = "SUCCESS"
        BY <3>1, <3>3, <4>1, MetMeans, PrereqsAreTasks DEF Waiting, Seen
      <4>3. Met(t, Seen(w))
        BY <3>1, <3>3, <4>2, MetMeans, MetWhen DEF Waiting
      <4> QED BY <1>2, <3>3, <4>3 DEF Examine, ExamineWith, Owes, TypeOK
    <3>4. CASE v # w \/ u # t
      <4>1. CASE v # w
        BY <1>2, <3>2, <4>1 DEF Examine, ExamineWith, Owes, TypeOK
      <4>2. CASE v = w /\ u # t
        <5>1. phase[w] = "scanning" /\ pick[w] # u
          BY <1>2, NoTaskOutside DEF Examine, ExamineWith, TypeOK
        <5>2. /\ u \in todo[w]
              /\ \A d \in Prereqs(u) : d \notin list[w] /\ kept[w][d] \in {"ABSENT", "SUCCESS"}
          BY <3>2, <4>2, <5>1 DEF Owes
        <5>3. u \in todo'[w] /\ phase'[w] # "idle" /\ list' = list
          BY <1>2, <4>2, <5>2 DEF Examine, ExamineWith, TypeOK
        <5>4. \A d \in Prereqs(u) : status[d] = "SUCCESS"
          BY <3>1, MetMeans DEF Waiting
        <5>5. \A d \in Prereqs(u) : Seen(w)[d] = "SUCCESS"
          BY <5>2, <5>4, PrereqsAreTasks DEF Seen
        <5>6. \A d \in Prereqs(u) : kept'[w][d] \in {"ABSENT", "SUCCESS"}
          BY <1>2, <5>5, PrereqsAreTasks DEF Examine, ExamineWith, Keeps, TypeOK
        <5> QED BY <4>2, <5>2, <5>3, <5>6 DEF Owes
      <4> QED BY <3>4, <4>1, <4>2
    <3> QED BY <3>3, <3>4
  <2> QED BY <2>1, <2>2 DEF NoLostWakeup, Waiting
<1>3. CASE Release(w)
  <2>1. CASE status[pick[w]] = "GONE"
    BY <1>3, <2>1, EndsWakes DEF Release
  <2>2. CASE status[pick[w]] # "GONE"
    <3>1. Recorded' /\ OwnWork'
      BY <1>3, <2>2 DEF Release, TypeOK
    <3>2. ASSUME NEW u \in Tasks, Waiting(u)' PROVE \E v \in Resolvers : Owes(v, u)'
      <4>1. pick[w] \in Tasks /\ u # pick[w]
        BY <1>3, <2>2, <3>2 DEF Release, Waiting, TypeOK
      <4>2. Met(u, status)
        BY <1>3, <2>2, <3>2, <4>1, MetMeans, MetWhen, PrereqsAreTasks DEF Release, Waiting, TypeOK
      <4>3. Waiting(u)
        BY <1>3, <2>2, <3>2, <4>1, <4>2 DEF Release, Waiting, TypeOK
      <4>4. PICK v \in Resolvers : Owes(v, u)
        BY <4>3 DEF NoLostWakeup, Waiting
      <4> QED BY <1>3, <2>2, <4>1, <4>4 DEF Release, Owes, TypeOK
    <3> QED BY <3>1, <3>2 DEF NoLostWakeup, Waiting
  <2> QED BY <2>1, <2>2
<1>4. CASE Done(w)
  <2>1. Recorded' /\ OwnWork'
    BY <1>4, NoTaskOutside DEF Done, Rest, TypeOK
  <2>2. ASSUME NEW u \in Tasks, Waiting(u)' PROVE \E v \in Resolvers : Owes(v, u)'
    <3>1. Waiting(u)
      BY <1>4, <2>2 DEF Done, Waiting
    <3>2. PICK v \in Resolvers : Owes(v, u)
      BY <3>1 DEF NoLostWakeup, Waiting
    <3>3. v # w
      BY <1>4, <3>2, NoTaskOutside DEF Done, Owes, TypeOK
    <3> QED BY <1>4, <3>2, <3>3 DEF Done, Rest, Owes, TypeOK
  <2> QED BY <2>1, <2>2 DEF NoLostWakeup, Waiting
<1>5. CASE ResolverDies(w)
  BY <1>5, EndsWakes DEF ResolverDies
<1> QED BY <1>1, <1>2, <1>3, <1>4, <1>5 DEF Resolve

LEMMA OthersWake ==
    ASSUME TypeOK, WakeInv,
           \/ \E s \in Schedulers : \/ Poll(s) \/ SchedulerStops(s)
                                    \/ \E t \in Tasks : ReleaseDelayed(s, t)
           \/ \E t \in Tasks : Cancel(t) \/ Retry(t)
           \/ PromoteSelect \/ PromoteCommit \/ ClearSelect \/ ClearDelete
           \/ UNCHANGED vars
    PROVE  WakeInv'
<1>1. UNCHANGED resolver /\ UNCHANGED history
  BY DEF Poll, SchedulerStops, ReleaseDelayed, Cancel, Retry, PromoteSelect, PromoteCommit,
         ClearSelect, ClearDelete, vars
<1>2. \A t \in Tasks : status'[t] = status[t] \/ status'[t] \in {"QUEUED", "CANCELLED", "GONE"}
  BY DEF Poll, SchedulerStops, ReleaseDelayed, Cancel, Retry, PromoteSelect, PromoteCommit,
         ClearSelect, ClearDelete, vars, TypeOK
<1> QED BY <1>1, <1>2, QuieterStep

LEMMA WakeStep == TypeOK /\ WakeInv /\ [Next]_vars => WakeInv'
  BY CreateWakes, ExecuteWakes, ResolveWakes, OthersWake DEF Next

(* A task whose prerequisites have all succeeded is never forgotten, unless  *)
(* it was inserted too late or one of their resolvers ended early: for every *)
(* dependency graph and every order of completions and resolver steps.       *)
THEOREM Wakeup == Spec => []NoLostWakeup
<1>1. WakeInv => NoLostWakeup
  BY DEF WakeInv
<1> QED
  BY <1>1, WakeInit, WakeStep, Typing, PTL DEF Spec

-----------------------------------------------------------------------------
(* The life of a task.  Every writer works from what it has read or begun    *)
(* some statements before it writes: what it has on its hands is a row that  *)
(* was inserted, and rows do not become uninserted.                          *)

InsertedOnce == \A t \in Tasks : creating[t] # "none" => status[t] = "ABSENT"

InHand(t) ==
    \/ t \in promoting
    \/ \E s \in Schedulers : t \in batch[s]
    \/ \E w \in Resolvers : t \in todo[w] \/ pick[w] = t

HandsInserted == \A t \in Tasks : InHand(t) => status[t] # "ABSENT"

(* An execution of a task has begun only after it left PENDING, and ends     *)
(* with the commit of SUCCESS; a task that can be cleared has been settled.  *)
BegunRows ==
    /\ \A t \in working  : status[t] \notin {"ABSENT", "PENDING", "SUCCESS"}
    /\ \A t \in clearing : status[t] \notin {"ABSENT", "PENDING"}

LifeInv == InsertedOnce /\ HandsInserted /\ BegunRows

LEMMA LifeInit == Init => LifeInv
  BY NoTaskOutside DEF Init, LifeInv, InsertedOnce, HandsInserted, InHand, BegunRows

Present    == Life!Existing
Executable == {"QUEUED", "RUNNING", "RETRY", "CANCELLED", "DEAD_LETTERED"}

LEMMA Arrows ==
    ASSUME NEW from, NEW to,
           \/ from = "ABSENT" /\ to \in {"PENDING", "QUEUED"}
           \/ from \in Present /\ to \in {"QUEUED", "CANCELLED"}
           \/ from \in Executable /\ to \in {"RUNNING", "SUCCESS", "DEAD_LETTERED"}
           \/ from \in Present \ {"PENDING"} /\ to = "GONE"
    PROVE  <<from, to>> \in Life!Moves
  BY DEF Present, Executable, Life!Existing, Life!Moves, Life!Inserted, Life!Queued,
         Life!Executed, Life!Cancelled, Life!Cleared

Lives == \A t \in Tasks : status'[t] = status[t] \/ <<status[t], status'[t]>> \in Life!Moves

(* A step that writes no status changes hands only, and takes into them only *)
(* rows it has just read.                                                    *)
LEMMA HandsStep ==
    ASSUME LifeInv, UNCHANGED <<status, creating, working, clearing>>,
           \A t \in Tasks : InHand(t)' => InHand(t) \/ status[t] # "ABSENT"
    PROVE  LifeInv' /\ Lives
  BY DEF LifeInv, InsertedOnce, HandsInserted, BegunRows, Lives

(* A step that writes rows that exist, and no PENDING or SUCCESS, keeps the  *)
(* invariant.                                                                *)
LEMMA WriteStep ==
    ASSUME TypeOK, LifeInv, UNCHANGED <<creating, working>>, clearing' \subseteq clearing,
           \A t \in Tasks : InHand(t)' => InHand(t),
           \A t \in Tasks : \/ status'[t] = status[t]
                            \/ status[t] # "ABSENT" /\ status'[t] \in {"QUEUED", "CANCELLED", "GONE"}
    PROVE  LifeInv'
  BY DEF LifeInv, InsertedOnce, HandsInserted, BegunRows, TypeOK

LEMMA CreateLives ==
    ASSUME TypeOK, LifeInv, NEW t \in Tasks, CreateCheck(t) \/ CreateCommit(t) \/ Elapse(t)
    PROVE  LifeInv' /\ Lives
<1> USE DEF LifeInv, InsertedOnce, HandsInserted, BegunRows
<1>1. UNCHANGED <<working, clearing>> /\ \A u \in Tasks : InHand(u)' <=> InHand(u)
  BY DEF CreateCheck, CreateCommit, Elapse, InHand
<1>2. CASE CreateCheck(t)
  BY <1>1, <1>2 DEF CreateCheck, TypeOK, Lives
<1>3. CASE CreateCommit(t)
  <2>1. status[t] = "ABSENT" /\ creating[t] \in {"PENDING", "QUEUED"}
    BY <1>3 DEF CreateCommit, TypeOK
  <2>2. status' = [status EXCEPT ![t] = creating[t]]
    BY <1>3 DEF CreateCommit
  <2>3. Lives
    BY <2>1, <2>2, Arrows DEF Lives, TypeOK
  <2>4. LifeInv'
    BY <1>1, <1>3, <2>1, <2>2 DEF CreateCommit, TypeOK
  <2> QED BY <2>3, <2>4
<1>4. CASE Elapse(t)
  BY <1>1, <1>4 DEF Elapse, Lives
<1> QED BY <1>2, <1>3, <1>4

LEMMA ExecuteLives ==
    ASSUME TypeOK, LifeInv, NEW t \in Tasks, Execute(t)
    PROVE  LifeInv' /\ Lives
<1> USE DEF LifeInv, InsertedOnce, HandsInserted, BegunRows
<1>1. UNCHANGED <<creating, clearing>> /\ \A u \in Tasks : InHand(u)' <=> InHand(u)
  BY DEF Execute, Begin, Fails, Succeeds, Settle, InHand
<1>2. CASE Begin(t)
  <2>1. Lives
    BY <1>2, Arrows DEF Begin, Lives, TypeOK, Executable
  <2>2. LifeInv'
    BY <1>1, <1>2 DEF Begin, TypeOK
  <2> QED BY <2>1, <2>2
<1>3. ASSUME NEW outcome \in {"QUEUED", "SUCCESS", "CANCELLED", "DEAD_LETTERED"},
             Settle(t, outcome)
      PROVE  LifeInv' /\ Lives
  <2>1. /\ t \in working /\ working' = working \ {t}
        /\ \A u \in Tasks \ {t} : status'[u] = status[u]
        /\ status'[t] = IF status[t] = "GONE" THEN "GONE" ELSE outcome
    BY <1>3 DEF Settle, TypeOK
  <2>2. status[t] = "GONE" \/ status[t] \in Executable
    BY <2>1 DEF TypeOK, Executable
  <2>3. Lives
    BY <2>1, <2>2, Arrows DEF Lives, Executable, Present, Life!Existing
  <2>4. LifeInv'
    BY <1>1, <2>1, <2>2 DEF TypeOK, Executable
  <2> QED BY <2>3, <2>4
<1> QED BY <1>2, <1>3 DEF Execute, Fails, Succeeds

LEMMA ResolveLives ==
    ASSUME TypeOK, LifeInv, NEW w \in Resolvers, Resolve(w) \/ ResolverDies(w)
    PROVE  LifeInv' /\ Lives
<1>1. CASE Scan(w)
  BY <1>1, HandsStep DEF Scan, InHand, TypeOK
<1>2. ASSUME NEW t \in Tasks, Examine(w, t) PROVE LifeInv' /\ Lives
  BY <1>2, HandsStep DEF Examine, ExamineWith, InHand, TypeOK, LifeInv, HandsInserted
<1>3. ASSUME Rest(w), UNCHANGED <<status, creating, working, clearing, batch, promoting>>
      PROVE  LifeInv' /\ Lives
  BY <1>3, HandsStep, NoTaskOutside DEF Rest, InHand, TypeOK
<1>4. CASE Release(w)
  <2>1. CASE status[pick[w]] = "GONE"
    BY <1>3, <1>4, <2>1 DEF Release, Ends
  <2>2. CASE status[pick[w]] # "GONE"
    <3>1. pick[w] \in Tasks /\ status' = [status EXCEPT ![pick[w]] = "QUEUED"]
      BY <1>4, <2>2 DEF Release, TypeOK
    <3>2. status[pick[w]] \in Present
      BY <2>2, <3>1 DEF LifeInv, HandsInserted, InHand, TypeOK, Present, Life!Existing
    <3>3. \A t \in Tasks : InHand(t)' => InHand(t)
      BY <1>4, <2>2, NoTaskOutside DEF Release, InHand, TypeOK
    <3>4. LifeInv'
      BY <1>4, <3>1, <3>2, <3>3, WriteStep DEF Release, TypeOK, Present, Life!Existing
    <3>5. Lives
      BY <3>1, <3>2, Arrows DEF Lives, TypeOK
    <3> QED BY <3>4, <3>5
  <2> QED BY <2>1, <2>2
<1>5. CASE Done(w)
  BY <1>3, <1>5 DEF Done
<1>6. CASE ResolverDies(w)
  BY <1>3, <1>6 DEF ResolverDies, Ends
<1> QED BY <1>1, <1>2, <1>4, <1>5, <1>6 DEF Resolve

LEMMA OthersLive ==
    ASSUME TypeOK, LifeInv,
           \/ \E s \in Schedulers : \/ Poll(s) \/ SchedulerStops(s)
                                    \/ \E t \in Tasks : ReleaseDelayed(s, t)
           \/ \E t \in Tasks : Cancel(t) \/ Retry(t)
           \/ PromoteSelect \/ PromoteCommit \/ ClearSelect \/ ClearDelete
           \/ UNCHANGED vars
    PROVE  LifeInv' /\ Lives
<1>1. ASSUME \/ \E s \in Schedulers : Poll(s) \/ SchedulerStops(s)
             \/ PromoteSelect \/ UNCHANGED vars
      PROVE  LifeInv' /\ Lives
  BY <1>1, HandsStep DEF Poll, SchedulerStops, PromoteSelect, vars, InHand, TypeOK
<1>2. CASE ClearSelect
  BY <1>2 DEF ClearSelect, LifeInv, InsertedOnce, HandsInserted, BegunRows, InHand, Lives
<1>3. ASSUME NEW to \in {"QUEUED", "CANCELLED", "GONE"}, NEW S \in SUBSET Tasks,
             \A t \in S : status[t] \in Present,
             to = "GONE" => \A t \in S : status[t] # "PENDING",
             \A t \in Tasks : status'[t] = IF t \in S THEN to ELSE status[t],
             UNCHANGED <<creating, working>>, clearing' \subseteq clearing,
             \A t \in Tasks : InHand(t)' => InHand(t)
      PROVE  LifeInv' /\ Lives
  <2>1. Lives
    BY <1>3, Arrows DEF Lives
  <2>2. LifeInv'
    BY <1>3, WriteStep DEF Present, Life!Existing
  <2> QED BY <2>1, <2>2
<1>4. ASSUME NEW s \in Schedulers, NEW t \in Tasks, ReleaseDelayed(s, t)
      PROVE  LifeInv' /\ Lives
  <2>1. UNCHANGED <<creating, working, clearing>> /\ \A u \in Tasks : InHand(u)' => InHand(u)
    BY <1>4 DEF ReleaseDelayed, InHand, TypeOK
  <2>2. status[t] # "ABSENT"
    BY <1>4 DEF ReleaseDelayed, LifeInv, HandsInserted, InHand
  <2>3. CASE status[t] = "GONE"
    BY <1>4, <2>1, <2>3, HandsStep DEF ReleaseDelayed
  <2>4. CASE status[t] # "GONE"
    <3>1. \A u \in {t} : status[u] \in Present
      BY <2>2, <2>4 DEF Present, Life!Existing, TypeOK
    <3>2. \A u \in Tasks : status'[u] = IF u \in {t} THEN "QUEUED" ELSE status[u]
      BY <1>4, <2>4 DEF ReleaseDelayed, TypeOK
    <3> QED BY <1>3, <2>1, <3>1, <3>2
  <2> QED BY <2>3, <2>4
<1>5. ASSUME NEW t \in Tasks, Cancel(t) \/ Retry(t) PROVE LifeInv' /\ Lives
  <2>1. UNCHANGED <<creating, working, clearing>> /\ \A u \in Tasks : InHand(u)' => InHand(u)
    BY <1>5 DEF Cancel, Retry, InHand
  <2>2. \A u \in {t} : status[u] \in Present
    BY <1>5 DEF Cancel, Retry, Present, Life!Existing, TypeOK
  <2>3. \E to \in {"QUEUED", "CANCELLED"} :
            \A u \in Tasks : status'[u] = IF u \in {t} THEN to ELSE status[u]
    BY <1>5 DEF Cancel, Retry, TypeOK
  <2> QED BY <1>3, <2>1, <2>2, <2>3
<1>6. CASE PromoteCommit
  <2>1. UNCHANGED <<creating, working, clearing>> /\ \A u \in Tasks : InHand(u)' => InHand(u)
    BY <1>6 DEF PromoteCommit, InHand
  <2>2. CASE \E t \in promoting : status[t] = "GONE"
    BY <1>6, <2>1, <2>2, HandsStep DEF PromoteCommit
  <2>3. CASE ~\E t \in promoting : status[t] = "GONE"
    <3>1. promoting \in SUBSET Tasks /\ \A t \in promoting : status[t] \in Present
      BY <2>3 DEF LifeInv, HandsInserted, InHand, Present, Life!Existing, TypeOK
    <3>2. \A u \in Tasks : status'[u] = IF u \in promoting THEN "QUEUED" ELSE status[u]
      BY <1>6, <2>3 DEF PromoteCommit
    <3> QED BY <1>3, <2>1, <3>1, <3>2
  <2> QED BY <2>2, <2>3
<1>7. CASE ClearDelete
  <2> DEFINE S == {t \in clearing : status[t] # "GONE"}
  <2>1. UNCHANGED <<creating, working>> /\ clearing' \subseteq clearing
    BY <1>7 DEF ClearDelete
  <2>2. \A u \in Tasks : InHand(u)' => InHand(u)
    BY <1>7 DEF ClearDelete, InHand
  <2>3. S \in SUBSET Tasks /\ \A t \in S : status[t] \in Present /\ status[t] # "PENDING"
    BY DEF LifeInv, BegunRows, Present, Life!Existing, TypeOK
  <2>4. \A u \in Tasks : status'[u] = IF u \in S THEN "GONE" ELSE status[u]
    BY <1>7 DEF ClearDelete
  <2> QED BY <1>3, <2>1, <2>2, <2>3, <2>4
<1> QED BY <1>1, <1>2, <1>4, <1>5, <1>6, <1>7

LEMMA LifeStep == TypeOK /\ LifeInv /\ [Next]_vars => LifeInv' /\ [Life!Next]_status
<1> SUFFICES ASSUME TypeOK, LifeInv, [Next]_vars PROVE LifeInv' /\ Life!Next
  OBVIOUS
<1>1. LifeInv' /\ Lives
  BY CreateLives, ExecuteLives, ResolveLives, OthersLive DEF Next
<1>2. status' \in [Tasks -> Life!Status]
  BY StepTyped DEF TypeOK, Life!Status, Life!Missing, Life!Existing
<1> QED BY <1>1, <1>2 DEF Lives, Life!Next

(* Waiting, released, executed, cancelled and cleared in any order, from     *)
(* copies however old, a task moves as TaskLife allows: for every set of     *)
(* tasks and every dependency graph.                                         *)
THEOREM LifeRefinement == Spec => LifeContract
<1>1. Init => Life!Init
  BY DEF Init, Life!Init
<1> QED
  BY <1>1, LifeInit, LifeStep, Typing, PTL DEF Spec, LifeContract, Life!Spec

=============================================================================
