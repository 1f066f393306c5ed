--------------------------- MODULE ObserversProofs ---------------------------
(***************************************************************************)
(* Theorems about Observers, for any retries, redrives, faults, events and *)
(* handlers.                                                               *)
(***************************************************************************)
EXTENDS Observers, SequenceTheorems, TLAPS

USE DEF row, sse, channel, Quiet, Worker, Outside, Sent

-----------------------------------------------------------------------------
(* Types, of the task, of its followers and of the notification service *)

TaskTyped ==
    /\ watching \in {"stream", "wait", "service"} /\ status \in Status
    /\ progress \in {0, 25, 70, 100} /\ attempt \in 0 .. MaxRetries
    /\ stage \in Stages /\ signal \in BOOLEAN /\ redriven \in 0 .. MaxRedrives
    /\ commits \in Nat /\ been \in SUBSET Status

FollowersTyped ==
    /\ stream \in {"off", "loaded", "open", "closed"} /\ loaded \in Message
    /\ inbox \in Seq(Message) /\ lost \in Nat /\ shown \in Message
    /\ wait \in {"off", "polling", "returned"}

ServiceTyped ==
    /\ ready \in SUBSET Events /\ subscribed \in BOOLEAN
    /\ at \in [Handlers -> {"idle", "email", "post", "log"}]
    /\ held \in [Handlers -> Events \cup {NoEvent}]
    /\ \A h \in Handlers : at[h] = "idle" <=> held[h] = NoEvent
    /\ emails \in [Events -> Nat] /\ posts \in [Events -> Nat]
    /\ hooks \in [Events -> Nat]
    /\ errors \in SUBSET Events /\ general \in 0 .. MaxGeneral
    /\ routed \in SUBSET Events
    /\ crashes \in Nat /\ dbFails \in Nat /\ crashes + dbFails \in 0 .. MaxFaults

(* An attempt is only begun while there is one left. *)
Counted ==
    /\ stage \in {"failed", "backoff"} => attempt < MaxRetries
    /\ stage = "idle" /\ status = "QUEUED" => attempt < MaxRetries
    /\ stage \in {"succeeded", "completed", "dead", "buried", "aborted"} => status \in Terminal

Typed == TaskTyped /\ FollowersTyped /\ ServiceTyped /\ Counted

LEMMA TypedTypes == Typed => TypeOK
  BY DEF Typed, TaskTyped, FollowersTyped, ServiceTyped, TypeOK

LEMMA EventsTyped ==
    /\ NoEvent \notin Events
    /\ \A n \in Attempts : Completed(n) \in Events /\ Failed(n) \in Events
    /\ \A n \in 1 .. MaxGeneral : General(n) \in Events
  BY DEF Events, NoEvent, Completed, Failed, General

LEMMA RunTyped == Typed => Run \in Attempts
<1> SUFFICES ASSUME Typed PROVE Run \in Attempts
  OBVIOUS
<1>1. /\ redriven \in Nat /\ MaxRedrives \in Nat /\ MaxRetries \in Nat /\ attempt \in Nat
      /\ redriven <= MaxRedrives /\ attempt <= MaxRetries
  BY BoundsAssumption DEF Typed, TaskTyped
<1>2. \A m, n, k \in Nat : m <= n => m * k <= n * k
  OBVIOUS
<1>3. redriven * (MaxRetries + 1) <= MaxRedrives * (MaxRetries + 1)
  BY <1>1, <1>2
<1>4. (MaxRedrives + 1) * (MaxRetries + 1) = MaxRedrives * (MaxRetries + 1) + MaxRetries + 1
  BY <1>1
<1>5. redriven * (MaxRetries + 1) \in Nat /\ MaxRedrives * (MaxRetries + 1) \in Nat
  BY <1>1
<1> QED BY <1>1, <1>3, <1>4, <1>5 DEF Run, Attempts

LEMMA InitTyped == Init => Typed
<1> SUFFICES ASSUME Init PROVE Typed
  OBVIOUS
<1>1. 0 \in 0 .. MaxRedrives /\ 0 \in 0 .. MaxGeneral /\ 0 \in 0 .. MaxFaults /\ 0 \in 0 .. MaxRetries
  BY BoundsAssumption
<1>2. TaskTyped /\ Counted
  <2>1. TaskTyped
    BY <1>1 DEF Init, TaskTyped, Status, Stages
  <2>2. Counted
    BY BoundsAssumption DEF Init, Counted
  <2> QED BY <2>1, <2>2
<1>3. FollowersTyped
  <2>1. Nothing \in Message
    BY DEF Nothing, Message, Status, Terminal
  <2> QED BY <2>1 DEF Init, FollowersTyped
<1>4. ServiceTyped
  <2>1. ready \in SUBSET Events /\ subscribed \in BOOLEAN /\ errors \in SUBSET Events
    BY DEF Init
  <2>4. /\ general \in 0 .. MaxGeneral /\ routed \in SUBSET Events
        /\ crashes \in Nat /\ dbFails \in Nat /\ crashes + dbFails \in 0 .. MaxFaults
    BY <1>1 DEF Init
  <2>2. /\ at \in [Handlers -> {"idle", "email", "post", "log"}]
        /\ held \in [Handlers -> Events \cup {NoEvent}]
        /\ \A h \in Handlers : at[h] = "idle" <=> held[h] = NoEvent
    BY DEF Init
  <2>3. emails \in [Events -> Nat] /\ posts \in [Events -> Nat] /\ hooks \in [Events -> Nat]
    BY DEF Init
  <2> QED BY <2>1, <2>2, <2>3, <2>4 DEF ServiceTyped
<1> QED BY <1>2, <1>3, <1>4 DEF Typed

(* The steps, each with what it leaves alone. *)

Executes == Begin \/ Listen \/ Compute \/ Succeed \/ Fail \/ Aborted \/ Requeue

Announces ==
    \/ Announce("begun", "announced", "RUNNING", 25)
    \/ Announce("computed", "persisting", "RUNNING", 70)
    \/ Announce("succeeded", "completed", "SUCCESS", 100)
    \/ Announce("failed", "backoff", "RETRY", 0)
    \/ Announce("dead", "buried", "DEAD_LETTERED", 0)
    \/ Announce("aborted", "idle", "CANCELLED", 0)

Follows == StreamLoad \/ StreamSubscribe \/ StreamRelay \/ StreamTimesOut \/ WaitStart \/ WaitPoll

Serves == Subscribe \/ PublishGeneral \/ ServiceCrashes \/ \E h \in Handlers : Serve(h) \/ HandlerRaises(h)

LEMMA AnyStep ==
    Next => Executes \/ Announces \/ Notify \/ Cancel \/ Redrive \/ Follows \/ Serves
  BY DEF Next, Work, Executes, Announces, Follows, Serves

LEMMA CommitTyped ==
    ASSUME Typed, NEW s \in Status, NEW p \in {0, 25, 70, 100}, Commit(s, p)
    PROVE  /\ status' \in Status /\ progress' \in {0, 25, 70, 100}
           /\ commits' \in Nat /\ been' \in SUBSET Status
  BY DEF Commit, Typed, TaskTyped

LEMMA Statuses == /\ {"RUNNING", "SUCCESS", "RETRY", "DEAD_LETTERED", "CANCELLED", "QUEUED"} \subseteq Status
                  /\ {"SUCCESS", "DEAD_LETTERED", "CANCELLED"} \subseteq Terminal
                  /\ "QUEUED" \notin Terminal
  BY DEF Status, Terminal

LEMMA TaskSteps ==
    ASSUME Typed, Executes \/ Cancel \/ Redrive
    PROVE  TaskTyped' /\ Counted' /\ UNCHANGED <<watching, sse, channel, wait, service>>
<1> USE Statuses DEF Go
<1>0. /\ attempt \in 0 .. MaxRetries /\ MaxRetries \in Nat \ {0}
      /\ redriven \in 0 .. MaxRedrives /\ MaxRedrives \in Nat
  BY BoundsAssumption DEF Typed, TaskTyped
<1>1. CASE Begin
  <2>1. Commit("RUNNING", 25)
    BY <1>1 DEF Begin
  <2>2. attempt' \in 0 .. MaxRetries
    BY <1>0, <1>1 DEF Begin, Typed, Counted
  <2> QED BY <1>1, <2>1, <2>2, CommitTyped DEF Begin, Typed, TaskTyped, Counted, Stages
<1>2. CASE Listen
  BY <1>2 DEF Listen, Typed, TaskTyped, Counted, Stages
<1>3. CASE Compute
  <2>1. Commit(status, 70) /\ status \in Status
    BY <1>3 DEF Compute, Typed, TaskTyped
  <2> QED BY <1>3, <2>1, CommitTyped DEF Compute, Typed, TaskTyped, Counted, Stages
<1>4. CASE Succeed
  <2>1. Commit("SUCCESS", 100) /\ status' = "SUCCESS"
    BY <1>4 DEF Succeed, Commit
  <2>0. signal' \in BOOLEAN
    BY <1>4 DEF Succeed
  <2>2. TaskTyped'
    BY <1>4, <2>0, <2>1, CommitTyped DEF Succeed, Typed, TaskTyped, Stages
  <2>3. Counted'
    BY <1>4, <2>1 DEF Succeed, Counted
  <2> QED BY <1>4, <2>2, <2>3 DEF Succeed
<1>5. CASE Fail
  <2>1. CASE attempt < MaxRetries /\ Go("running", "failed") /\ Commit("RETRY", progress)
    <3>0. signal' \in BOOLEAN
      BY <1>5 DEF Fail
    <3>1. TaskTyped'
      BY <1>5, <2>1, <3>0, CommitTyped DEF Fail, Typed, TaskTyped, Stages
    <3>2. Counted'
      BY <1>5, <2>1 DEF Fail, Counted
    <3> QED BY <1>5, <3>1, <3>2 DEF Fail
  <2>2. CASE Go("running", "dead") /\ Commit("DEAD_LETTERED", 0)
    <3>1. status' = "DEAD_LETTERED"
      BY <2>2 DEF Commit
    <3> QED BY <1>5, <2>2, <3>1, CommitTyped DEF Fail, Typed, TaskTyped, Counted, Stages
  <2> QED BY <1>5, <2>1, <2>2 DEF Fail
<1>6. CASE Aborted
  <2>1. Commit("CANCELLED", 0) /\ status' = "CANCELLED"
    BY <1>6 DEF Aborted, Commit
  <2> QED BY <1>6, <2>1, CommitTyped DEF Aborted, Typed, TaskTyped, Counted, Stages
<1>7. CASE Requeue
  <2>1. Commit("QUEUED", progress)
    BY <1>7 DEF Requeue
  <2> QED BY <1>7, <2>1, CommitTyped DEF Requeue, Typed, TaskTyped, Counted, Stages
<1>8. CASE Cancel
  <2>1. been' \in SUBSET Status /\ status' \in Status
    BY <1>8 DEF Cancel, Typed, TaskTyped
  <2> QED BY <1>8, <2>1 DEF Cancel, Typed, TaskTyped, Counted, Stages
<1>9. CASE Redrive
  <2>1. been' \in SUBSET Status /\ status' \in Status /\ redriven' \in 0 .. MaxRedrives
    BY <1>0, <1>9 DEF Redrive, Typed, TaskTyped
  <2> QED BY <1>0, <1>9, <2>1 DEF Redrive, Typed, TaskTyped, Counted, Stages
<1> QED BY <1>1, <1>2, <1>3, <1>4, <1>5, <1>6, <1>7, <1>8, <1>9 DEF Executes

LEMMA AnnounceSteps ==
    ASSUME Typed, Announces
    PROVE  TaskTyped' /\ FollowersTyped' /\ Counted' /\ UNCHANGED <<watching, row, commits, been, sse, wait, service>>
<1> USE DEF Typed, TaskTyped, FollowersTyped, Counted, Status, Terminal, Stages
<1>1. ASSUME NEW from, NEW to, NEW s \in Status, NEW p \in {0, 25, 70, 100}, Announce(from, to, s, p)
      PROVE  /\ inbox' \in Seq(Message) /\ lost' \in Nat
             /\ UNCHANGED <<watching, row, signal, commits, been, sse, wait, service>>
  <2>1. [status |-> s, progress |-> p, commit |-> commits] \in Message
    BY <1>1 DEF Message
  <2>2. PublishProgress(s, p) /\ UNCHANGED <<watching, row, signal, commits, been, sse, wait, service>>
    BY <1>1 DEF Announce
  <2>3. inbox' \in Seq(Message)
    <3> DEFINE m == [status |-> s, progress |-> p, commit |-> commits]
    <3>1. m \in Message /\ inbox \in Seq(Message)
      BY <2>1
    <3>2. inbox' = inbox \/ inbox' = Append(inbox, m)
      BY <2>2 DEF PublishProgress
    <3> HIDE DEF m
    <3> QED BY <3>1, <3>2, AppendProperties
  <2>4. lost' \in Nat
    BY <2>2 DEF PublishProgress
  <2> QED BY <2>2, <2>3, <2>4
<1>2. /\ inbox' \in Seq(Message) /\ lost' \in Nat
      /\ UNCHANGED <<watching, row, signal, commits, been, sse, wait, service>>
  BY <1>1 DEF Announces
<1> QED BY <1>2 DEF Announces, Announce, Go

LEMMA NotifySteps ==
    ASSUME Typed, Notify
    PROVE  /\ TaskTyped' /\ Counted' /\ ServiceTyped'
           /\ UNCHANGED <<watching, row, commits, been, sse, channel, wait>>
<1> USE DEF Typed, TaskTyped, Counted, ServiceTyped, Status, Terminal, Stages
<1>1. Completed(Run) \in Events /\ Failed(Run) \in Events
  BY RunTyped, EventsTyped
<1>2. ready' \in SUBSET Events /\ routed' \in SUBSET Events
  BY <1>1 DEF Notify, PublishEvent
<1> QED BY <1>2 DEF Notify, Go

LEMMA FollowSteps ==
    ASSUME Typed, Follows
    PROVE  FollowersTyped' /\ UNCHANGED <<watching, Worker, service>>
<1> USE DEF Typed, TaskTyped, FollowersTyped
<1>1. [status |-> status, progress |-> progress, commit |-> commits] \in Message
  BY DEF Message
<1>2. inbox # <<>> => Head(inbox) \in Message /\ Tail(inbox) \in Seq(Message)
  BY HeadTailProperties
<1>3. CASE StreamLoad
  BY <1>1, <1>3 DEF StreamLoad
<1>4. CASE StreamSubscribe
  BY <1>4 DEF StreamSubscribe
<1>5. CASE StreamRelay
  BY <1>2, <1>5 DEF StreamRelay
<1>6. CASE StreamTimesOut
  BY <1>6 DEF StreamTimesOut
<1>7. CASE WaitStart
  BY <1>7 DEF WaitStart
<1>8. CASE WaitPoll
  BY <1>1, <1>8 DEF WaitPoll
<1> QED BY <1>3, <1>4, <1>5, <1>6, <1>7, <1>8 DEF Follows

LEMMA ServeSteps ==
    ASSUME Typed, Serves
    PROVE  ServiceTyped' /\ UNCHANGED <<watching, Worker, sse, channel, wait>>
<1> USE DEF Typed, ServiceTyped
<1>0. NoEvent \notin Events
  BY EventsTyped
<1>1. CASE Subscribe
  <2>1. subscribed' \in BOOLEAN
    BY <1>1 DEF Subscribe
  <2> QED BY <1>1, <2>1 DEF Subscribe
<1>2. CASE PublishGeneral
  <2>1. general' \in 0 .. MaxGeneral /\ general + 1 \in 1 .. MaxGeneral
    BY <1>2, BoundsAssumption DEF PublishGeneral
  <2>2. General(general + 1) \in Events
    BY <2>1, EventsTyped
  <2>3. ready' \in SUBSET Events /\ routed' \in SUBSET Events
    BY <1>2, <2>2 DEF PublishGeneral, PublishEvent
  <2> QED BY <1>2, <2>1, <2>3 DEF PublishGeneral
<1>3. CASE ServiceCrashes
  <2>1. subscribed' \in BOOLEAN
    BY <1>3 DEF ServiceCrashes
  <2>2. crashes' \in Nat /\ crashes' + dbFails' \in 0 .. MaxFaults
    BY <1>3, BoundsAssumption DEF ServiceCrashes
  <2>3. ready' \in SUBSET Events
    BY <1>3 DEF ServiceCrashes
  <2>4. /\ at' \in [Handlers -> {"idle", "email", "post", "log"}]
        /\ held' \in [Handlers -> Events \cup {NoEvent}]
        /\ \A h \in Handlers : at'[h] = "idle" <=> held'[h] = NoEvent
    BY <1>3 DEF ServiceCrashes
  <2> QED BY <1>3, <2>1, <2>2, <2>3, <2>4 DEF ServiceCrashes
<1>4. ASSUME NEW h \in Handlers, Serve(h)
      PROVE  ServiceTyped' /\ UNCHANGED <<watching, Worker, sse, channel, wait>>
  <2>1. CASE Deliver(h)
    <3>1. PICK e \in ready : ready' = ready \ {e} /\ held' = [held EXCEPT ![h] = e]
      BY <2>1 DEF Deliver
    <3>2. e \in Events /\ e # NoEvent
      BY <1>0, <3>1
    <3> QED BY <2>1, <3>1, <3>2 DEF Deliver
  <2>2. CASE LogEmail(h)
    <3>1. held[h] \in Events
      BY <2>2 DEF LogEmail
    <3> QED BY <2>2, <3>1 DEF LogEmail, Acknowledge
  <2>3. CASE PostWebhook(h)
    <3>1. held[h] \in Events
      BY <2>3 DEF PostWebhook
    <3> QED BY <2>3, <3>1 DEF PostWebhook
  <2>4. CASE LogWebhook(h)
    <3>1. held[h] \in Events
      BY <2>4 DEF LogWebhook
    <3> QED BY <2>4, <3>1 DEF LogWebhook, Acknowledge
  <2> QED BY <1>4, <2>1, <2>2, <2>3, <2>4 DEF Serve
<1>5. ASSUME NEW h \in Handlers, HandlerRaises(h)
      PROVE  ServiceTyped' /\ UNCHANGED <<watching, Worker, sse, channel, wait>>
  <2>1. held[h] \in Events
    BY <1>5 DEF HandlerRaises
  <2>2. dbFails' \in Nat /\ crashes' + dbFails' \in 0 .. MaxFaults
    BY <1>5, BoundsAssumption DEF HandlerRaises
  <2>3. /\ at' \in [Handlers -> {"idle", "email", "post", "log"}]
        /\ held' \in [Handlers -> Events \cup {NoEvent}]
        /\ \A g \in Handlers : at'[g] = "idle" <=> held'[g] = NoEvent
    BY <1>5 DEF HandlerRaises, Acknowledge
  <2> QED BY <1>5, <2>1, <2>2, <2>3 DEF HandlerRaises
<1> QED BY <1>1, <1>2, <1>3, <1>4, <1>5 DEF Serves

LEMMA StepTyped == Typed /\ [Next]_vars => Typed'
<1> SUFFICES ASSUME Typed, [Next]_vars PROVE Typed'
  OBVIOUS
<1>1. CASE Executes \/ Cancel \/ Redrive
  BY <1>1, TaskSteps DEF Typed, FollowersTyped, ServiceTyped, service
<1>2. CASE Announces
  BY <1>2, AnnounceSteps DEF Typed, ServiceTyped, service
<1>3. CASE Notify
  BY <1>3, NotifySteps DEF Typed, FollowersTyped
<1>4. CASE Follows
  BY <1>4, FollowSteps DEF Typed, TaskTyped, ServiceTyped, Counted, service
<1>5. CASE Serves
  BY <1>5, ServeSteps DEF Typed, TaskTyped, FollowersTyped, Counted
<1>6. CASE UNCHANGED vars
  BY <1>6 DEF Typed, TaskTyped, FollowersTyped, ServiceTyped, Counted, vars, service
<1> QED BY <1>1, <1>2, <1>3, <1>4, <1>5, <1>6, AnyStep

LEMMA AlwaysTyped == Spec => []Typed
  BY InitTyped, StepTyped, PTL DEF Spec

(* Every variable keeps its type; an attempt stays within max_retries,       *)
(* although retries and redrives set it back and forth.                      *)
THEOREM Typing == Spec => []TypeOK
  BY AlwaysTyped, TypedTypes, PTL

-----------------------------------------------------------------------------
(* What followers are shown.  A stage that is announced has been committed;  *)
(* messages wait in the order of their commits, and behind the last one that *)
(* was sent to the client.                                                   *)

Reached == /\ stage \in {"begun", "announced", "running", "computed"} => "RUNNING" \in been
           /\ stage = "succeeded" => "SUCCESS" \in been
           /\ stage = "failed"    => "RETRY" \in been
           /\ stage = "dead"      => "DEAD_LETTERED" \in been
           /\ stage = "aborted"   => "CANCELLED" \in been

Truthful == /\ status \in been /\ loaded.status \in been /\ shown.status \in been
            /\ \A i \in 1 .. Len(inbox) : inbox[i].status \in been

Apart == /\ stream # "off" => watching = "stream"
         /\ wait # "off" => watching = "wait"
         /\ stream \in {"off", "loaded"} => inbox = <<>>

Ordered == /\ loaded.commit <= commits /\ shown.commit <= commits
           /\ \A i \in 1 .. Len(inbox) : /\ shown.commit <= inbox[i].commit
                                         /\ inbox[i].commit <= commits
           /\ \A i, j \in 1 .. Len(inbox) : i <= j => inbox[i].commit <= inbox[j].commit

FollowInv == Reached /\ Truthful /\ Apart /\ Ordered

LEMMA InitFollow == Init => FollowInv
  BY DEF Init, FollowInv, Reached, Truthful, Apart, Ordered, Nothing

LEMMA Commits ==
    ASSUME Typed
    PROVE  /\ commits \in Nat /\ loaded.commit \in Nat /\ shown.commit \in Nat
           /\ Len(inbox) \in Nat /\ \A i \in 1 .. Len(inbox) : inbox[i].commit \in Nat
<1>1. commits \in Nat /\ loaded \in Message /\ shown \in Message /\ inbox \in Seq(Message)
  BY DEF Typed, TaskTyped, FollowersTyped
<1>2. Len(inbox) \in Nat /\ \A i \in 1 .. Len(inbox) : inbox[i] \in Message
  BY <1>1, LenProperties, ElementOfSeq
<1> QED BY <1>1, <1>2 DEF Message

(* The task goes on, and nobody is told yet. *)
LEMMA TaskFollow ==
    ASSUME Typed, FollowInv, Executes \/ Cancel \/ Redrive
    PROVE  FollowInv'
<1>1. UNCHANGED <<watching, sse, channel, wait, service>>
  BY TaskSteps
<1>2. /\ been \subseteq been' /\ commits' \in {commits, commits + 1}
      /\ status' \in been' /\ Reached'
  <2> USE DEF FollowInv, Reached, Truthful, Go, Commit
  <2>1. CASE Begin
    BY <2>1 DEF Begin
  <2>2. CASE Listen
    BY <2>2 DEF Listen
  <2>3. CASE Compute
    BY <2>3 DEF Compute
  <2>4. CASE Succeed
    BY <2>4 DEF Succeed
  <2>5. CASE Fail
    BY <2>5 DEF Fail
  <2>6. CASE Aborted
    BY <2>6 DEF Aborted
  <2>7. CASE Requeue
    BY <2>7 DEF Requeue
  <2>8. CASE Cancel
    BY <2>8 DEF Cancel
  <2>9. CASE Redrive
    BY <2>9 DEF Redrive
  <2> QED BY <2>1, <2>2, <2>3, <2>4, <2>5, <2>6, <2>7, <2>8, <2>9 DEF Executes
<1>3. Truthful' /\ Apart'
  BY <1>1, <1>2 DEF FollowInv, Truthful, Apart
<1>4. Ordered'
  BY <1>1, <1>2, Commits DEF FollowInv, Ordered
<1> QED BY <1>2, <1>3, <1>4 DEF FollowInv

LEMMA AnnounceFollow ==
    ASSUME Typed, FollowInv, Announces
    PROVE  FollowInv'
<1>1. UNCHANGED <<watching, row, commits, been, sse, wait, service>>
  BY AnnounceSteps
<1>2. Reached'
  BY <1>1 DEF Announces, Announce, Go, FollowInv, Reached
<1>3. PICK s \in Status, p \in {0, 25, 70, 100} : PublishProgress(s, p) /\ s \in been
  BY Statuses DEF Announces, Announce, Go, FollowInv, Reached
<1>4. CASE inbox' = inbox
  BY <1>1, <1>2, <1>4 DEF FollowInv, Truthful, Apart, Ordered
<1>5. CASE stream = "open" /\ inbox' = Append(inbox, [status |-> s, progress |-> p, commit |-> commits])
  <2> DEFINE m == [status |-> s, progress |-> p, commit |-> commits]
  <2>0. commits \in Nat /\ inbox \in Seq(Message)
    BY DEF Typed, TaskTyped, FollowersTyped
  <2>1. m \in Message /\ m.status = s /\ m.commit = commits
    BY <2>0 DEF Message
  <2> HIDE DEF m
  <2>2. /\ Len(inbox') = Len(inbox) + 1 /\ inbox'[Len(inbox) + 1] = m
        /\ \A i \in 1 .. Len(inbox) : inbox'[i] = inbox[i]
    BY <1>5, <2>0, <2>1, AppendProperties DEF m
  <2>3. \A i \in 1 .. Len(inbox') : i \in 1 .. Len(inbox) \/ i = Len(inbox) + 1
    BY <2>2, Commits
  <2>4. Truthful'
    BY <1>1, <1>3, <2>1, <2>2, <2>3 DEF FollowInv, Truthful
  <2>5. Ordered'
    BY <1>1, <2>1, <2>2, <2>3, Commits DEF FollowInv, Ordered
  <2>6. Apart'
    BY <1>1, <1>5 DEF FollowInv, Apart
  <2> QED BY <1>2, <2>4, <2>5, <2>6 DEF FollowInv
<1> QED BY <1>3, <1>4, <1>5 DEF PublishProgress

LEMMA FollowFollow ==
    ASSUME Typed, FollowInv, Follows
    PROVE  FollowInv' /\ (stream = "open" => shown'.commit >= shown.commit)
<1>1. UNCHANGED <<watching, Worker, service>>
  BY FollowSteps
<1>2. Reached'
  BY <1>1 DEF FollowInv, Reached
<1>3. CASE StreamLoad
  BY <1>1, <1>2, <1>3, Commits DEF StreamLoad, FollowInv, Truthful, Apart, Ordered
<1>4. CASE StreamSubscribe
  <2>1. inbox = <<>> /\ Len(inbox) = 0
    BY <1>4 DEF StreamSubscribe, FollowInv, Apart
  <2> QED BY <1>1, <1>2, <1>4, <2>1, Commits DEF StreamSubscribe, FollowInv, Truthful, Apart, Ordered
<1>5. CASE StreamRelay
  <2>0. inbox \in Seq(Message) /\ inbox # <<>>
    BY <1>5 DEF StreamRelay, Typed, FollowersTyped
  <2>1. /\ Len(inbox) \in Nat \ {0} /\ shown' = inbox[1]
        /\ Len(inbox') = Len(inbox) - 1
        /\ \A i \in 1 .. Len(inbox') : inbox'[i] = inbox[i + 1]
    BY <1>5, <2>0, HeadTailProperties, EmptySeq DEF StreamRelay
  <2>2. \A i \in 1 .. Len(inbox') : i + 1 \in 1 .. Len(inbox)
    BY <2>1
  <2>3. 1 \in 1 .. Len(inbox)
    BY <2>1
  <2>4. Truthful'
    BY <1>1, <1>5, <2>1, <2>2, <2>3 DEF StreamRelay, FollowInv, Truthful
  <2>5. Ordered'
    <3>1. \A i \in 1 .. Len(inbox') : 1 <= i + 1 /\ inbox[1].commit <= inbox[i + 1].commit
      BY <2>1, <2>2, <2>3 DEF FollowInv, Ordered
    <3>2. \A i, j \in 1 .. Len(inbox') : i <= j => i + 1 <= j + 1
      BY <2>1
    <3> QED BY <1>1, <1>5, <2>1, <2>2, <2>3, <3>1, <3>2 DEF StreamRelay, FollowInv, Ordered
  <2>6. Apart' /\ shown'.commit >= shown.commit
    BY <1>1, <1>5, <2>1, <2>3, Commits DEF StreamRelay, FollowInv, Apart, Ordered
  <2> QED BY <1>2, <2>4, <2>5, <2>6 DEF FollowInv
<1>6. CASE StreamTimesOut
  BY <1>1, <1>2, <1>6, Commits DEF StreamTimesOut, FollowInv, Truthful, Apart, Ordered
<1>7. CASE WaitStart
  BY <1>1, <1>2, <1>7, Commits DEF WaitStart, FollowInv, Truthful, Apart, Ordered
<1>8. CASE WaitPoll
  <2>1. stream = "off" /\ inbox = <<>> /\ Len(inbox) = 0
    BY <1>8 DEF WaitPoll, FollowInv, Apart
  <2> QED BY <1>1, <1>2, <1>8, <2>1, Commits DEF WaitPoll, FollowInv, Truthful, Apart, Ordered
<1> QED BY <1>3, <1>4, <1>5, <1>6, <1>7, <1>8 DEF Follows

LEMMA StepFollow ==
    Typed /\ FollowInv /\ [Next]_vars =>
        FollowInv' /\ (stream = "open" => shown'.commit >= shown.commit)
<1> SUFFICES ASSUME Typed, FollowInv, [Next]_vars
             PROVE  FollowInv' /\ (stream = "open" => shown'.commit >= shown.commit)
  OBVIOUS
<1>0. shown' = shown => shown'.commit >= shown.commit
  BY Commits
<1>1. CASE Executes \/ Cancel \/ Redrive
  BY <1>0, <1>1, TaskFollow, TaskSteps
<1>2. CASE Announces
  BY <1>0, <1>2, AnnounceFollow, AnnounceSteps
<1>3. CASE Notify
  BY <1>0, <1>3 DEF Notify, Go, FollowInv, Reached, Truthful, Apart, Ordered
<1>4. CASE Follows
  BY <1>4, FollowFollow
<1>5. CASE Serves
  BY <1>0, <1>5, ServeSteps DEF FollowInv, Reached, Truthful, Apart, Ordered
<1>6. CASE UNCHANGED vars
  BY <1>0, <1>6 DEF vars, FollowInv, Reached, Truthful, Apart, Ordered
<1> QED BY <1>1, <1>2, <1>3, <1>4, <1>5, <1>6, AnyStep

LEMMA AlwaysFollow == Spec => []FollowInv
  BY InitFollow, AlwaysTyped, StepFollow, PTL DEF Spec

(* No message runs ahead of its commit, for all interleavings of executions, *)
(* cancels, redrives and followers.                                          *)
THEOREM Truth == Spec => []ShownWasTrue
<1>1. FollowInv => ShownWasTrue
  BY DEF FollowInv, Truthful, ShownWasTrue
<1> QED BY <1>1, AlwaysFollow, PTL

(* A stream never shows an earlier commit after a later one.                 *)
THEOREM Forward == Spec => StreamForward
<1>1. Typed /\ FollowInv /\ [Next]_vars => [stream = "open" => shown'.commit >= shown.commit]_vars
  BY StepFollow
<1> QED BY <1>1, AlwaysTyped, AlwaysFollow, PTL DEF Spec, StreamForward

-----------------------------------------------------------------------------
(* The notification service.  An event that was routed is in one place at a  *)
(* time, and only a crash takes it back to an earlier one.                   *)

Placed == /\ routed \subseteq {General(n) : n \in 1 .. general}
          /\ ready \subseteq routed
          /\ \A h \in Handlers : held[h] \in (routed \ ready) \cup {NoEvent}
          /\ \A g, h \in Handlers : held[g] = held[h] /\ held[g] # NoEvent => g = h

\* told as often as the service crashed, once more when it has been logged
Untold(e) == /\ e \notin routed => emails[e] = 0
             /\ e \in ready => emails[e] <= crashes

InStep(h) == /\ at[h] = "email" => emails[held[h]] <= crashes
             /\ at[h] = "post"  => posts[held[h]] < emails[held[h]]
             /\ at[h] = "log"   => hooks[held[h]] < posts[held[h]]

Tallied == /\ \A e \in Events : Untold(e)
           /\ \A h \in Handlers : InStep(h)

ServiceInv == Placed /\ Tallied /\ RepeatsNeedCrash /\ Accounted

LEMMA InitService == Init => ServiceInv
<1> SUFFICES ASSUME Init PROVE ServiceInv
  OBVIOUS
<1>1. Placed /\ Accounted
  BY DEF Init, Placed, Accounted
<1>2. Tallied /\ RepeatsNeedCrash
  BY DEF Init, Tallied, Untold, InStep, RepeatsNeedCrash
<1> QED BY <1>1, <1>2 DEF ServiceInv

(* The key of an outcome has a word more than the binding.                   *)
LEMMA Unmatched ==
    ASSUME NEW n
    PROVE  /\ ~Matches(NotificationBinding, Completed(n).key)
           /\ ~Matches(NotificationBinding, Failed(n).key)
<1>1. Len(NotificationBinding) = 2 /\ NotificationBinding # <<"#">>
  BY DEF NotificationBinding
<1>2. Len(Completed(n).key) = 3 /\ Len(Failed(n).key) = 3
  BY DEF Completed, Failed
<1> QED BY <1>1, <1>2 DEF Matches

LEMMA NotifyService == Typed /\ Notify => UNCHANGED service
  BY Unmatched DEF Notify, PublishEvent, service

LEMMA Facts ==
    ASSUME Typed, ServiceInv
    PROVE  /\ NoEvent \notin Events /\ routed \subseteq Events /\ ready \subseteq Events
           /\ crashes \in Nat /\ general \in Nat
           /\ \A e \in Events : emails[e] \in Nat /\ posts[e] \in Nat /\ hooks[e] \in Nat
           /\ \A h \in Handlers : at[h] # "idle" => held[h] \in Events /\ held[h] \in routed
  BY EventsTyped, BoundsAssumption DEF Typed, ServiceTyped, ServiceInv, Placed

LEMMA PublishService ==
    ASSUME Typed, ServiceInv, PublishGeneral
    PROVE  ServiceInv'
<1> DEFINE e == General(general + 1)
<1>1. general \in Nat /\ general' = general + 1 /\ general + 1 \in 1 .. MaxGeneral
  BY BoundsAssumption DEF PublishGeneral, Typed, ServiceTyped
<1>2. e \in Events /\ e \notin routed
  BY <1>1, EventsTyped DEF ServiceInv, Placed, General
<1>3. /\ ready' \in {ready, ready \cup {e}} /\ routed' \in {routed, routed \cup {e}}
      /\ ready' = ready \cup {e} <=> routed' = routed \cup {e}
  BY <1>2 DEF PublishGeneral, PublishEvent, ServiceInv, Placed
<1>4. UNCHANGED <<at, held, emails, posts, hooks, errors, crashes>>
  BY DEF PublishGeneral
<1>5. 1 .. general \subseteq 1 .. general' /\ general' \in 1 .. general'
  BY <1>1
<1> HIDE DEF e
<1>6. Placed'
  <2>1. routed' \subseteq {General(n) : n \in 1 .. general'}
    BY <1>1, <1>3, <1>5 DEF ServiceInv, Placed, e
  <2> QED BY <1>2, <1>3, <1>4, <2>1, Facts DEF ServiceInv, Placed
<1>7. Tallied'
  <2>1. \A d \in Events : Untold(d)'
    BY <1>2, <1>3, <1>4, Facts DEF ServiceInv, Tallied, Untold, InStep
  <2>2. \A h \in Handlers : InStep(h)'
    BY <1>4 DEF ServiceInv, Tallied, Untold, InStep
  <2> QED BY <2>1, <2>2 DEF Tallied, Untold, InStep
<1>8. RepeatsNeedCrash'
  BY <1>4 DEF ServiceInv, RepeatsNeedCrash
<1>9. Accounted'
  BY <1>2, <1>3, <1>4 DEF ServiceInv, Accounted
<1> QED BY <1>6, <1>7, <1>8, <1>9 DEF ServiceInv

LEMMA CrashService ==
    ASSUME Typed, ServiceInv, ServiceCrashes
    PROVE  ServiceInv'
<1>1. /\ crashes' = crashes + 1 /\ UNCHANGED <<emails, posts, hooks, errors, general, routed>>
      /\ ready' = ready \cup ({held[h] : h \in Handlers} \ {NoEvent})
      /\ \A h \in Handlers : at'[h] = "idle" /\ held'[h] = NoEvent
  BY DEF ServiceCrashes
<1>2. Placed'
  BY <1>1 DEF ServiceInv, Placed
<1>3. Tallied'
  <2>1. \A e \in Events : emails[e] <= crashes'
    BY <1>1, Facts DEF ServiceInv, RepeatsNeedCrash
  <2> QED BY <1>1, <2>1 DEF ServiceInv, Tallied, Untold, InStep
<1>4. RepeatsNeedCrash'
  BY <1>1, Facts DEF ServiceInv, RepeatsNeedCrash
<1>5. Accounted'
  BY <1>1, Facts DEF ServiceInv, Accounted
<1> QED BY <1>2, <1>3, <1>4, <1>5 DEF ServiceInv

LEMMA DeliverService ==
    ASSUME Typed, ServiceInv, NEW h \in Handlers, Deliver(h)
    PROVE  ServiceInv'
<1>1. PICK e \in ready : ready' = ready \ {e} /\ held' = [held EXCEPT ![h] = e]
  BY DEF Deliver
<1>2. /\ UNCHANGED <<emails, posts, hooks, errors, general, routed, crashes>>
      /\ at' = [at EXCEPT ![h] = "email"] /\ at[h] = "idle"
  BY DEF Deliver
<1>3. /\ held[h] = NoEvent /\ held'[h] = e /\ at'[h] = "email"
      /\ \A g \in Handlers \ {h} : held'[g] = held[g] /\ at'[g] = at[g]
  BY <1>1, <1>2 DEF Typed, ServiceTyped
<1>4. e \in Events /\ e # NoEvent /\ \A g \in Handlers : held[g] # e
  BY <1>1, Facts DEF ServiceInv, Placed
<1>5. Placed'
  BY <1>1, <1>2, <1>3, <1>4 DEF ServiceInv, Placed
<1>6. Tallied'
  <2>1. \A d \in Events : Untold(d)'
    BY <1>1, <1>2 DEF ServiceInv, Tallied, Untold, InStep
  <2>2. emails'[e] <= crashes'
    BY <1>1, <1>2, <1>4 DEF ServiceInv, Tallied, Untold, InStep
  <2>3. \A g \in Handlers \ {h} : InStep(g)'
    BY <1>2, <1>3 DEF ServiceInv, Tallied, Untold, InStep
  <2> QED BY <1>3, <2>1, <2>2, <2>3 DEF Tallied, Untold, InStep
<1>7. RepeatsNeedCrash'
  BY <1>2 DEF ServiceInv, RepeatsNeedCrash
<1>8. Accounted'
  <2>1. \A d \in routed :
            /\ d \in ready => d \in ready' \/ held'[h] = d
            /\ \A g \in Handlers : held[g] = d => held'[g] = d
    BY <1>1, <1>3, Facts
  <2> QED BY <1>2, <2>1 DEF ServiceInv, Accounted
<1> QED BY <1>5, <1>6, <1>7, <1>8 DEF ServiceInv

(* What ends the work on a message: others keep theirs.                      *)
LEMMA Acknowledged ==
    ASSUME Typed, ServiceInv, NEW h \in Handlers, Acknowledge(h), UNCHANGED <<ready, routed, general>>
    PROVE  /\ Placed' /\ at'[h] = "idle" /\ held'[h] = NoEvent
           /\ \A g \in Handlers \ {h} : held'[g] = held[g] /\ at'[g] = at[g]
<1>1. /\ at'[h] = "idle" /\ held'[h] = NoEvent
      /\ \A g \in Handlers \ {h} : held'[g] = held[g] /\ at'[g] = at[g]
  BY DEF Acknowledge, Typed, ServiceTyped
<1> QED BY <1>1 DEF ServiceInv, Placed

LEMMA EmailService ==
    ASSUME Typed, ServiceInv, NEW h \in Handlers, LogEmail(h)
    PROVE  ServiceInv'
<1> DEFINE e == held[h]
<1>1. /\ UNCHANGED <<ready, posts, hooks, errors, general, routed, crashes>>
      /\ emails' = [emails EXCEPT ![e] = @ + 1] /\ at[h] = "email"
  BY DEF LogEmail
<1>2. e \in Events /\ e \in routed /\ e \notin ready /\ emails[e] <= crashes
  BY <1>1, Facts DEF ServiceInv, Placed, Tallied, Untold, InStep
<1>3. /\ \A d \in Events : emails'[d] = IF d = e THEN emails[d] + 1 ELSE emails[d]
      /\ \A g \in Handlers \ {h} : held[g] # e
  BY <1>1, <1>2, Facts DEF Typed, ServiceTyped, ServiceInv, Placed
<1>4. /\ \/ at'[h] = "idle"
         \/ at'[h] = "post" /\ held'[h] = e
      /\ \A g \in Handlers \ {h} : held'[g] = held[g] /\ at'[g] = at[g]
  <2>1. CASE Webhook
    BY <2>1 DEF LogEmail, Typed, ServiceTyped
  <2>2. CASE ~Webhook
    BY <2>2 DEF LogEmail, Acknowledge, Typed, ServiceTyped
  <2> QED BY <2>1, <2>2
<1>5. Placed'
  <2>1. CASE Webhook
    BY <1>1, <2>1 DEF LogEmail, ServiceInv, Placed
  <2>2. CASE ~Webhook
    BY <1>1, <2>2, Acknowledged DEF LogEmail
  <2> QED BY <2>1, <2>2
<1> HIDE DEF e
<1>6. Tallied'
  BY <1>1, <1>2, <1>3, <1>4, Facts DEF ServiceInv, Tallied, Untold, InStep, RepeatsNeedCrash
<1>7. RepeatsNeedCrash'
  BY <1>1, <1>2, <1>3, Facts DEF ServiceInv, RepeatsNeedCrash
<1>8. Accounted'
  <2>1. emails'[e] > 0
    BY <1>2, <1>3, Facts
  <2>2. \A d \in Events : emails[d] > 0 => emails'[d] > 0
    BY <1>3, Facts
  <2> QED BY <1>1, <1>4, <2>1, <2>2, Facts DEF ServiceInv, Accounted, e
<1> QED BY <1>5, <1>6, <1>7, <1>8 DEF ServiceInv

LEMMA PostService ==
    ASSUME Typed, ServiceInv, NEW h \in Handlers, PostWebhook(h)
    PROVE  ServiceInv'
<1> DEFINE e == held[h]
<1>1. /\ UNCHANGED <<ready, held, emails, hooks, errors, general, routed, crashes>>
      /\ posts' = [posts EXCEPT ![e] = @ + 1] /\ at[h] = "post"
  BY DEF PostWebhook
<1>2. e \in Events /\ posts[e] < emails[e]
  BY <1>1, Facts DEF ServiceInv, Tallied, Untold, InStep
<1>3. /\ \A d \in Events : posts'[d] = IF d = e THEN posts[d] + 1 ELSE posts[d]
      /\ \A g \in Handlers \ {h} : held[g] # e
  BY <1>1, <1>2, Facts DEF Typed, ServiceTyped, ServiceInv, Placed
<1>4. /\ at'[h] = "log" /\ \A g \in Handlers \ {h} : at'[g] = at[g]
  BY DEF PostWebhook, Typed, ServiceTyped
<1>5. Placed'
  BY <1>1 DEF ServiceInv, Placed
<1>6. Tallied'
  <2>1. hooks[e] < posts'[e]
    BY <1>2, <1>3, Facts DEF ServiceInv, RepeatsNeedCrash
  <2> QED BY <1>1, <1>2, <1>3, <1>4, <2>1, Facts DEF ServiceInv, Tallied, Untold, InStep
<1> HIDE DEF e
<1>7. RepeatsNeedCrash'
  BY <1>1, <1>2, <1>3, Facts DEF ServiceInv, RepeatsNeedCrash
<1>8. Accounted'
  BY <1>1 DEF ServiceInv, Accounted
<1> QED BY <1>5, <1>6, <1>7, <1>8 DEF ServiceInv

LEMMA HookService ==
    ASSUME Typed, ServiceInv, NEW h \in Handlers, LogWebhook(h)
    PROVE  ServiceInv'
<1> DEFINE e == held[h]
<1>1. /\ UNCHANGED <<ready, emails, posts, errors, general, routed, crashes>>
      /\ hooks' = [hooks EXCEPT ![e] = @ + 1] /\ at[h] = "log" /\ Acknowledge(h)
  BY DEF LogWebhook
<1>2. e \in Events /\ hooks[e] < posts[e]
  BY <1>1, Facts DEF ServiceInv, Tallied, Untold, InStep
<1>3. /\ \A d \in Events : hooks'[d] = IF d = e THEN hooks[d] + 1 ELSE hooks[d]
      /\ \A g \in Handlers \ {h} : held[g] # e
  BY <1>1, <1>2, Facts DEF Typed, ServiceTyped, ServiceInv, Placed
<1>4. /\ Placed' /\ at'[h] = "idle"
      /\ \A g \in Handlers \ {h} : held'[g] = held[g] /\ at'[g] = at[g]
  BY <1>1, Acknowledged
<1>6. Tallied'
  BY <1>1, <1>3, <1>4, Facts DEF ServiceInv, Tallied, Untold, InStep
<1>8. Accounted'
  <2>1. emails[e] > 0
    BY <1>2, Facts DEF ServiceInv, RepeatsNeedCrash
  <2> QED BY <1>1, <1>4, <2>1 DEF ServiceInv, Accounted
<1> HIDE DEF e
<1>7. RepeatsNeedCrash'
  BY <1>1, <1>2, <1>3, Facts DEF ServiceInv, RepeatsNeedCrash
<1> QED BY <1>4, <1>6, <1>7, <1>8 DEF ServiceInv

LEMMA RaiseService ==
    ASSUME Typed, ServiceInv, NEW h \in Handlers, HandlerRaises(h)
    PROVE  ServiceInv'
<1>1. /\ UNCHANGED <<ready, emails, posts, hooks, general, routed, crashes>>
      /\ errors' = errors \cup {held[h]} /\ Acknowledge(h)
  BY DEF HandlerRaises
<1>2. /\ Placed' /\ at'[h] = "idle"
      /\ \A g \in Handlers \ {h} : held'[g] = held[g] /\ at'[g] = at[g]
  BY <1>1, Acknowledged
<1>3. Tallied'
  BY <1>1, <1>2 DEF ServiceInv, Tallied, Untold, InStep
<1>4. RepeatsNeedCrash'
  BY <1>1 DEF ServiceInv, RepeatsNeedCrash
<1>5. Accounted'
  BY <1>1, <1>2 DEF ServiceInv, Accounted
<1> QED BY <1>2, <1>3, <1>4, <1>5 DEF ServiceInv

LEMMA StepService == Typed /\ ServiceInv /\ [Next]_vars => ServiceInv'
<1> SUFFICES ASSUME Typed, ServiceInv, [Next]_vars PROVE ServiceInv'
  OBVIOUS
<1>1. CASE UNCHANGED service
  BY <1>1 DEF service, ServiceInv, Placed, Tallied, Untold, InStep, RepeatsNeedCrash, Accounted
<1>2. CASE Serves
  <2>1. CASE Subscribe
    BY <2>1 DEF Subscribe, ServiceInv, Placed, Tallied, Untold, InStep, RepeatsNeedCrash, Accounted
  <2> QED BY <1>2, <2>1, PublishService, CrashService, DeliverService, EmailService,
             PostService, HookService, RaiseService DEF Serves, Serve
<1>3. \/ Executes \/ Cancel \/ Redrive \/ Announces \/ Notify \/ Follows \/ UNCHANGED vars
      => UNCHANGED service
  BY TaskSteps, AnnounceSteps, NotifyService, FollowSteps DEF vars
<1> QED BY <1>1, <1>2, <1>3, AnyStep

LEMMA AlwaysService == Spec => []ServiceInv
  BY InitService, AlwaysTyped, StepService, PTL DEF Spec

(* An event in the notification queue is not forgotten, for any number of    *)
(* handlers, crashes and failing inserts.                                    *)
THEOREM Accounts == Spec => []Accounted
  BY AlwaysService, PTL DEF ServiceInv

(* A message is worked on by one handler at a time, so that only a crash     *)
(* makes a user be told again.                                               *)
THEOREM Repeats == Spec => []RepeatsNeedCrash
  BY AlwaysService, PTL DEF ServiceInv

Unheard == \A n \in Attempts : /\ Completed(n) \notin routed /\ Failed(n) \notin routed
                               /\ emails[Completed(n)] + emails[Failed(n)] = 0

(* No outcome of a task ever reaches the service, whatever the task does: run *)
(* notify is not an accident of its instance.                                *)
THEOREM NeverNotified == Spec => []Unheard
<1>1. Typed /\ ServiceInv => Unheard
  <2> SUFFICES ASSUME Typed, ServiceInv, NEW n \in Attempts
               PROVE  /\ Completed(n) \notin routed /\ Failed(n) \notin routed
                      /\ emails[Completed(n)] + emails[Failed(n)] = 0
    BY DEF Unheard
  <2>1. \A m : Len(General(m).key) = 2 /\ Len(Completed(n).key) = 3 /\ Len(Failed(n).key) = 3
    BY DEF General, Completed, Failed
  <2>2. Completed(n) \notin routed /\ Failed(n) \notin routed
    BY <2>1 DEF ServiceInv, Placed
  <2> QED BY <2>2, EventsTyped DEF ServiceInv, Tallied, Untold
<1> QED BY <1>1, AlwaysTyped, AlwaysService, PTL

-----------------------------------------------------------------------------
(* The execution of this module is one that TaskExecution may see: the row    *)
(* goes through moves of TaskLife only.                                       *)

Life == INSTANCE TaskLife WITH Tasks <- {"task"}, status <- [t \in {"task"} |-> status]

(* An execution between its first and its last commit has a row that is not   *)
(* in SUCCESS: only it writes that status.                                    *)
Unsettled == stage \notin {"idle", "succeeded", "completed"} => status # "SUCCESS"

Lives == status' = status \/ <<status, status'>> \in Life!Moves

LEMMA ExecutesLives ==
    ASSUME Typed, Unsettled, Executes PROVE Lives /\ Unsettled'
<1> USE DEF Go, Commit, Unsettled, Lives, Life!Moves, Life!Executed, Life!Queued, Life!Existing
<1>0. status \in Status
  BY DEF Typed, TaskTyped
<1>1. CASE Begin
  BY <1>1 DEF Begin
<1>2. CASE Listen \/ Compute
  BY <1>2 DEF Listen, Compute, row
<1>3. CASE Succeed
  BY <1>0, <1>3 DEF Succeed, Status, Terminal
<1>4. CASE Fail
  BY <1>0, <1>4 DEF Fail, Status, Terminal
<1>5. CASE Aborted
  BY <1>0, <1>5 DEF Aborted, Status, Terminal
<1>6. CASE Requeue
  BY <1>0, <1>6 DEF Requeue, Status, Terminal
<1> QED BY <1>1, <1>2, <1>3, <1>4, <1>5, <1>6 DEF Executes

LEMMA StepLives == Typed /\ Unsettled /\ [Next]_vars => Lives /\ Unsettled'
<1> SUFFICES ASSUME Typed, Unsettled, [Next]_vars PROVE Lives /\ Unsettled'
  OBVIOUS
<1> USE DEF Unsettled, Lives
<1>0. status \in Status
  BY DEF Typed, TaskTyped
<1>1. CASE Announces
  BY <1>1 DEF Announces, Announce, Go, row
<1>2. CASE Notify
  BY <1>2 DEF Notify, Go, row
<1>3. CASE Cancel
  BY <1>0, <1>3 DEF Cancel, Status, Terminal, Life!Moves, Life!Cancelled, Life!Existing
<1>4. CASE Redrive
  BY <1>4 DEF Redrive, Life!Moves, Life!Queued, Life!Existing
<1>5. CASE Follows
  BY <1>5, FollowSteps DEF row
<1>6. CASE Serves
  BY <1>6, ServeSteps DEF row
<1>7. CASE UNCHANGED vars
  BY <1>7 DEF vars, row
<1> QED
  BY <1>1, <1>2, <1>3, <1>4, <1>5, <1>6, <1>7, ExecutesLives, AnyStep

(* The task that is watched lives as a row of the table may: what is proved   *)
(* of followers and of the notification service is about executions the       *)
(* worker really has.                                                         *)
THEOREM RowLives == Spec => [][Life!Next]_status
<1> DEFINE InvLives == Typed /\ Unsettled
<1>1. Init => InvLives
  BY InitTyped DEF Init, Unsettled
<1>2. InvLives /\ [Next]_vars => InvLives'
  BY StepTyped, StepLives
<1>3. InvLives /\ InvLives' /\ [Next]_vars => [Life!Next]_status
  <2> SUFFICES ASSUME Typed, Typed', Lives PROVE Life!Next
    BY StepLives
  <2>1. status' \in Life!Status
    BY DEF Typed, TaskTyped, Status, Terminal, Life!Status, Life!Existing
  <2> QED BY <2>1 DEF Life!Next, Lives
<1> HIDE DEF InvLives
<1> QED BY <1>1, <1>2, <1>3, PTL DEF Spec

=============================================================================
