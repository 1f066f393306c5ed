----------------------------- MODULE Observers ------------------------------
(***************************************************************************)
(* How the outside learns what becomes of a task: the row itself, polled   *)
(* by TaskPromise.wait (sdk/cloudtask/client.py); the channel              *)
(* task:progress:<id> of Redis, relayed by stream_task_progress            *)
(* (services/task-service/routes.py); and the events that execute_task     *)
(* publishes for the notification service, which travel through the topic  *)
(* exchange of pkg/messaging.py and are logged, and posted to a webhook,   *)
(* by services/notification-service/main.py.                               *)
(*                                                                         *)
(* One task, one execution at a time (TaskExecution has the rest), with    *)
(* each commit and the publish that follows it as two actions.  The three  *)
(* observers do not affect each other, so a behaviour has one of them.     *)
(***************************************************************************)
EXTENDS Naturals, Sequences

CONSTANTS
    MaxRetries,     \* tasks.max_retries
    MaxRedrives,    \* bound: times a settled task is put back
    MaxFaults,      \* bound: crashes and failing statements
    MaxGeneral,     \* bound: events other programs publish
    Webhook,        \* whether the task has a webhook_url
    Handlers        \* coroutines of the notification service

ASSUME BoundsAssumption  == /\ {MaxRedrives, MaxFaults, MaxGeneral} \subseteq Nat
                            /\ MaxRetries \in Nat \ {0}
ASSUME WebhookAssumption == Webhook \in BOOLEAN

Terminal == {"SUCCESS", "DEAD_LETTERED", "CANCELLED"}
Status   == Terminal \cup {"QUEUED", "RUNNING", "RETRY"}
Stages   == {"idle", "begun", "announced", "running", "computed", "persisting",
             "succeeded", "completed", "failed", "backoff", "dead", "buried", "aborted"}

Message  == [status : Status, progress : {0, 25, 70, 100}, commit : Nat]
Nothing  == [status |-> "QUEUED", progress |-> 0, commit |-> 0]

(* Routing keys, word by word. *)
Completed(n) == [key |-> <<"notification", "task", "completed">>, n |-> n]
Failed(n)    == [key |-> <<"notification", "task", "failed">>, n |-> n]
General(n)   == [key |-> <<"notification", "general">>, n |-> n]
Attempts     == 0 .. (MaxRedrives + 1) * (MaxRetries + 1)
Events == {Completed(n) : n \in Attempts} \cup {Failed(n) : n \in Attempts}
          \cup {General(n) : n \in 1 .. MaxGeneral}
NoEvent == [key |-> <<>>, n |-> 0]

VARIABLES
    watching,   \* the observer of this behaviour, chosen in Init
    status,     \* tasks.status
    progress,   \* tasks.progress
    attempt,    \* tasks.current_attempt
    stage,      \* where the execution stands
    signal,     \* a message on task:abort:<id> is waiting
    redriven,   \* times the task has been put back
    commits,    \* history: commits of executions so far
    been,       \* history: statuses the row has had
    stream,     \* the progress stream: "off", "loaded", "open", "closed"
    loaded,     \* the row as stream_task_progress read it
    inbox,      \* messages of the subscription
    lost,       \* history: the commit whose announcement Redis did not take, or 0
    shown,      \* the last event sent to the client
    wait,       \* TaskPromise.wait: "off", "polling", "returned"
    ready,      \* the notification queue
    subscribed, \* queue.consume() has been called
    at,         \* where each handle_notification stands
    held,       \* its unacknowledged message
    emails,     \* rows of notifications with channel "email", per event
    posts,      \* calls of the webhook
    hooks,      \* rows with channel "webhook"
    errors,     \* events counted as FAILED by on_notification_message
    general,    \* events published from elsewhere
    routed,     \* history: events that reached the queue
    crashes,    \* crashes of the notification service
    dbFails     \* statements that failed in it

row     == <<status, progress, attempt, redriven>>
sse     == <<stream, loaded, shown>>
channel == <<inbox, lost>>
service == <<ready, subscribed, at, held, emails, posts, hooks, errors, general, routed,
             crashes, dbFails>>
vars    == <<watching, row, stage, signal, commits, been, sse, channel, wait, service>>

TypeOK ==
    /\ watching   \in {"stream", "wait", "service"}
    /\ status     \in Status
    /\ progress   \in {0, 25, 70, 100}
    /\ attempt    \in 0 .. MaxRetries
    /\ stage      \in Stages
    /\ signal     \in BOOLEAN
    /\ redriven   \in 0 .. MaxRedrives
    /\ commits    \in Nat
    /\ been       \in SUBSET Status
    /\ stream     \in {"off", "loaded", "open", "closed"}
    /\ loaded     \in Message
    /\ inbox      \in Seq(Message)
    /\ lost       \in Nat
    /\ shown      \in Message
    /\ wait       \in {"off", "polling", "returned"}
    /\ ready      \in SUBSET Events
    /\ subscribed \in BOOLEAN
    /\ at         \in [Handlers -> {"idle", "email", "post", "log"}]
    /\ held       \in [Handlers -> Events \cup {NoEvent}]
    /\ \A h \in Handlers : at[h] = "idle" <=> held[h] = NoEvent
    /\ emails     \in [Events -> Nat]
    /\ posts      \in [Events -> Nat]
    /\ hooks      \in [Events -> Nat]
    /\ errors     \in SUBSET Events
    /\ general    \in 0 .. MaxGeneral
    /\ routed     \in SUBSET Events
    /\ crashes + dbFails \in 0 .. MaxFaults

Init ==
    /\ watching   \in {"stream", "wait", "service"}
    /\ status     = "QUEUED"
    /\ progress   = 0
    /\ attempt    = 0
    /\ stage      = "idle"
    /\ signal     = FALSE
    /\ redriven   = 0
    /\ commits    = 0
    /\ been       = {"QUEUED"}
    /\ stream     = "off"
    /\ loaded     = Nothing
    /\ inbox      = <<>>
    /\ lost       = 0
    /\ shown      = Nothing
    /\ wait       = "off"
    /\ ready      = {}
    /\ subscribed = FALSE
    /\ at         = [h \in Handlers |-> "idle"]
    /\ held       = [h \in Handlers |-> NoEvent]
    /\ emails     = [e \in Events |-> 0]
    /\ posts      = [e \in Events |-> 0]
    /\ hooks      = [e \in Events |-> 0]
    /\ errors     = {}
    /\ general    = 0
    /\ routed     = {}
    /\ crashes    = 0
    /\ dbFails    = 0

-----------------------------------------------------------------------------
(* The topic exchange: "*" stands for one word; "#" alone for any.           *)

Matches(pattern, key) ==
    \/ pattern = <<"#">>
    \/ Len(pattern) = Len(key) /\ \A i \in DOMAIN key : pattern[i] \in {"*", key[i]}

NotificationBinding == <<"notification", "*">>

(* A persistent message goes to the queue whose binding it matches, if any.  *)
PublishEvent(e) ==
    IF watching = "service" /\ Matches(NotificationBinding, e.key)
    THEN ready' = ready \cup {e} /\ routed' = routed \cup {e}
    ELSE UNCHANGED <<ready, routed>>

(* Mutant of PublishProgress: "if progress" takes 0 for nothing to tell. *)
PublishProgressNotZero(s, p) ==
    /\ inbox' = IF stream = "open" /\ p # 0
                THEN Append(inbox, [status |-> s, progress |-> p, commit |-> commits]) ELSE inbox
    /\ UNCHANGED lost

(* publish_progress: PUBLISH reaches who is subscribed, and nobody else; an  *)
(* exception of Redis is swallowed, and the message is gone.                 *)
PublishProgress(s, p) ==
    \/ /\ inbox' = IF stream = "open"
                   THEN Append(inbox, [status |-> s, progress |-> p, commit |-> commits]) ELSE inbox
       /\ UNCHANGED lost
    \/ /\ stream = "open" /\ lost = 0 /\ MaxFaults > 0      \* bound: one
       /\ lost' = commits /\ UNCHANGED inbox

-----------------------------------------------------------------------------
(* The execution *)

Go(from, to) == stage = from /\ stage' = to

(* A commit of the execution; an attribute it has not assigned stays. *)
Commit(s, p) ==
    /\ status' = s
    /\ progress' = p
    /\ commits' = commits + 1
    /\ been' = been \cup {s}

Announce(from, to, s, p) ==
    /\ Go(from, to)
    /\ PublishProgress(s, p)
    /\ UNCHANGED <<watching, row, signal, commits, been, sse, wait, service>>

Quiet == UNCHANGED <<watching, redriven, sse, channel, wait, service>>

Begin ==
    /\ status = "QUEUED"
    /\ Go("idle", "begun")
    /\ Commit("RUNNING", 25)
    /\ attempt' = attempt + 1
    /\ UNCHANGED signal /\ Quiet

Listen ==
    /\ Go("announced", "running")
    /\ UNCHANGED <<row, signal, commits, been>> /\ Quiet

Compute ==
    /\ Go("running", "computed")
    /\ Commit(status, 70)
    /\ UNCHANGED <<attempt, signal>> /\ Quiet

(* Mutant of Succeed: the commit is missing. *)
SucceedUncommitted ==
    /\ Go("persisting", "succeeded")
    /\ signal' = FALSE
    /\ UNCHANGED <<row, commits, been>> /\ UNCHANGED <<watching, sse, channel, wait, service>>

Succeed ==
    /\ Go("persisting", "succeeded")
    /\ Commit("SUCCESS", 100)
    /\ signal' = FALSE /\ UNCHANGED attempt /\ Quiet

Fail ==
    /\ \/ /\ attempt < MaxRetries
          /\ Go("running", "failed")
          /\ Commit("RETRY", progress)
       \/ /\ attempt >= MaxRetries
          /\ Go("running", "dead")
          /\ Commit("DEAD_LETTERED", 0)
    /\ signal' = FALSE /\ UNCHANGED attempt /\ Quiet

Aborted ==
    /\ signal
    /\ \E from \in {"running", "persisting"} : Go(from, "aborted")
    /\ Commit("CANCELLED", 0)
    /\ signal' = FALSE
    /\ UNCHANGED attempt /\ Quiet

Requeue ==
    /\ Go("backoff", "idle")
    /\ Commit("QUEUED", progress)
    /\ UNCHANGED <<attempt, signal>> /\ Quiet

Run == redriven * (MaxRetries + 1) + attempt   \* tells the attempts apart

(* publish_event, after the commit and the progress message. *)
Notify ==
    /\ \/ Go("completed", "idle") /\ PublishEvent(Completed(Run))
       \/ Go("buried", "idle") /\ PublishEvent(Failed(Run))
    /\ UNCHANGED <<watching, row, signal, commits, been, sse, channel, wait, subscribed, at, held,
                   emails, posts, hooks, errors, general, crashes, dbFails>>

Work ==
    \/ Begin \/ Listen \/ Compute \/ Succeed \/ Fail \/ Aborted \/ Requeue \/ Notify
    \/ Announce("begun", "announced", "RUNNING", 25)
    \/ Announce("computed", "persisting", "RUNNING", 70)
    \/ Announce("succeeded", "completed", "SUCCESS", 100)
    \/ Announce("failed", "backoff", "RETRY", 0)
    \/ Announce("dead", "buried", "DEAD_LETTERED", 0)
    \/ Announce("aborted", "idle", "CANCELLED", 0)

(* cancel_task commits and signals the execution, not the progress channel.  *)
Cancel ==
    /\ status \notin Terminal
    /\ status' = "CANCELLED"
    /\ been' = been \cup {"CANCELLED"}
    /\ signal' = (signal \/ stage \in {"running", "computed", "persisting"})
    /\ UNCHANGED <<watching, progress, attempt, redriven, stage, commits, sse, channel, wait, service>>

(* Mutant of Redrive: current_attempt is not reset. *)
RedriveKeepsAttempt ==
    /\ status = "DEAD_LETTERED" /\ stage = "idle"
    /\ redriven < MaxRedrives
    /\ redriven' = redriven + 1
    /\ status' = "QUEUED" /\ progress' = 0
    /\ been' = been \cup {"QUEUED"}
    /\ UNCHANGED <<watching, attempt, stage, signal, commits, sse, channel, wait, service>>

(* retry_task and replay-all, once the execution that ended it is through.   *)
Redrive ==
    /\ status = "DEAD_LETTERED" /\ stage = "idle"
    /\ redriven < MaxRedrives
    /\ redriven' = redriven + 1
    /\ status' = "QUEUED" /\ attempt' = 0 /\ progress' = 0
    /\ been' = been \cup {"QUEUED"}
    /\ UNCHANGED <<watching, stage, signal, commits, sse, channel, wait, service>>
-----------------------------------------------------------------------------
(* stream_task_progress: the row is read, then the channel subscribed, then  *)
(* the row that was read is sent.  The loop relays messages until a terminal *)
(* one, or until 180 s are over.                                             *)

Worker == <<row, stage, signal, commits, been>>

StreamLoad ==
    /\ watching = "stream" /\ stream = "off"
    /\ stream' = "loaded"
    /\ loaded' = [status |-> status, progress |-> progress, commit |-> commits]
    /\ UNCHANGED <<watching, Worker, channel, shown, wait, service>>

StreamSubscribe ==
    /\ stream = "loaded"
    /\ stream' = "open"
    /\ shown' = loaded
    /\ UNCHANGED <<watching, Worker, channel, loaded, wait, service>>

(* Mutant of StreamRelay: a turn without message repeats the first event. *)
StreamRelayRepeats ==
    /\ stream = "open"
    /\ shown' = IF inbox = <<>> THEN loaded ELSE Head(inbox)
    /\ inbox' = IF inbox = <<>> THEN inbox ELSE Tail(inbox)
    /\ stream' = IF shown'.status \in Terminal THEN "closed" ELSE "open"
    /\ UNCHANGED <<watching, Worker, loaded, lost, wait, service>>

StreamRelay ==
    /\ stream = "open" /\ inbox # <<>>
    /\ shown' = Head(inbox)
    /\ inbox' = Tail(inbox)
    /\ stream' = IF Head(inbox).status \in Terminal THEN "closed" ELSE "open"
    /\ UNCHANGED <<watching, Worker, loaded, lost, wait, service>>

(* The task is at rest; an execution that takes longer than the 180 s, or    *)
(* the 60 s of wait, is left out: the follower would only end earlier.       *)
AtRest == stage = "idle" /\ status \in Terminal

StreamTimesOut ==
    /\ stream = "open" /\ inbox = <<>> /\ AtRest
    /\ stream' = "closed"
    /\ UNCHANGED <<watching, Worker, channel, loaded, shown, wait, service>>

(* TaskPromise.wait: a GET every second, until the status is terminal.       *)
WaitStart ==
    /\ watching = "wait" /\ wait = "off"
    /\ wait' = "polling"
    /\ UNCHANGED <<watching, Worker, sse, channel, service>>

(* Mutant of WaitPoll: CANCELLED is missing from the list. *)
WaitPollUncancelled ==
    /\ wait = "polling" /\ status \in {"SUCCESS", "DEAD_LETTERED"}
    /\ wait' = "returned"
    /\ shown' = [status |-> status, progress |-> progress, commit |-> commits]
    /\ UNCHANGED <<watching, Worker, stream, loaded, channel, service>>

WaitPoll ==
    /\ wait = "polling" /\ status \in Terminal
    /\ wait' = "returned"
    /\ shown' = [status |-> status, progress |-> progress, commit |-> commits]
    /\ UNCHANGED <<watching, Worker, stream, loaded, channel, service>>

-----------------------------------------------------------------------------
(* The notification service *)

Sent == <<posts, hooks, errors, general, routed>>
Outside == <<watching, Worker, sse, channel, wait>>

(* Mutant of Subscribe: no second attempt. *)
SubscribeOnce ==
    /\ watching = "service" /\ ~subscribed /\ crashes = 0
    /\ subscribed' = TRUE
    /\ UNCHANGED <<Outside, ready, at, held, emails, Sent, crashes, dbFails>>

(* run_notification_service tries every three seconds. *)
Subscribe ==
    /\ watching = "service" /\ ~subscribed
    /\ subscribed' = TRUE
    /\ UNCHANGED <<Outside, ready, at, held, emails, Sent, crashes, dbFails>>

PublishGeneral ==
    /\ watching = "service" /\ general < MaxGeneral
    /\ general' = general + 1
    /\ PublishEvent(General(general + 1))
    /\ UNCHANGED <<Outside, subscribed, at, held, emails, posts, hooks, errors, crashes, dbFails>>

Deliver(h) ==
    /\ subscribed /\ at[h] = "idle"
    /\ \E e \in ready : ready' = ready \ {e} /\ held' = [held EXCEPT ![h] = e]
    /\ at' = [at EXCEPT ![h] = "email"]
    /\ UNCHANGED <<Outside, subscribed, emails, Sent, crashes, dbFails>>

Acknowledge(h) ==
    /\ at' = [at EXCEPT ![h] = "idle"]
    /\ held' = [held EXCEPT ![h] = NoEvent]

LogEmail(h) ==
    /\ at[h] = "email"
    /\ emails' = [emails EXCEPT ![held[h]] = @ + 1]
    /\ IF Webhook THEN at' = [at EXCEPT ![h] = "post"] /\ UNCHANGED held ELSE Acknowledge(h)
    /\ UNCHANGED <<Outside, ready, subscribed, Sent, crashes, dbFails>>

(* The one POST; its failure only changes what the next row says.            *)
PostWebhook(h) ==
    /\ at[h] = "post"
    /\ posts' = [posts EXCEPT ![held[h]] = @ + 1]
    /\ at' = [at EXCEPT ![h] = "log"]
    /\ UNCHANGED <<Outside, ready, subscribed, held, emails, hooks, errors, general, routed, crashes, dbFails>>

LogWebhook(h) ==
    /\ at[h] = "log"
    /\ hooks' = [hooks EXCEPT ![held[h]] = @ + 1]
    /\ Acknowledge(h)
    /\ UNCHANGED <<Outside, ready, subscribed, emails, posts, errors, general, routed, crashes, dbFails>>

(* Mutant of HandlerRaises: process(requeue=True), and the error is passed on. *)
HandlerRaisesAndRequeues(h) ==
    /\ at[h] \in {"email", "log"}
    /\ crashes + dbFails < MaxFaults /\ dbFails' = dbFails + 1
    /\ ready' = ready \cup {held[h]}
    /\ Acknowledge(h)
    /\ UNCHANGED <<Outside, subscribed, emails, Sent, crashes>>

(* One of the two inserts raises: on_notification_message counts an error    *)
(* and returns, so the message is acknowledged.                              *)
HandlerRaises(h) ==
    /\ at[h] \in {"email", "log"}
    /\ crashes + dbFails < MaxFaults /\ dbFails' = dbFails + 1
    /\ errors' = errors \cup {held[h]}
    /\ Acknowledge(h)
    /\ UNCHANGED <<Outside, ready, subscribed, emails, posts, hooks, general, routed, crashes>>

(* Mutant of ServiceCrashes: messages were acknowledged on receipt. *)
ServiceForgets ==
    /\ subscribed
    /\ crashes + dbFails < MaxFaults /\ crashes' = crashes + 1
    /\ at' = [h \in Handlers |-> "idle"]
    /\ held' = [h \in Handlers |-> NoEvent]
    /\ subscribed' = FALSE
    /\ UNCHANGED <<Outside, ready, emails, Sent, dbFails>>

(* The process dies: the broker keeps what was not acknowledged.             *)
ServiceCrashes ==
    /\ subscribed
    /\ crashes + dbFails < MaxFaults /\ crashes' = crashes + 1
    /\ ready' = ready \cup ({held[h] : h \in Handlers} \ {NoEvent})
    /\ at' = [h \in Handlers |-> "idle"]
    /\ held' = [h \in Handlers |-> NoEvent]
    /\ subscribed' = FALSE
    /\ UNCHANGED <<Outside, emails, Sent, dbFails>>

Serve(h) == Deliver(h) \/ LogEmail(h) \/ PostWebhook(h) \/ LogWebhook(h)

-----------------------------------------------------------------------------
Next ==
    \/ Work \/ Cancel \/ Redrive
    \/ StreamLoad \/ StreamSubscribe \/ StreamRelay \/ StreamTimesOut
    \/ WaitStart \/ WaitPoll
    \/ Subscribe \/ PublishGeneral \/ ServiceCrashes
    \/ \E h \in Handlers : Serve(h) \/ HandlerRaises(h)

Spec == Init /\ [][Next]_vars

(* Executions proceed, loops turn, timers fire, the service is restarted and *)
(* finds the broker again.  Users and faults are under no obligation.        *)
Fairness ==
    /\ WF_vars(Work)
    /\ WF_vars(StreamSubscribe) /\ WF_vars(StreamRelay) /\ WF_vars(StreamTimesOut)
    /\ WF_vars(WaitPoll)
    /\ WF_vars(Subscribe)
    /\ \A h \in Handlers : WF_vars(Serve(h))

FairSpec == Spec /\ Fairness

-----------------------------------------------------------------------------
(* No message runs ahead of its commit: a client is shown only statuses the  *)
(* row has really had, whether it follows the stream or polls.               *)
ShownWasTrue == shown.status \in been

(* What the stream shows never goes back behind an earlier commit of the     *)
(* execution, although its first event is older than the subscription.       *)
StreamForward == [][stream = "open" => shown'.commit >= shown.commit]_vars

(* A client that has subscribed when the execution settles the task is told, *)
(* unless Redis fails at the one message that says so: nobody repeats it.    *)
EndHeard ==
    stream = "open" /\ stage \in {"succeeded", "dead", "aborted"}
        ~> shown.status \in Terminal \/ lost = commits

(* Every stream ends, also when the end of the task was committed before the *)
(* subscription or by cancel_task, which publishes nothing on the channel;   *)
(* and so does wait.                                                         *)
FollowersEnd ==
    /\ stream = "open" ~> stream = "closed"
    /\ wait = "polling" ~> wait = "returned"

(* An event that has reached the notification queue is not forgotten: until  *)
(* it is logged, or counted as an error, it is in the queue or in work.      *)
Accounted == \A e \in routed :
    \/ e \in ready \cup errors \/ emails[e] > 0
    \/ \E h \in Handlers : held[h] = e

(* ... and none waits there for ever, crashes or not.                        *)
QueueDrains == ready # {} ~> ready = {}

(* A user is told twice, or a webhook called twice, only where the service   *)
(* has crashed with the message unacknowledged; a webhook is not called for  *)
(* an event that was not logged, and no call is logged that was not made.    *)
RepeatsNeedCrash == \A e \in Events :
    /\ emails[e] <= 1 + crashes
    /\ hooks[e] <= posts[e] /\ posts[e] <= emails[e]

(* A task that is through, or has failed for good, is notified: its event    *)
(* reaches the service and is logged (docs/architecture/state-machine.md:9). *)
OutcomeNotified == \A n \in Attempts :
    watching = "service" /\ stage \in {"completed", "buried"} /\ Run = n
        ~> emails[Completed(n)] + emails[Failed(n)] > 0
=============================================================================
