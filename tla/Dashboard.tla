----------------------------- MODULE Dashboard -----------------------------
(***************************************************************************)
(* The console the gateway serves (the script of its dashboard page in     *)
(* services/api-gateway/main.py) together with what answers it: the rate   *)
(* limit of the gateway, its proxy_request, the login of the auth service  *)
(* and the endpoints of the task service the page uses.                    *)
(*                                                                         *)
(* The page keeps a list of tasks that every fetchTasks replaces as a      *)
(* whole.  A timer, the poller of a dispatched task and the fast poller of *)
(* a processing run fetch independently of each other, so answers arrive   *)
(* in any order, and what the operator clicks on may be long out of date.  *)
(* A request is sent in one step, with its login, and its second attempt   *)
(* when the token was refused.  The list and the export are answered in    *)
(* that step.  What changes the table is given to a handler of the task    *)
(* service, which looks at the table in a later step and commits in        *)
(* another, on whatever has become of the rows; meanwhile the gateway may  *)
(* lose its connection to the handler and send the request again.  An      *)
(* answer is handled when the page has moved on.  A fetchTasks that a      *)
(* click ends with is one of the timer's, which may start at any moment.   *)
(***************************************************************************)
EXTENDS Naturals, Sequences, FiniteSets, RateLimiter

CONSTANTS
    Tasks,          \* tasks there may be
    Loads,          \* table, mode and token the page may be loaded with, and
                    \* handlers busy clearing the history for somebody else
    Title,          \* the title and type of each
    Order,          \* the order of the list: by priority, the newest first
    Limit,          \* page size of the list (100 in the page)
    Runs,           \* names of processing runs
    None,           \* no task, run or filter
    Forms,          \* the two forms a task is dispatched from: "inline", "modal"
    Demos,          \* tasks the page seeds on request (3 in the page)
    MaxPolls,       \* polls of a processing run (70 in the page)
    MaxAttempts,    \* polls for the result of a task (30 in the page)
    RedisUp,        \* whether the gateway's limiter reaches Redis
    Filters,        \* titles the operator may search for
    Attempts,       \* how often proxy_request sends a request (3)
    Handlers,       \* bound: requests the task service works on at the same time
    MaxInFlight,    \* bound: round trips of the page at the same time
    MaxClicks,      \* bound: what the operator and others do
    Troubles,       \* the faults considered
    MaxFaults,      \* bound: how many of them
    MaxEvents       \* bound: clicks and faults together

Waiting  == {"QUEUED", "PENDING"}
Status   == Waiting \cup {"RUNNING", "RETRY", "SUCCESS", "DEAD_LETTERED", "CANCELLED"}

ASSUME TasksAssumption   == /\ Loads \subseteq [rows  : [Tasks -> Status \cup {"ABSENT", "GONE"}],
                                            mode  : {"auto", "manual"},
                                            token : {"none", "stale"},
                                            busy  : SUBSET Handlers]
                            /\ None \notin Tasks \cup Runs
ASSUME OrderAssumption   == /\ IsFiniteSet(Tasks)
                            /\ Order \in [1 .. Cardinality(Tasks) -> Tasks]
                            /\ \A t \in Tasks : \E i \in DOMAIN Order : Order[i] = t
ASSUME FaultsAssumption  == /\ RedisUp \in BOOLEAN
                            /\ Troubles \subseteq {"refuse", "lose", "resend", "expire", "limiter"}
ASSUME FormsAssumption   == Forms \subseteq {"inline", "modal"}
ASSUME PollingAssumption == MaxPolls \in Nat \ {0} /\ MaxAttempts \in Nat \ {0}
ASSUME BoundsAssumption  == {Limit, Demos, Attempts, MaxInFlight, MaxClicks, MaxFaults, MaxEvents}
                                \subseteq Nat

Card     == [id : Tasks, status : Status]
Fetchers == {"timer", "poll", "fast1", "fast2"}
Clicks   == {"dispatch", "cancel", "retry", "replay", "clear", "start", "mode",
             "seed", "export"}
Calls    == Fetchers \cup Clicks
Makers   == {"dispatch", "seed"}
Writers  == Clicks \ {"export"}
Buttons  == Forms \cup {"replay", "clear", "mode", "export"}
Codes    == {"none", "waiting", "ok", "refused", "lost"}
Nothing  == [code |-> "none", cards |-> <<>>]
Awaiting == [code |-> "waiting", cards |-> <<>>]

\* what a handler is at; "run" is a process_priority_queue in the background
Work == [stage   : {"idle", "asked", "found"},
         call    : Writers \cup {"run"},
         rows    : SUBSET Tasks,    \* rows it is about
         to      : Status \cup {"GONE", "auto", "manual"},
         guard   : BOOLEAN,         \* prevent_duplicates
         queued  : SUBSET Tasks,    \* other rows a run found
         attempt : Nat,             \* attempt of the gateway
         heard   : BOOLEAN,         \* whether the page will get the answer
         open    : BOOLEAN,         \* whether the gateway waits for it
         request : (Writers \cup {"run"}) \X Nat \X Nat,   \* history: which request
         since   : SUBSET Tasks]    \* history: rows that changed since it looked

Idle == [stage |-> "idle", call |-> "run", rows |-> {}, to |-> "QUEUED", guard |-> FALSE,
         queued |-> {}, attempt |-> 0, heard |-> FALSE, open |-> FALSE,
         request |-> <<"run", 0, 0>>, since |-> {}]

Background == [Idle EXCEPT !.stage = "asked"]
Clearing   == [Background EXCEPT !.call = "clear", !.to = "GONE"]

VARIABLES
    rows,       \* tasks.status in the table; "ABSENT", or "GONE" once cleared
    work,       \* what each handler of the task service is at
    job,        \* tasks a run of process_priority_queue still has to execute
    mode,       \* cloudtask:execution_mode
    token,      \* authToken: "good", "stale" (expired), or "none"
    allTasks,   \* the list the page holds
    filter,     \* title searched for, or None
    myMode,     \* currentExecutionMode
    online,     \* whether the page believes the server can be reached
    ans,        \* what each round trip was answered, until it is handled
    arg,        \* the form, task or run a round trip is about
    disabled,   \* buttons that cannot be clicked
    polled,     \* task whose result is polled for
    attempts,   \* polls for it so far
    isProcessingQueue,
    live,       \* processing runs whose interval has not been cleared
    polls,      \* polls of each run
    demos,      \* demo tasks still to be submitted
    told,       \* outcome of a dispatched task the page has announced
    exported,   \* lastExportedCsv
    clicks, faults,
    history,    \* history: statuses each task has had
    made,       \* history: which attempt at which request inserted which row
    dropped     \* history: requests whose connection the gateway lost

limiter == <<hits, expiry>>
table   == <<rows, history, made>>
server  == <<table, work, job, mode, dropped>>
screen  == <<allTasks, online>>
running == <<isProcessingQueue, live, polls>>
result  == <<polled, attempts, told>>
bounds  == <<clicks, faults>>
vars == <<server, limiter, ans, screen, running, result, bounds, token,
          filter, myMode, arg, disabled, demos, exported>>

TypeOK ==
    /\ LimiterTypeOK
    /\ rows \in [Tasks -> Status \cup {"ABSENT", "GONE"}]
    /\ work \in [Handlers -> Work]
    /\ job \subseteq Tasks
    /\ mode \in {"auto", "manual"} /\ myMode \in {"auto", "manual"}
    /\ token \in {"good", "stale", "none"}
    /\ allTasks \in Seq(Card) /\ Len(allTasks) <= Limit + MaxClicks
    /\ filter \in Filters \cup {None}
    /\ \A c \in Calls : ans[c].code \in Codes /\ ans[c].cards \in Seq(Card)
    /\ arg \in [Calls -> Forms \cup Tasks \cup Runs \cup {None}]
    /\ disabled \subseteq Buttons
    /\ polled \in Tasks \cup {None} /\ attempts \in 0 .. MaxAttempts
    /\ live \subseteq Runs /\ polls \in [Runs -> 0 .. MaxPolls]
    /\ {online, isProcessingQueue} \subseteq BOOLEAN
    /\ demos \in 0 .. Demos
    /\ told \in [Tasks -> {"nothing", "finished", "failed"}]
    /\ exported \subseteq Card
    /\ clicks \in 0 .. MaxClicks /\ faults \in 0 .. MaxFaults
    /\ history \in [Tasks -> SUBSET Status]
    /\ made \subseteq [task : Tasks, request : Makers \X Nat \X Nat, attempt : Nat]
    /\ dropped \subseteq Writers \X Nat \X Nat

Init ==
    /\ LimiterInit
    /\ \E load \in Loads :
          /\ rows = load.rows /\ mode = load.mode /\ token = load.token
          /\ work = [h \in Handlers |-> IF h \in load.busy THEN Clearing ELSE Idle]
    /\ job = {} /\ myMode \in {"auto", mode}
    /\ allTasks = <<>> /\ online = TRUE /\ filter = None
    /\ ans = [c \in Calls |-> Nothing]
    /\ arg = [c \in Calls |-> None] /\ disabled = {}
    /\ polled = None /\ attempts = 0 /\ told = [t \in Tasks |-> "nothing"]
    /\ isProcessingQueue = FALSE /\ live = {} /\ polls = [r \in Runs |-> 0]
    /\ demos = 0 /\ exported = {} /\ clicks = 0 /\ faults = 0
    /\ history = [t \in Tasks |-> {rows[t]} \cap Status]
    /\ made = {} /\ dropped = {}

-----------------------------------------------------------------------------
(* What the page shows. *)

Visible(card) == filter = None \/ Title[card.id] = filter

Column(s) == CASE s \in Waiting   -> "queued"
               [] s = "RUNNING"   -> "running"
               [] s = "SUCCESS"   -> "success"
               [] OTHER           -> "dlq"

\* the counter of a column, as text in the page
Counter(col, list) ==
    Cardinality({i \in DOMAIN list : Visible(list[i]) /\ Column(list[i].status) = col})

Shown      == {card \in {allTasks[i] : i \in DOMAIN allTasks} : Visible(card)}
CanCancel  == {card.id : card \in {k \in Shown : k.status \in Waiting \cup {"RUNNING"}}}
CanRetry   == {card.id : card \in {k \in Shown : k.status = "DEAD_LETTERED"}}

-----------------------------------------------------------------------------
(* The endpoints.  heard tells whether the answer gets through to the page. *)

Present == {i \in DOMAIN Order : rows[Order[i]] \in Status}

Nth(S, k) == CHOOSE i \in S : Cardinality({j \in S : j <= i}) = k

Row(t)   == [id |-> t, status |-> rows[t]]
First(n) == [k \in 1 .. n |-> Row(Order[Nth(Present, k)])]

\* every row in the order of the list, and the page of it that is shown
AllRows == First(Cardinality(Present))
Page    == IF Cardinality(Present) < Limit THEN AllRows ELSE First(Limit)

Answer(c, heard, code, cards) ==
    ans' = [ans EXCEPT ![c] = IF heard THEN [code |-> code, cards |-> cards]
                                          ELSE [code |-> "lost", cards |-> <<>>]]

ListTasks(c, heard) == Answer(c, heard, "ok", Page) /\ UNCHANGED server

\* the export is not paged
Export(heard) == Answer("export", heard, "ok", AllRows) /\ UNCHANGED server

Refused(c, heard) == Answer(c, heard, "refused", <<>>) /\ UNCHANGED server

\* uuid4: an id no row has, nor any request at work
Unused == {t \in Tasks : rows[t] = "ABSENT" /\ \A h \in Handlers : t \notin work[h].rows}
Fresh  == CHOOSE t \in Unused : TRUE
Room   == Unused # {}

Spare == CHOOSE h \in Handlers : work[h] = Idle

\* what a request asks to be written
Targets(c) == CASE c = "dispatch" -> Waiting
                [] c = "cancel"   -> {"CANCELLED"}
                [] c = "clear"    -> {"GONE"}
                [] c = "mode"     -> {IF myMode = "manual" THEN "auto" ELSE "manual"}
                [] OTHER          -> {"QUEUED"}

Named(c, a) == CASE c \in Makers              -> {Fresh}
                 [] c \in {"cancel", "retry"} -> {a}
                 [] OTHER                     -> {}

\* a request is known by the click, or the demo task, it comes from
Asked(c, S, s, guard, heard) ==
    [stage |-> "asked", call |-> c, rows |-> S, to |-> s, guard |-> guard, queued |-> {},
     attempt |-> 1, heard |-> heard, open |-> TRUE, request |-> <<c, clicks', demos>>, since |-> {}]

Receive(c, a, heard) ==
    /\ \E h \in Handlers, s \in Targets(c), guard \in BOOLEAN :
          /\ work[h] = Idle /\ h = Spare
          /\ guard => c = "dispatch"
          /\ work' = [work EXCEPT ![h] = Asked(c, Named(c, a), s, guard, heard)]
    /\ ans' = [ans EXCEPT ![c] = IF heard THEN Awaiting ELSE [Awaiting EXCEPT !.code = "lost"]]
    /\ UNCHANGED <<table, job, mode, dropped>>

Serve(c, a, heard) ==
    \/ c \in Fetchers   /\ ListTasks(c, heard)
    \/ c = "export"     /\ Export(heard)
    \/ c \in Writers    /\ Receive(c, a, heard)

-----------------------------------------------------------------------------
(* The handlers: what they look at. *)

Replies(h, code, cards) ==
    ans' = IF work[h].heard THEN [ans EXCEPT ![work[h].call] = [code |-> code, cards |-> cards]]
                            ELSE ans

Returns(h, code) ==
    /\ work' = [work EXCEPT ![h] = Idle]
    /\ Replies(h, code, <<>>) /\ UNCHANGED <<table, job, mode>>

Selects(h, S, others) ==
    /\ work' = [work EXCEPT ![h].stage = "found", ![h].rows = S, ![h].queued = others]
    /\ UNCHANGED <<ans, table, job, mode>>

Finds(h, S) == Selects(h, S, {})

ActiveTwin(t) == \E u \in Tasks : /\ rows[u] \in Waiting \cup {"RUNNING"}
                                  /\ Title[u] = Title[t]

CreateTask(h) ==
    IF work[h].guard /\ \E t \in work[h].rows : ActiveTwin(t)
    THEN Returns(h, "refused") ELSE Finds(h, work[h].rows)

(* Mutant of CancelTask: the status is not looked at. *)
CancelAny(h) == Finds(h, work[h].rows)

CancelTask(h) ==
    IF \E t \in work[h].rows : rows[t] \in {"SUCCESS", "DEAD_LETTERED", "CANCELLED", "GONE"}
    THEN Returns(h, "refused") ELSE Finds(h, work[h].rows)

RetryTask(h) ==
    IF \E t \in work[h].rows : rows[t] # "DEAD_LETTERED"
    THEN Returns(h, "refused") ELSE Finds(h, work[h].rows)

ReplayAll(h) ==
    LET dead == {t \in Tasks : rows[t] = "DEAD_LETTERED"} IN
        IF dead = {} THEN Returns(h, "ok") ELSE Finds(h, dead)

ClearHistory(h) ==
    LET over == {t \in Tasks : rows[t] \in {"SUCCESS", "CANCELLED"}} IN
        IF over = {} THEN Returns(h, "ok") ELSE Finds(h, over)

\* of the PENDING tasks those whose countdown is over, and that wait for no other
Ripe  == SUBSET {t \in Tasks : rows[t] = "PENDING"}
Queue == {t \in Tasks : rows[t] = "QUEUED"}

StartProcessing(h) ==
    \E ready \in Ripe : IF ready \cup Queue = {} THEN Returns(h, "ok") ELSE Finds(h, ready)

ProcessPriorityQueue(h) ==
    \E ready \in Ripe : IF ready \cup Queue = {} THEN Returns(h, "ok")
                                                 ELSE Selects(h, ready, Queue)

\* the count of waiting tasks only decides whether there is a run
SetExecutionMode(h) ==
    /\ mode' = work[h].to
    /\ work' = [work EXCEPT ![h] = IF mode' = "auto" /\ \E t \in Tasks : rows[t] \in Waiting
                                     THEN Background ELSE Idle]
    /\ Replies(h, "ok", <<>>) /\ UNCHANGED <<table, job>>

AtService == UNCHANGED <<limiter, screen, running, result, clicks, token, filter, myMode, arg,
                         disabled, demos, exported>>

Look(h) ==
    /\ work[h].stage = "asked" /\ AtService /\ UNCHANGED <<dropped, faults>>
    /\ \/ work[h].call \in Makers  /\ CreateTask(h)
       \/ work[h].call = "cancel"  /\ CancelTask(h)
       \/ work[h].call = "retry"   /\ RetryTask(h)
       \/ work[h].call = "replay"  /\ ReplayAll(h)
       \/ work[h].call = "clear"   /\ ClearHistory(h)
       \/ work[h].call = "start"   /\ StartProcessing(h)
       \/ work[h].call = "mode"    /\ SetExecutionMode(h)
       \/ work[h].call = "run"     /\ ProcessPriorityQueue(h)

-----------------------------------------------------------------------------
(* The handlers: what they commit, over whatever the rows are by then. *)

\* next is what the handlers are at afterwards, but for what they have missed
Write(new, next) ==
    /\ rows' = new
    /\ history' = [t \in Tasks |-> history[t] \cup ({new[t]} \cap Status)]
    /\ work' = [h \in Handlers |-> [next[h] EXCEPT !.since =
                  @ \cup {t \in next[h].rows : next[h].stage = "found" /\ new[t] # rows[t]}]]

(* Mutant of Made: the answer to a delayed task names the status it would    *)
(* have without the delay.                                                   *)
MadeQueued(w) == [id |-> CHOOSE t \in w.rows : TRUE, status |-> "QUEUED"]

Made(w) == [id |-> CHOOSE t \in w.rows : TRUE, status |-> w.to]

Inserts(w) == IF w.call \in Makers
                THEN {[task |-> t, request |-> w.request, attempt |-> w.attempt] : t \in w.rows}
                ELSE {}

\* an UPDATE that meets no row raises (StaleDataError), a DELETE does not
Vanished(w) == w.call \notin Makers \cup {"clear"} /\ \E t \in w.rows : rows[t] = "GONE"

Commit(h) ==
    LET w == work[h] IN
    /\ w.stage = "found" /\ AtService /\ UNCHANGED <<dropped, faults>>
    /\ \/ Vanished(w) /\ Returns(h, "refused")
       \/ /\ ~Vanished(w)
          /\ Write([t \in Tasks |-> IF t \in w.rows THEN w.to ELSE rows[t]],
                   [work EXCEPT ![h] = IF w.call = "start" THEN Background ELSE Idle])
          /\ made' = made \cup Inserts(w)
          /\ job'  = job \cup w.queued \cup (IF w.call = "run" THEN w.rows ELSE {})
          /\ Replies(h, "ok", IF w.call \in Makers THEN <<Made(w)>> ELSE <<>>)
          /\ UNCHANGED mode

Works(h) == Look(h) \/ Commit(h)

-----------------------------------------------------------------------------
(* proxy_request: a connection to the task service fails or times out, with *)
(* the handler dead, or still at work and unheard from now on.  The request *)
(* is sent again; attempts in between may reach nobody.                     *)

Fault(f) == /\ f \in Troubles /\ faults < MaxFaults /\ clicks + faults < MaxEvents
            /\ faults' = faults + 1

Unheard(w) == [w EXCEPT !.heard = FALSE, !.open = FALSE]

Disconnects(h) ==
    /\ work[h].open /\ Fault("resend") /\ AtService
    /\ dropped' = dropped \cup {work[h].request}
    /\ UNCHANGED <<table, job, mode>>

Resend(h) ==
    LET w     == work[h]
        Again(S, k) == [w EXCEPT !.stage = "asked", !.rows = S, !.attempt = k, !.since = {}]
    IN
    /\ Disconnects(h) /\ UNCHANGED ans
    /\ \E k \in w.attempt + 1 .. Attempts :
          \/ work' = [work EXCEPT ![h] = Again(w.rows, k)]
          \/ \E g \in Handlers :
                /\ work[g] = Idle /\ g = Spare
                /\ w.call \in Makers => Room
                /\ work' = [work EXCEPT
                      ![h] = Unheard(w),
                      ![g] = Again(IF w.call \in Makers THEN {Fresh} ELSE w.rows, k)]

\* after the last attempt the page gets a 503
GivesUp(h) ==
    /\ Disconnects(h) /\ Replies(h, "refused", <<>>)
    /\ \E left \in {Idle, Unheard(work[h])} : work' = [work EXCEPT ![h] = left]

-----------------------------------------------------------------------------
(* Round trips: through the rate limit, with a token, and once more with a  *)
(* fresh token if the first one was not accepted.                           *)

Free(c) == ans[c] = Nothing /\ Cardinality({d \in Calls : ans[d] # Nothing}) < MaxInFlight

Authorised(c) == c \notin {"start", "mode"}     \* endpoints that ask for a token

(* Mutant of Renews: a token that is refused is not renewed. *)
RenewsNone(c) == Authorised(c) /\ token = "none"

\* ensureAuth when there is no token, and again when it was refused; the
\* demo tasks are sent with what there is
Renews(c) == /\ Authorised(c)
             /\ \/ token = "none"
                \/ token = "stale" /\ c # "seed"

\* the login is the last request but one; a refused token has cost one before
Requests(c) == IF ~Renews(c) THEN 1 ELSE IF token = "none" THEN 2 ELSE 3

Passes(n) == RedisUp => Admitted(n)
Counts(n) == IF RedisUp THEN Count(n) ELSE UNCHANGED limiter

LoggedIn(c) == Passes(Requests(c) - 1)

Token(c) == CASE ~Renews(c)                        -> token
              [] Renews(c) /\ LoggedIn(c)          -> "good"
              [] token = "stale" /\ ~Passes(1)     -> "stale"  \* 429, not 401
              [] OTHER                             -> "none"

Send(c, a) ==
    /\ Counts(Requests(c))
    /\ token' = Token(c)
    /\ IF Passes(Requests(c)) /\ (Authorised(c) => token' = "good")
         THEN Serve(c, a, TRUE) ELSE Refused(c, TRUE)
    /\ UNCHANGED faults

(* A service fails (5xx).  A login that fails costs the page its token.     *)
Refuse(c, a) ==
    /\ Fault("refuse") /\ UNCHANGED limiter
    /\ token' \in {token} \cup (IF Renews(c) THEN {"none"} ELSE {})
    /\ Refused(c, TRUE)

(* Mutant of Lose: a request whose answer is lost is sent again. *)
LoseAndResend(c, a) ==
    /\ Fault("lose") /\ UNCHANGED <<token, limiter>>
    /\ IF c = "dispatch" /\ token = "good"
         THEN \E g, h \in Handlers, t, u \in Unused :
                /\ g # h /\ t # u /\ work[g] = Idle /\ work[h] = Idle
                /\ work' = [work EXCEPT ![g] = Asked(c, {t}, "QUEUED", FALSE, FALSE),
                                       ![h] = Asked(c, {u}, "QUEUED", FALSE, TRUE)]
                /\ ans' = [ans EXCEPT ![c] = Awaiting]
                /\ UNCHANGED <<table, job, mode, dropped>>
         ELSE Refused(c, FALSE)

(* The connection of the page fails, before the request is served or after. *)
Lose(c, a) ==
    /\ Fault("lose") /\ UNCHANGED <<token, limiter>>
    /\ \/ Refused(c, FALSE)
       \/ /\ ~Authorised(c) \/ token = "good"
          /\ Serve(c, a, FALSE)

Sends(c, a) == /\ Free(c) /\ arg' = [arg EXCEPT ![c] = a]
               /\ Send(c, a) \/ Refuse(c, a) \/ Lose(c, a)

-----------------------------------------------------------------------------
(* Answers come back to the page. *)

Handled(c) == /\ ans[c].code \notin {"none", "waiting"}
              /\ ans' = [ans EXCEPT ![c] = Nothing]
              /\ arg' = [arg EXCEPT ![c] = None]
              /\ UNCHANGED <<limiter, server, bounds, token, filter>>

Ok(c) == ans[c].code = "ok"

\* the rest of fetchTasks: the list is replaced and shown
Lands(c) == /\ allTasks' = IF Ok(c) THEN ans[c].cards ELSE allTasks
            /\ online' = CASE Ok(c) -> TRUE [] ans[c].code = "lost" -> FALSE [] OTHER -> online

HandleTimer ==
    /\ Handled("timer") /\ Lands("timer")
    /\ UNCHANGED <<running, result, myMode, disabled, demos, exported>>

(* Mutant of Found: the task is taken to be the first one listed. *)
FoundFirst(t, list) == IF list = <<>> THEN {} ELSE {list[1].status}

Found(t, list) == {list[i].status : i \in {j \in DOMAIN list : list[j].id = t /\
                                     \A k \in 1 .. j - 1 : list[k].id # t}}

(* Mutant of ResultOver: the attempts are not limited. *)
ResultOverFound(outcome, n) == outcome # "nothing"

ResultOver(outcome, n) == outcome # "nothing" \/ n >= MaxAttempts

(* pollTaskResult, pollModalTaskResult *)
HandlePoll ==
    LET t       == polled
        outcome == CASE "SUCCESS" \in Found(t, allTasks')       -> "finished"
                     [] "DEAD_LETTERED" \in Found(t, allTasks') -> "failed"
                     [] OTHER                                   -> "nothing"
        over    == ResultOver(outcome, attempts + 1)
    IN  /\ Handled("poll") /\ Lands("poll")
        /\ told'     = IF outcome = "nothing" THEN told ELSE [told EXCEPT ![t] = outcome]
        /\ polled'   = IF over THEN None ELSE t
        /\ attempts' = IF over THEN 0 ELSE attempts + 1
        /\ UNCHANGED <<running, myMode, disabled, demos, exported>>

(* Mutant of RunOver: the polls are not limited. *)
RunOverEmpty(n, list) == Counter("queued", list) = 0 /\ Counter("running", list) = 0

RunOver(n, list) == \/ Counter("queued", list) = 0 /\ Counter("running", list) = 0
                    \/ n >= MaxPolls

(* fastPoll of startPriorityProcessing; a late answer may belong to a run   *)
(* whose interval has been cleared, and releases the flag of the next.      *)
HandleFast(c) ==
    LET r == arg[c]
        n == IF polls[r] < MaxPolls THEN polls[r] + 1 ELSE MaxPolls
    IN  /\ c \in {"fast1", "fast2"} /\ Handled(c) /\ Lands(c)
        /\ polls' = [polls EXCEPT ![r] = n]
        /\ IF RunOver(n, allTasks')
             THEN live' = live \ {r} /\ isProcessingQueue' = FALSE
             ELSE UNCHANGED <<live, isProcessingQueue>>
        /\ UNCHANGED <<result, myMode, disabled, demos, exported>>

\* what handleDispatch and handleModalDispatch do alike
Dispatched ==
    /\ Handled("dispatch")
    /\ allTasks' = IF Ok("dispatch") THEN ans["dispatch"].cards \o allTasks ELSE allTasks
    /\ polled'   = IF Ok("dispatch") THEN ans["dispatch"].cards[1].id ELSE polled
    /\ UNCHANGED <<running, online, attempts, told, myMode, demos, exported>>

HandleDispatch == /\ arg["dispatch"] = "inline" /\ Dispatched
                  /\ disabled' = disabled \ {"inline"}

\* enabled again only when it failed, or when the dialog is opened anew
HandleModalDispatch == /\ arg["dispatch"] = "modal" /\ Dispatched
                       /\ disabled' = IF Ok("dispatch") THEN disabled ELSE disabled \ {"modal"}

HandleCard(c) ==        \* cancelTask, retryTask
    /\ c \in {"cancel", "retry"} /\ Handled(c)
    /\ UNCHANGED <<running, result, screen, myMode, disabled, demos, exported>>

HandleButton(c) ==      \* replayAllDLQ, clearHistory
    /\ c \in {"replay", "clear"} /\ Handled(c)
    /\ disabled' = disabled \ {c}
    /\ UNCHANGED <<running, result, screen, myMode, demos, exported>>

HandleMode ==
    /\ Handled("mode")
    /\ myMode' = IF ~Ok("mode") THEN myMode
                 ELSE IF myMode = "manual" THEN "auto" ELSE "manual"
    /\ disabled' = disabled \ {"mode"}
    /\ UNCHANGED <<running, result, screen, demos, exported>>

(* The export of the server, or the list of the page in its place. *)
HandleExport ==
    LET cards == IF Ok("export") THEN ans["export"].cards ELSE allTasks IN
        /\ Handled("export")
        /\ exported' = {cards[i] : i \in DOMAIN cards}
        /\ disabled' = disabled \ {"export"}
        /\ UNCHANGED <<running, result, screen, myMode, demos>>

(* startPriorityProcessing goes on to poll whatever it was answered. *)
HandleStart ==
    /\ Handled("start")
    /\ IF ans["start"].code = "lost"
         THEN isProcessingQueue' = FALSE /\ UNCHANGED <<live, polls>>
         ELSE live' = live \cup {arg["start"]} /\ UNCHANGED <<isProcessingQueue, polls>>
    /\ UNCHANGED <<result, screen, myMode, disabled, demos, exported>>

HandleSeed ==           \* the next demo task, whatever became of this one
    /\ Handled("seed")
    /\ demos' = demos - 1
    /\ UNCHANGED <<running, result, screen, myMode, disabled, exported>>

-----------------------------------------------------------------------------
(* What the operator and the timers do. *)

Clicked == /\ clicks < MaxClicks /\ clicks + faults < MaxEvents
           /\ clicks' = clicks + 1

Still == UNCHANGED <<screen, result, filter, myMode, exported>>

TimerFires == Sends("timer", None) /\ Still /\ UNCHANGED <<running, clicks, disabled, demos>>

PollFires == /\ polled # None /\ Sends("poll", None)
             /\ Still /\ UNCHANGED <<running, clicks, disabled, demos>>

FastPollFires(c) == /\ c \in {"fast1", "fast2"} /\ \E r \in live : Sends(c, r)
                    /\ Still /\ UNCHANGED <<running, clicks, disabled, demos>>

Dispatch(f) ==          \* one result at a time is polled for
    /\ Clicked /\ f \notin disabled /\ Room /\ polled = None
    /\ Sends("dispatch", f) /\ disabled' = disabled \cup {f}
    /\ Still /\ UNCHANGED <<running, demos>>

OpenNewTaskModal ==
    /\ "modal" \in disabled /\ disabled' = disabled \ {"modal"}
    /\ Still /\ UNCHANGED <<limiter, server, ans, arg, running, bounds, token, demos>>

ClickCard(c) ==
    /\ Clicked
    /\ \/ c = "cancel" /\ \E t \in CanCancel : Sends(c, t)
       \/ c = "retry"  /\ \E t \in CanRetry  : Sends(c, t)
    /\ Still /\ UNCHANGED <<running, disabled, demos>>

ClickButton(c) ==
    /\ Clicked /\ c \in {"replay", "clear", "mode", "export"} \ disabled
    /\ c = "clear" => Counter("success", allTasks) > 0
    /\ Sends(c, None) /\ disabled' = disabled \cup {c}
    /\ Still /\ UNCHANGED <<running, demos>>

\* the guard of the page is the flag, and the counter of what it shows
StartPriorityProcessing ==
    /\ Clicked /\ ~isProcessingQueue /\ Counter("queued", allTasks) > 0
    /\ \E r \in Runs : /\ polls[r] = 0 /\ r \notin live /\ \A c \in Calls : arg[c] # r
                       /\ Sends("start", r)
    /\ isProcessingQueue' = TRUE
    /\ Still /\ UNCHANGED <<live, polls, disabled, demos>>

SeedDemoTasks ==
    /\ Clicked /\ ~isProcessingQueue /\ Counter("queued", allTasks) = 0
    /\ demos = 0 /\ demos' = Demos
    /\ Still /\ UNCHANGED <<limiter, server, ans, arg, running, faults, token, disabled>>

SubmitNextDemo ==
    /\ demos > 0 /\ Room /\ UNCHANGED <<running, clicks, disabled, demos>>
    /\ Sends("seed", None) /\ Still

SetFilter(f) ==
    /\ Clicked /\ f # filter /\ filter' = f
    /\ UNCHANGED <<limiter, server, ans, screen, running, result, faults, token, myMode,
                   arg, disabled, demos, exported>>

Operator ==
    \/ \E f \in Forms : Dispatch(f)
    \/ OpenNewTaskModal
    \/ \E c \in Clicks : ClickCard(c) \/ ClickButton(c)
    \/ StartPriorityProcessing     \* also by itself, after demo tasks
    \/ SeedDemoTasks
    \/ \E f \in Filters \cup {None} : SetFilter(f)

-----------------------------------------------------------------------------
(* The rest of the system. *)

Elsewhere == UNCHANGED <<ans, screen, running, result, filter, myMode, arg, disabled,
                         demos, exported>>

OthersSwitchMode ==
    /\ Clicked /\ mode' \in {"auto", "manual"} \ {mode}
    /\ Elsewhere /\ UNCHANGED <<limiter, table, work, job, dropped, faults, token>>

TokenExpires ==
    /\ token = "good" /\ token' = "stale"
    /\ Fault("expire")
    /\ Elsewhere /\ UNCHANGED <<limiter, server, clicks>>

\* met by a request of another page at the same address
LimiterFails == /\ RedisUp /\ CountOnly /\ Fault("limiter")
                /\ Elsewhere /\ UNCHANGED <<server, clicks, token>>

NextWindow == WindowEnds /\ Elsewhere /\ UNCHANGED <<server, bounds, token>>

Moves(t, s) == /\ Write([rows EXCEPT ![t] = s], work) /\ UNCHANGED made
               /\ Elsewhere /\ UNCHANGED <<limiter, mode, dropped, bounds, token>>

\* a poller or a message in auto mode
Starts(t) == /\ mode = "auto" /\ rows[t] = "QUEUED"
             /\ Moves(t, "RUNNING") /\ UNCHANGED job

\* the priority run; execute_task skips what is cancelled or done
JobTakes(t) == /\ t \in job /\ job' = job \ {t}
               /\ Moves(t, IF rows[t] = "QUEUED" THEN "RUNNING" ELSE rows[t])

\* (what the executor writes over a cancellation is TaskExecution's subject)
Ends(t) == /\ rows[t] = "RUNNING" /\ \E s \in {"SUCCESS", "DEAD_LETTERED"} : Moves(t, s)
           /\ UNCHANGED job

Ready(t) == rows[t] = "PENDING" /\ Moves(t, "QUEUED") /\ UNCHANGED job

Worker(t) == Starts(t) \/ JobTakes(t) \/ Ends(t)

Handle(c) ==
    \/ c = "timer"    /\ HandleTimer
    \/ c = "poll"     /\ HandlePoll
    \/ HandleFast(c)
    \/ c = "dispatch" /\ (HandleDispatch \/ HandleModalDispatch)
    \/ HandleCard(c)
    \/ HandleButton(c)
    \/ c = "mode"     /\ HandleMode
    \/ c = "export"   /\ HandleExport
    \/ c = "start"    /\ HandleStart
    \/ c = "seed"     /\ HandleSeed

Fires(c) ==
    \/ c = "timer" /\ TimerFires
    \/ c = "poll"  /\ PollFires
    \/ FastPollFires(c)
    \/ c = "seed"  /\ SubmitNextDemo

Proceeds(c) == Fires(c) \/ Handle(c)

Next ==
    \/ Operator
    \/ \E c \in Calls : Proceeds(c)
    \/ \E h \in Handlers : Works(h) \/ Resend(h) \/ GivesUp(h)
    \/ \E t \in Tasks : Worker(t) \/ Ready(t)
    \/ OthersSwitchMode \/ TokenExpires \/ LimiterFails \/ NextWindow

(* Browser and servers go on; the operator, and faults, need not.  Of the   *)
(* clicks, the handlers and the executions it is enough that one goes on:   *)
(* unlike the fetches they come to an end.                                  *)
Fairness ==
    /\ \A c \in Fetchers : WF_vars(Proceeds(c))
    /\ WF_vars(\E c \in Clicks : Proceeds(c))
    /\ WF_vars(\E h \in Handlers : Works(h))
    /\ WF_vars(\E t \in Tasks : Worker(t))
    /\ WF_vars(NextWindow)

Spec     == Init /\ [][Next]_vars
FairSpec == Spec /\ Fairness

-----------------------------------------------------------------------------
(* Nothing is made up: whatever a card or the exported file says of a task  *)
(* the task has been, although answers overtake each other, cards are added *)
(* before the server lists them and an export may come from the page.       *)
ShowsWhatWas ==
    \A card \in {allTasks[i] : i \in DOMAIN allTasks} \cup exported :
        card.status \in history[card.id]

(* However a dispatch fares - its token refused and renewed, its answer    *)
(* lost, the request limited - the page sends it once: every attempt of the *)
(* gateway makes at most one task, and a click makes several only when the  *)
(* gateway has lost a connection over that very request, which carries no   *)
(* idempotency key.                                                         *)
OneTaskPerClick == \A m, n \in made : m # n /\ m.request = n.request =>
    m.attempt # n.attempt /\ m.request \in dropped

(* The outcome the page announces for a dispatched task is that task's.     *)
ToldTruth == \A t \in Tasks :
    /\ told[t] = "finished" => "SUCCESS" \in history[t]
    /\ told[t] = "failed"   => "DEAD_LETTERED" \in history[t]

(* Requests made on an outdated page undo nothing, except in the gap        *)
(* between look and commit: a task that has succeeded or was cancelled      *)
(* stays so until the history is cleared, and nothing else is cleared,      *)
(* unless a handler commits that looked at the task before it came to that. *)
FinishedStays == [][\A t \in Tasks :
    LET over    == {"SUCCESS", "CANCELLED"}
        undone  == rows[t] \in over /\ rows'[t] \notin {rows[t], "GONE"}
        deleted == rows[t] \notin over \cup {"GONE"} /\ rows'[t] = "GONE"
    IN  undone \/ deleted =>
            \E h \in Handlers : t \in work[h].since /\ work'[h].stage # "found"]_<<rows, work>>

(* Once nothing changes any more the page shows what the table holds, and   *)
(* keeps showing it: no late answer, expired token, missing account, failed *)
(* request or exhausted rate limit leaves it outdated.                      *)
Converges == <>[](allTasks = Page /\ online)

(* A processing run ends, also when tasks stay queued or cannot be seen:    *)
(* the clicks being bounded there is a last one, and it does not go on.     *)
ProcessingEnds == <>[]~isProcessingQueue

=============================================================================
