----------------------------- MODULE Submission -----------------------------
(***************************************************************************)
(* How a request becomes a row: create_task and create_batch_tasks         *)
(* (services/task-service/routes.py) behind proxy_request of the gateway,  *)
(* which sends a request up to three times when the connection fails while *)
(* an earlier attempt may still be at work.                                *)
(*                                                                         *)
(* Two tiers keep a request from creating a second task: the idempotency   *)
(* key, looked up in Redis (GET, later SET) and unique in the table, and   *)
(* the search for an active task with the same user, title and type.  Each *)
(* query, commit and Redis command is an action of its own.                *)
(***************************************************************************)
EXTENDS Naturals, Sequences, FiniteSets

CONSTANTS
    Calls,      \* requests clients make; a repeated one is a call of its own
    Proxied,    \* those the gateway forwards; it serves the others itself
    Attempts,   \* how often it sends a forwarded one (3 in the code)
    Items,      \* what a call asks for: a sequence of requested tasks
    Batches,    \* calls of /tasks/batch; the others create one task
    AutoMode,   \* whether the execution mode is "auto"
    Keys,       \* idempotency keys
    Sigs,       \* user, title and type of a task
    NoKey,      \* an item without idempotency key
    NoRow,      \* no value under a key in Redis
    MaxFaults,  \* bound: faults of connections, processes, Redis and database
    MaxMoves,   \* bound: steps in the lives of the tasks
    MaxCalls    \* bound: calls made in one behaviour

Handlers == Calls \X (1 .. Attempts)
Rows     == UNION {{<<h[1], h[2], i>> : i \in DOMAIN Items[h[1]]} : h \in Handlers}
Item     == [key : Keys \cup {NoKey}, sig : Sigs, guard : BOOLEAN, gated : BOOLEAN]

ASSUME AttemptsAssumption == Attempts \in Nat \ {0} /\ Proxied \subseteq Calls
ASSUME ItemsAssumption    == Items \in [Calls -> Seq(Item) \ {<<>>}]
ASSUME BatchesAssumption  == /\ Batches \subseteq Calls
                             /\ \A c \in Calls \ Batches : Len(Items[c]) = 1
ASSUME AutoAssumption     == AutoMode \in BOOLEAN
ASSUME NoneOutside        == NoKey \notin Keys /\ NoRow \notin Rows
ASSUME BoundsAssumption   == MaxFaults \in Nat /\ MaxMoves \in Nat /\ MaxCalls \in Nat

Ask(r) == Items[r[1]][r[3]]     \* CreateTaskRequest, TaskRow

Active == {"PENDING", "QUEUED", "RUNNING"}
Status == Active \cup {"ABSENT", "RETRY", "ENDED", "GONE"}
Codes  == {"ok", "conflict", "error", "unavailable"}
Answer == [code : Codes \cup {"none"}, rows : SUBSET Rows]
Unanswered == [code |-> "none", rows |-> {}]

VARIABLES
    status,     \* tasks.status; "ABSENT" before the insert, "GONE" once cleared
    stored,     \* idempotency:<key> in Redis
    sent,       \* rows announced to the broker, or executed directly
    pc,         \* where the handler of an attempt stands
    item,       \* the item it is at
    cached,     \* cached_id
    made,       \* created_tasks
    reply,      \* what it has answered to the gateway
    attempt,    \* attempts made of a call
    answer,     \* what its client has got
    faults,     \* faults so far
    moves,      \* steps of tasks so far
    during,     \* history: rows that became active since a handler has looked
                \* for duplicates, until it commits
    before,     \* history: rows that clients had got when the call was made
    shaken      \* history: keys Redis lost, or one of whose tasks was cleared

handler == <<pc, item, cached, made, reply>>
client  == <<attempt, answer, before>>
vars    == <<status, stored, sent, handler, client, faults, moves, during, shaken>>

Stages == {"idle", "key", "row", "dup", "insert", "store", "commit", "publish",
           "done", "dead"}

TypeOK ==
    /\ status  \in [Rows -> Status]
    /\ stored  \in [Keys -> Rows \cup {NoRow}]
    /\ sent    \in SUBSET Rows
    /\ pc      \in [Handlers -> Stages]
    /\ item    \in [Handlers -> Nat]
    /\ \A h \in Handlers : item[h] \in DOMAIN Items[h[1]]
    /\ cached  \in [Handlers -> Rows \cup {NoRow}]
    /\ made    \in [Handlers -> SUBSET Rows]
    /\ reply   \in [Handlers -> Answer]
    /\ attempt \in [Calls -> 0 .. Attempts]
    /\ answer  \in [Calls -> Answer]
    /\ faults  \in 0 .. MaxFaults
    /\ moves   \in 0 .. MaxMoves
    /\ during  \in [Handlers -> SUBSET Rows]
    /\ before  \in [Calls -> SUBSET Rows]
    /\ shaken  \in SUBSET Keys

Init ==
    /\ status  = [r \in Rows |-> "ABSENT"]
    /\ stored  = [k \in Keys |-> NoRow]
    /\ sent    = {}
    /\ pc      = [h \in Handlers |-> "idle"]
    /\ item    = [h \in Handlers |-> 1]
    /\ cached  = [h \in Handlers |-> NoRow]
    /\ made    = [h \in Handlers |-> {}]
    /\ reply   = [h \in Handlers |-> Unanswered]
    /\ attempt = [c \in Calls |-> 0]
    /\ answer  = [c \in Calls |-> Unanswered]
    /\ faults  = 0
    /\ moves   = 0
    /\ during  = [h \in Handlers |-> {}]
    /\ before  = [c \in Calls |-> {}]
    /\ shaken  = {}

New(h)     == <<h[1], h[2], item[h]>>
Wanted(h)  == Items[h[1]][item[h]]
Batch(h)   == h[1] \in Batches
Fresh(h)   == {r \in made[h] : r[1] = h[1] /\ r[2] = h[2]}   \* db.add()ed
Exists(r)  == status[r] \notin {"ABSENT", "GONE"}
Working(h) == pc[h] \notin {"idle", "done", "dead"}
Decided(h) == \/ pc[h] = "insert"      \* it has looked for duplicates, and not committed
              \/ Batch(h) /\ pc[h] \in {"store", "commit"}
              \/ item[h] > 1 /\ pc[h] \in {"key", "row", "dup"}
Sends(c)   == IF c \in Proxied THEN Attempts ELSE 1
Open(c)    == attempt[c] # 0 /\ answer[c] = Unanswered

Fault     == faults < MaxFaults /\ faults' = faults + 1
Sound     == UNCHANGED faults

-----------------------------------------------------------------------------
(* The client and proxy_request *)

Call(c) ==
    /\ attempt[c] = 0
    /\ Cardinality({d \in Calls : attempt[d] # 0}) < MaxCalls
    /\ attempt' = [attempt EXCEPT ![c] = 1]
    /\ pc' = [pc EXCEPT ![<<c, 1>>] = "key"]
    /\ before' = [before EXCEPT ![c] = UNION {answer[d].rows : d \in Calls}]
    /\ UNCHANGED <<status, stored, sent, item, cached, made, reply, answer, faults, during, shaken, moves>>

Receive(c) ==
    /\ Open(c)
    /\ reply[<<c, attempt[c]>>] # Unanswered
    /\ answer' = [answer EXCEPT ![c] = reply[<<c, attempt[c]>>]]
    /\ UNCHANGED <<status, stored, sent, handler, attempt, before, faults, during, shaken, moves>>

(* Mutant of ConnectionFails: the loop ends without the 503. *)
ConnectionFailsSilently(c) ==
    /\ Open(c) /\ attempt[c] < Sends(c)
    /\ IF pc[<<c, attempt[c]>>] = "dead" THEN Sound ELSE Fault
    /\ attempt' = [attempt EXCEPT ![c] = @ + 1]
    /\ pc' = [pc EXCEPT ![<<c, attempt[c] + 1>>] = "key"]
    /\ UNCHANGED <<status, stored, sent, item, cached, made, reply, answer, before, during, shaken, moves>>

(* httpx.RequestError: the handler may be at work, finished or dead, or have *)
(* received nothing.  After the last attempt there is a 503.                 *)
ConnectionFails(c) ==
    LET h == <<c, attempt[c]>>
        Untouched == pc[h] = "key" /\ item[h] = 1
    IN
    /\ Open(c)
    /\ IF pc[h] = "dead" THEN Sound ELSE Fault
    /\ \E left \in {pc} \cup (IF Untouched THEN {[pc EXCEPT ![h] = "done"]} ELSE {}) :
        \/ /\ attempt[c] < Sends(c)
           /\ attempt' = [attempt EXCEPT ![c] = @ + 1]
           /\ pc' = [left EXCEPT ![<<c, attempt[c] + 1>>] = "key"]
           /\ UNCHANGED answer
        \/ /\ attempt[c] = Sends(c)
           /\ answer' = [answer EXCEPT ![c] = [code |-> "unavailable", rows |-> {}]]
           /\ pc' = left
           /\ UNCHANGED attempt
    /\ UNCHANGED <<status, stored, sent, item, cached, made, reply, before, during, shaken, moves>>

-----------------------------------------------------------------------------
(* The handler of one attempt *)

(* The handler returns, or raises; an abandoned connection hears nothing. *)
Respond(h, code, rows) ==
    /\ reply' = IF attempt[h[1]] = h[2]
                THEN [reply EXCEPT ![h] = [code |-> code, rows |-> rows]] ELSE reply
    /\ pc' = [pc EXCEPT ![h] = "done"]
    /\ item' = [item EXCEPT ![h] = 1]
    /\ cached' = [cached EXCEPT ![h] = NoRow]
    /\ made' = [made EXCEPT ![h] = {}]

Goto(h, stage) == pc' = [pc EXCEPT ![h] = stage] /\ UNCHANGED <<item, reply>>

(* Mutant of NextItem: one turn too many. *)
NextItemPastEnd(h) ==
    /\ UNCHANGED reply
    /\ item' = [item EXCEPT ![h] = @ + 1]
    /\ pc' = [pc EXCEPT ![h] = IF item[h] <= Len(Items[h[1]]) THEN "key" ELSE "commit"]

(* The next turn of the loop over the batch, or the end of the loop. *)
NextItem(h) ==
    /\ UNCHANGED reply
    /\ IF item[h] < Len(Items[h[1]])
       THEN /\ item' = [item EXCEPT ![h] = @ + 1]
            /\ pc' = [pc EXCEPT ![h] = "key"]
       ELSE /\ pc' = [pc EXCEPT ![h] = "commit"]
            /\ UNCHANGED item

(* check_idempotency: a failing GET counts as no key. *)
LookUp(h) ==
    LET k == Wanted(h).key IN
    /\ pc[h] = "key"
    /\ \/ /\ k = NoKey
          /\ cached' = [cached EXCEPT ![h] = NoRow] /\ Sound /\ UNCHANGED shaken
       \/ /\ k # NoKey
          /\ cached' = [cached EXCEPT ![h] = stored[k]] /\ Sound /\ UNCHANGED shaken
       \/ /\ k # NoKey /\ stored[k] # NoRow
          /\ cached' = [cached EXCEPT ![h] = NoRow] /\ Fault /\ shaken' = shaken \cup {k}
    /\ Goto(h, IF cached'[h] = NoRow THEN "dup" ELSE "row")
    /\ UNCHANGED <<status, stored, sent, made, client, during, moves>>

(* Mutant of Recall: the key counts only while its task is active. *)
RecallActive(h) ==
    /\ pc[h] = "row"
    /\ IF status[cached[h]] \in Active /\ ~Batch(h)
       THEN Respond(h, "ok", {cached[h]})
       ELSE Goto(h, "dup") /\ UNCHANGED <<cached, made>>
    /\ UNCHANGED <<status, stored, sent, client, faults, during, shaken, moves>>

(* The row the key names is the answer; if there is none the request goes on.*)
Recall(h) ==
    /\ pc[h] = "row"
    /\ \/ /\ ~Exists(cached[h])
          /\ Goto(h, "dup") /\ UNCHANGED <<cached, made>>
       \/ /\ Exists(cached[h]) /\ Batch(h)
          /\ made' = [made EXCEPT ![h] = @ \cup {cached[h]}]
          /\ NextItem(h) /\ UNCHANGED cached
       \/ /\ Exists(cached[h]) /\ ~Batch(h)
          /\ Respond(h, "ok", {cached[h]})
    /\ UNCHANGED <<status, stored, sent, client, faults, during, shaken, moves>>

(* Mutant of Clash: RUNNING is missing from the list. *)
ClashWaiting(h) == \E r \in Rows : status[r] \in {"PENDING", "QUEUED"} /\ Ask(r).sig = Wanted(h).sig

(* Only committed rows are found, so a batch also compares with its own.     *)
Clash(h) ==
    \/ \E r \in Rows : status[r] \in Active /\ Ask(r).sig = Wanted(h).sig
    \/ Batch(h) /\ \E r \in made[h] : Ask(r).sig = Wanted(h).sig

CheckDuplicate(h) ==
    LET refused == Wanted(h).guard /\ Clash(h) IN
    /\ pc[h] = "dup"
    /\ \/ ~refused /\ Goto(h, "insert") /\ UNCHANGED <<cached, made>>
       \/ refused /\ Batch(h) /\ NextItem(h) /\ UNCHANGED <<cached, made>>
       \/ refused /\ ~Batch(h) /\ Respond(h, "conflict", {})
    /\ UNCHANGED <<status, stored, sent, client, faults, during, shaken, moves>>

-----------------------------------------------------------------------------
(* Inserts.  The column idempotency_key is unique: a commit that would       *)
(* break that raises, and the request ends in a 500.                         *)

Initial(r) == IF Ask(r).gated THEN "PENDING" ELSE "QUEUED"

(* Mutant of Unique: the index covers active tasks only. *)
UniqueActive(new) ==
    \A r \in new : Ask(r).key # NoKey =>
        \A s \in Rows \ {r} : status[s] \in Active => Ask(s).key # Ask(r).key

Unique(new) ==
    \A r \in new : Ask(r).key # NoKey =>
        \A s \in Rows \ {r} : (Exists(s) \/ s \in new) => Ask(s).key # Ask(r).key

Insert(h, new, stage) ==
    /\ Unique(new)
    /\ status' = [r \in Rows |-> IF r \in new THEN Initial(r) ELSE status[r]]
    /\ during' = [g \in Handlers |-> IF g = h THEN {}
                                     ELSE IF Decided(g) THEN during[g] \cup new ELSE during[g]]
    /\ Goto(h, stage)
    /\ Sound
    /\ UNCHANGED cached

Rollback(h, new) ==
    /\ IF Unique(new) THEN Fault ELSE Sound
    /\ Respond(h, "error", {})
    /\ UNCHANGED <<status, during>>

AddOne(h) ==
    /\ pc[h] = "insert" /\ ~Batch(h)
    /\ \/ /\ Insert(h, {New(h)}, IF Wanted(h).key = NoKey THEN "publish" ELSE "store")
          /\ made' = [made EXCEPT ![h] = {New(h)}]
       \/ Rollback(h, {New(h)})
    /\ UNCHANGED <<stored, sent, client, shaken, moves>>

(* Mutant of AddToBatch: each task is published as soon as it is added. *)
AddToBatchAndPublish(h) ==
    /\ pc[h] = "insert" /\ Batch(h)
    /\ made' = [made EXCEPT ![h] = @ \cup {New(h)}]
    /\ sent' = sent \cup {New(h)}
    /\ IF Wanted(h).key = NoKey THEN NextItem(h) ELSE Goto(h, "store")
    /\ UNCHANGED <<status, stored, cached, client, faults, during, shaken, moves>>

AddToBatch(h) ==
    /\ pc[h] = "insert" /\ Batch(h)
    /\ made' = [made EXCEPT ![h] = @ \cup {New(h)}]
    /\ IF Wanted(h).key = NoKey THEN NextItem(h) ELSE Goto(h, "store")
    /\ UNCHANGED <<status, stored, sent, cached, client, faults, during, shaken, moves>>

(* store_idempotency: after the commit of a single task, before the commit   *)
(* of a batch.  A failing SET is logged only.                                *)
StoreKey(h) ==
    LET k == Wanted(h).key IN
    /\ pc[h] = "store"
    /\ \/ stored' = [stored EXCEPT ![k] = New(h)] /\ Sound /\ UNCHANGED shaken
       \/ UNCHANGED stored /\ Fault /\ shaken' = shaken \cup {k}
    /\ IF Batch(h) THEN NextItem(h) ELSE Goto(h, "publish")
    /\ UNCHANGED <<status, sent, cached, made, client, during, moves>>

CommitBatch(h) ==
    /\ pc[h] = "commit"
    /\ \/ Insert(h, Fresh(h), "publish") /\ UNCHANGED made
       \/ Rollback(h, Fresh(h))
    /\ UNCHANGED <<stored, sent, client, shaken, moves>>

(* In automatic mode every QUEUED one is published, or executed here when    *)
(* the broker fails; in manual mode none.  Then the answer is read back:     *)
(* scalar_one() raises when the row is gone again.                           *)
Publish(h) ==
    LET found == {r \in made[h] : Exists(r)} IN
    /\ pc[h] = "publish"
    /\ sent' = IF AutoMode THEN sent \cup {r \in Fresh(h) : Initial(r) = "QUEUED"} ELSE sent
    /\ Respond(h, IF Batch(h) \/ found # {} THEN "ok" ELSE "error", found)
    /\ UNCHANGED <<status, stored, client, faults, during, shaken, moves>>

HandlerStep(h) ==
    \/ LookUp(h) \/ Recall(h) \/ CheckDuplicate(h) \/ AddOne(h) \/ AddToBatch(h)
    \/ StoreKey(h) \/ CommitBatch(h) \/ Publish(h)

-----------------------------------------------------------------------------
(* The rest of the system: the life of a task, which TaskLife sums up for    *)
(* TaskExecution, TaskRelease and clear_history, the expiry of a key after a *)
(* day, the death of a process.                                              *)

Life == INSTANCE TaskLife WITH Tasks <- Rows

(* What this module tells apart of a status. *)
Abridged(s) == IF s \in {"SUCCESS", "CANCELLED", "DEAD_LETTERED"} THEN "ENDED" ELSE s

Moves == {<<Abridged(m[1]), Abridged(m[2])>> : m \in Life!Moves \ Life!Inserted}

Live(r) == \E to \in Status :
    /\ to # status[r] /\ <<status[r], to>> \in Moves
    /\ moves < MaxMoves /\ moves' = moves + 1
    /\ status' = [status EXCEPT ![r] = to]
    /\ during' = IF status[r] \notin Active /\ to \in Active
                 THEN [g \in Handlers |-> IF Decided(g) THEN during[g] \cup {r} ELSE during[g]]
                 ELSE during
    /\ shaken' = IF to = "GONE" /\ Ask(r).key # NoKey THEN shaken \cup {Ask(r).key} ELSE shaken
    /\ UNCHANGED <<stored, sent, handler, client, faults>>

KeyExpires(k) ==
    /\ stored[k] # NoRow
    /\ stored' = [stored EXCEPT ![k] = NoRow]
    /\ shaken' = shaken \cup {k}
    /\ Fault
    /\ UNCHANGED <<status, sent, handler, client, during, moves>>

Dies(h) ==
    /\ Working(h)
    /\ pc' = [pc EXCEPT ![h] = "dead"]
    /\ Fault
    /\ UNCHANGED <<status, stored, sent, item, cached, made, reply, client, during, shaken, moves>>

Next ==
    \/ \E c \in Calls : Call(c) \/ Receive(c) \/ ConnectionFails(c)
    \/ \E h \in Handlers : HandlerStep(h) \/ Dies(h)
    \/ \E r \in Rows : Live(r)
    \/ \E k \in Keys : KeyExpires(k)

Spec == Init /\ [][Next]_vars

NoticesDeath(c) == Open(c) /\ pc[<<c, attempt[c]>>] = "dead" /\ ConnectionFails(c)

(* Coroutines that are ready run, an answer that was sent arrives, and a     *)
(* connection whose other end has died is noticed.  No handler needs to be   *)
(* named: each has only so many steps to make.                               *)
Fairness ==
    /\ WF_vars(\E h \in Handlers : HandlerStep(h))
    /\ WF_vars(\E c \in Calls : Receive(c) \/ NoticesDeath(c))

FairSpec == Spec /\ Fairness
-----------------------------------------------------------------------------
(* A key belongs to at most one task that exists, however its requests       *)
(* interleave, are repeated, or arrive in one batch.                         *)
OneRowPerKey ==
    \A r, s \in Rows : Exists(r) /\ Exists(s) /\ Ask(r).key = Ask(s).key /\ Ask(r).key # NoKey => r = s

(* What a client is told of, and what is announced to the workers, has been  *)
(* committed: a key that a batch stored and then did not commit names no     *)
(* task to anybody.                                                          *)
NamedIsCommitted ==
    /\ \A c \in Calls : \A r \in answer[c].rows : status[r] # "ABSENT"
    /\ \A r \in sent : status[r] # "ABSENT"

(* Two clients whose requests carry one key are given one task, unless it    *)
(* has been cleared for one of them.                                         *)
SameAnswer ==
    \A c, d \in Calls \ Batches :
        Items[c][1].key = Items[d][1].key /\ Items[c][1].key # NoKey =>
            \A r \in answer[c].rows, s \in answer[d].rows :
                r = s \/ "GONE" \in {status[r], status[s]}

(* A task that is refused duplicates stands beside an active one of the same *)
(* user, title and type only if that one became active after the request had *)
(* looked for it (committed by another request, resumed or redriven behind   *)
(* the check), or belongs to the same batch.                                 *)
TwinsOverlap == [][\A h \in Handlers : \A r \in Rows, s \in Rows :
    ( /\ r[1] = h[1] /\ r[2] = h[2] /\ status[r] = "ABSENT" /\ status'[r] # "ABSENT"
      /\ Ask(r).guard
      /\ status'[s] \in Active /\ Ask(s).sig = Ask(r).sig )
    => s \in during[h] \/ (s[1] = h[1] /\ s[2] = h[2])]_vars

(* A request that repeats one its client has the answer of is not refused:   *)
(* the key leads to the task, as long as Redis has kept it and no task of    *)
(* the key was cleared.                                                      *)
KeyHonoured ==
    \A c \in Calls \ Batches : \A r \in before[c] :
        /\ Ask(r).key = Items[c][1].key /\ Ask(r).key \notin shaken \cup {NoKey}
        => answer[c].code \notin {"conflict", "error"}

(* Every call is answered, if only with a 503. *)
Answered == \A c \in Calls : Open(c) ~> ~Open(c)
=============================================================================
