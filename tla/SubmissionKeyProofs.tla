------------------------- MODULE SubmissionKeyProofs -------------------------
(***************************************************************************)
(* That idempotency keys are honoured (KeyHonoured of Submission), for any *)
(* requests, as long as no batch carries the key of a single request.      *)
(***************************************************************************)
EXTENDS SubmissionProofs

(* Without this, a batch stores a shared key before its commit fails, and    *)
(* the key names no row from then on.                                        *)
SoloKeys == \A c \in Calls \ Batches, d \in Batches :
                Items[c][1].key \in KeysOf(d) => Items[c][1].key = NoKey

KeyOf(h)   == Items[h[1]][1].key
Trusted(k) == /\ k \in Keys \ shaken
              /\ \E c \in Calls \ Batches : Items[c][1].key = k

Repeats(c) == \E r \in before[c] : Ask(r).key = Items[c][1].key

(* What a handler of a single request holds and has answered is the row that *)
(* Redis has under its key.                                                  *)
Led(h) == /\ pc[h] = "row"     => cached[h] = stored[KeyOf(h)]
          /\ pc[h] = "store"   => Exists(New(h)) /\ made[h] = {New(h)}
          /\ pc[h] = "publish" => \A r \in made[h] : stored[KeyOf(h)] = r
          /\ \A r \in reply[h].rows : stored[KeyOf(h)] = r

(* The way of a handler that finds the row of its key. *)
Smooth(h) == pc[h] \in {"idle", "key", "row", "done", "dead"} /\ reply[h].code \in {"none", "ok"}

Settled(c) == /\ \A r \in answer[c].rows : stored[Items[c][1].key] = r
              /\ Repeats(c) => /\ stored[Items[c][1].key] # NoRow
                               /\ answer[c].code \in {"none", "ok", "unavailable"}

Names   == \A k \in Keys : Trusted(k) /\ stored[k] # NoRow => Exists(stored[k])
Leads   == \A h \in Handlers : ~Batch(h) /\ Trusted(KeyOf(h)) =>
               Led(h) /\ (Repeats(h[1]) => Smooth(h))
Settles == \A c \in Calls \ Batches : Trusted(Items[c][1].key) => Settled(c)
Silent  == /\ \A h \in Handlers : pc[h] = "idle" => reply[h] = Unanswered
           /\ \A c \in Calls : attempt[c] = 0 => answer[c] = Unanswered

KeyInv == Names /\ Leads /\ Settles /\ Silent

Base == Typed /\ OneRowPerKey /\ Keyed /\ Related /\ TwinInv

LEMMA InitKeys == Init => KeyInv
<1> SUFFICES ASSUME Init PROVE KeyInv
  OBVIOUS
<1>1. Names /\ Silent
  BY DEF Init, Names, Silent
<1>2. \A h \in Handlers : pc[h] = "idle" /\ reply[h] = Unanswered
  BY DEF Init
<1>3. Leads
  BY <1>2 DEF Leads, Led, Smooth, Unanswered
<1>4. \A c \in Calls : before[c] = {} /\ answer[c] = Unanswered
  BY DEF Init
<1>5. Settles
  BY <1>4 DEF Settles, Settled, Repeats, Unanswered
<1> QED BY <1>1, <1>3, <1>5 DEF KeyInv

(* Who stores under a trusted key has committed the row, and it is the only  *)
(* one of the key.                                                           *)
LEMMA StoredBy ==
    ASSUME SoloKeys, Base, KeyInv, NEW h \in Handlers, pc[h] = "store", Trusted(Wanted(h).key)
    PROVE  ~Batch(h) /\ Wanted(h).key = KeyOf(h) /\ Exists(New(h)) /\ made[h] = {New(h)}
<1>1. Wanted(h).key \in KeysOf(h[1]) /\ h[1] \in Calls
  BY NewRow, HandlerParts DEF Base, Typed, KeysOf, Wanted
<1>2. h[1] \notin Batches
  BY <1>1, Untaken DEF SoloKeys, Trusted
<1>3. Wanted(h).key = KeyOf(h)
  BY <1>2, OneItem DEF Base, Batch, KeyOf
<1> QED BY <1>2, <1>3 DEF Batch, KeyInv, Leads, Led

(* What a step can do to the table, to Redis and to the keys it has lost.    *)
LEMMA Kinds ==
    ASSUME Base, [Next]_vars
    PROVE  \/ UNCHANGED <<status, stored, shaken>>
           \/ \E r \in Rows : Live(r)
           \/ \E k \in Keys : KeyExpires(k)
           \/ \E h \in Handlers : StoreKey(h)
           \/ \E new \in SUBSET Rows : Commits(new) /\ UNCHANGED <<stored, shaken>>
           \/ UNCHANGED <<status, stored>> /\ shaken \subseteq shaken'
<1>1. ASSUME NEW c \in Calls, Call(c) \/ Receive(c) \/ ConnectionFails(c)
      PROVE  UNCHANGED <<status, stored, shaken>>
  BY <1>1 DEF Call, Receive, ConnectionFails
<1>2. ASSUME NEW h \in Handlers, Dies(h) PROVE UNCHANGED <<status, stored, shaken>>
  BY <1>2 DEF Dies
<1>3. ASSUME NEW h \in Handlers, AddOne(h) \/ CommitBatch(h)
      PROVE  \/ UNCHANGED <<status, stored, shaken>>
             \/ \E new \in SUBSET Rows : Commits(new) /\ UNCHANGED <<stored, shaken>>
  <2>1. New(h) \in Rows /\ Fresh(h) \in SUBSET Rows
    BY NewRow DEF Base, Typed
  <2> QED BY <1>3, <2>1 DEF AddOne, CommitBatch, Insert, Rollback, Commits
<1>4. ASSUME NEW h \in Handlers, Recall(h) \/ CheckDuplicate(h) \/ AddToBatch(h) \/ Publish(h)
      PROVE  UNCHANGED <<status, stored, shaken>>
  BY <1>4 DEF Recall, CheckDuplicate, AddToBatch, Publish
<1>5. ASSUME NEW h \in Handlers, LookUp(h)
      PROVE  UNCHANGED <<status, stored>> /\ shaken \subseteq shaken'
  BY <1>5 DEF LookUp
<1> QED BY <1>1, <1>2, <1>3, <1>4, <1>5 DEF Next, HandlerStep, vars

(* As long as Redis does not lose a key of single requests and no task of it *)
(* is cleared, the key names one row for good.                               *)
LEMMA Steady ==
    ASSUME SoloKeys, Base, KeyInv, [Next]_vars, NEW k \in Keys, Trusted(k)'
    PROVE  /\ Trusted(k)
           /\ \A r \in Rows : Ask(r).key = k /\ Exists(r) => Exists(r)'
           /\ stored[k] # NoRow => stored'[k] = stored[k]
           /\ stored'[k] # NoRow => Exists(stored[k])'
<1> DEFINE Goal == /\ Trusted(k)
                   /\ \A r \in Rows : Ask(r).key = k /\ Exists(r) => Exists(r)'
                   /\ stored[k] # NoRow => stored'[k] = stored[k]
                   /\ stored'[k] # NoRow => Exists(stored[k])'
<1> USE DEF Base, Typed, TypeOK
<1>0. /\ k # NoKey /\ k \notin shaken'
      /\ shaken \subseteq shaken' => Trusted(k)
      /\ Trusted(k) /\ stored[k] # NoRow => Exists(stored[k]) /\ Ask(stored[k]).key = k
      /\ stored[k] # NoRow => stored[k] \in Rows
  BY Untaken DEF Trusted, KeyInv, Names, Keyed
<1>1. CASE UNCHANGED <<status, stored>> /\ shaken \subseteq shaken'
  BY <1>0, <1>1 DEF Exists
<1>2. ASSUME NEW q \in Rows, Live(q) PROVE Goal
  <2>1. PICK to \in Status : /\ <<status[q], to>> \in Moves
                             /\ status' = [status EXCEPT ![q] = to]
                             /\ shaken' = IF to = "GONE" /\ Ask(q).key # NoKey
                                          THEN shaken \cup {Ask(q).key} ELSE shaken
    BY <1>2 DEF Live
  <2>2. to # "ABSENT" /\ stored' = stored /\ shaken \subseteq shaken'
    BY <1>2, <2>1, MovesTyped DEF Live
  <2>3. ASSUME NEW r \in Rows, Ask(r).key = k, Exists(r) PROVE Exists(r)'
    BY <1>0, <2>1, <2>2, <2>3 DEF Exists
  <2> QED BY <1>0, <2>2, <2>3
<1>3. ASSUME NEW j \in Keys, KeyExpires(j) PROVE Goal
  <2>1. j # k /\ shaken \subseteq shaken' /\ status' = status /\ stored'[k] = stored[k]
    BY <1>0, <1>3 DEF KeyExpires
  <2> QED BY <1>0, <2>1 DEF Exists
<1>4. ASSUME NEW h \in Handlers, StoreKey(h) PROVE Goal
  <2>1. /\ status' = status /\ shaken \subseteq shaken' /\ Trusted(k) /\ pc[h] = "store"
        /\ Wanted(h).key \in Keys /\ New(h) \in Rows /\ Ask(New(h)).key = Wanted(h).key
    BY <1>0, <1>4, NewRow DEF StoreKey, Placed, Item
  <2>2. CASE stored'[k] = stored[k]
    BY <1>0, <2>1, <2>2 DEF Exists
  <2>3. CASE Wanted(h).key = k /\ stored'[k] = New(h)
    <3>1. Exists(New(h))
      BY <2>1, <2>3, StoredBy
    <3>2. stored[k] # NoRow => stored[k] = New(h)
      BY <1>0, <2>1, <2>3, <3>1 DEF OneRowPerKey
    <3> QED BY <2>1, <2>3, <3>1, <3>2 DEF Exists
  <2> QED BY <1>4, <2>1, <2>2, <2>3 DEF StoreKey
<1>5. ASSUME NEW new \in SUBSET Rows, Commits(new), UNCHANGED <<stored, shaken>> PROVE Goal
  <2>1. \A r \in Rows : Exists(r) => Exists(r)'
    BY <1>5 DEF Commits, Exists, Initial
  <2> QED BY <1>0, <1>5, <2>1
<1> QED BY <1>1, <1>2, <1>3, <1>4, <1>5, Kinds

-----------------------------------------------------------------------------
(* A handler of a single request whose key is trusted *)

LEMMA KeptLed ==
    ASSUME SoloKeys, Base, KeyInv, [Next]_vars, NEW h \in Handlers, ~Batch(h), Trusted(KeyOf(h))',
           pc'[h] \in {pc[h], "key", "done", "dead"}, item'[h] = item[h], cached'[h] = cached[h],
           made'[h] = made[h], reply'[h] = reply[h]
    PROVE  Led(h)'
<1> DEFINE k == KeyOf(h)
<1>1. /\ k \in Keys /\ Trusted(k) /\ Led(h) /\ KeyOf(h)' = k /\ New(h)' = New(h) /\ New(h) \in Rows
      /\ made[h] \subseteq Rows /\ reply[h].rows \subseteq Rows
  BY Steady, NewRow DEF Trusted, KeyOf, KeyInv, Leads, New, Base, Typed, TypeOK, Answer
<1>2. \A r \in Rows : stored[k] = r => stored'[k] = r
  BY <1>1, Steady, Untaken
<1>3. pc[h] = "row" => stored'[k] = stored[k]
  BY <1>1, <1>2, Steady DEF Led, Base, Typed, Placed
<1>4. pc[h] = "store" => Exists(New(h))'
  <2>1. Ask(New(h)).key = k
    BY NewRow, OneItem DEF Base, Typed, KeyOf
  <2> QED BY <1>1, <2>1, Steady DEF Led
<1> HIDE DEF k
<1> QED BY <1>1, <1>2, <1>3, <1>4 DEF Led, k

LEMMA HandlerLed ==
    ASSUME SoloKeys, Base, KeyInv, [Next]_vars, NEW h \in Handlers, HandlerStep(h),
           ~Batch(h), Trusted(KeyOf(h))'
    PROVE  Led(h)' /\ (Repeats(h[1]) => Smooth(h)')
<1> DEFINE k == KeyOf(h)
<1> USE DEF Base, Typed, TypeOK
<1>0. /\ k \in Keys /\ k # NoKey /\ k \notin shaken' /\ Trusted(k) /\ KeyOf(h)' = k
      /\ Wanted(h).key = k /\ Ask(New(h)).key = k /\ New(h) \in Rows
      /\ Led(h) /\ (Repeats(h[1]) => Smooth(h) /\ stored[k] # NoRow)
  BY Steady, NewRow, OneItem, Untaken, HandlerParts
     DEF Trusted, KeyOf, KeyInv, Leads, Settles, Settled, Batch
<1>1. /\ \A r \in Rows : stored[k] = r => stored'[k] = r
      /\ \A r \in reply[h].rows : stored'[k] = r
  BY <1>0, Steady, Untaken DEF Led, Answer
<1> HIDE DEF k
<1>2. ASSUME NEW code \in Codes, NEW rows, \A r \in rows : stored'[k] = r, Respond(h, code, rows)
      PROVE  Led(h)' /\ (Smooth(h) /\ code = "ok" => Smooth(h)')
  <2>1. pc'[h] = "done" /\ (reply'[h] = reply[h] \/ reply'[h] = [code |-> code, rows |-> rows])
    BY <1>2 DEF Respond
  <2> QED BY <1>0, <1>1, <1>2, <2>1 DEF Led, Smooth
<1>3. CASE LookUp(h)
  <2>1. /\ cached'[h] = stored[k] /\ stored' = stored /\ reply' = reply
        /\ pc'[h] = IF stored[k] = NoRow THEN "dup" ELSE "row"
    BY <1>0, <1>3 DEF LookUp, Goto
  <2> QED BY <1>0, <1>1, <2>1 DEF Led, Smooth
<1>4. CASE Recall(h)
  <2>1. cached[h] = stored[k] /\ cached[h] # NoRow /\ cached[h] \in Rows
    BY <1>0, <1>4 DEF Recall, Led, Placed
  <2>2. Exists(cached[h])
    BY <1>0, <2>1 DEF KeyInv, Names
  <2>3. Respond(h, "ok", {cached[h]}) /\ stored' = stored
    BY <1>4, <2>2 DEF Recall
  <2> QED BY <1>0, <1>2, <2>1, <2>3 DEF Codes
<1>5. CASE CheckDuplicate(h)
  <2>1. pc[h] = "dup" /\ ~Repeats(h[1])
    BY <1>0, <1>5 DEF CheckDuplicate, Smooth
  <2>2. CASE Goto(h, "insert")
    <3>1. pc'[h] = "insert" /\ reply' = reply
      BY <2>2 DEF Goto
    <3> QED BY <1>0, <1>1, <2>1, <3>1 DEF Led
  <2>3. CASE Respond(h, "conflict", {})
    BY <1>2, <2>1, <2>3 DEF Codes
  <2> QED BY <1>5, <2>2, <2>3 DEF CheckDuplicate
<1>6. CASE AddOne(h)
  <2>1. pc[h] = "insert" /\ ~Repeats(h[1])
    BY <1>0, <1>6 DEF AddOne, Smooth
  <2>2. CASE Insert(h, {New(h)}, "store") /\ made' = [made EXCEPT ![h] = {New(h)}]
    <3>1. /\ pc'[h] = "store" /\ reply' = reply /\ New(h)' = New(h) /\ made'[h] = {New(h)}
          /\ status'[New(h)] = Initial(New(h))
      BY <1>0, <2>2 DEF Insert, Goto, New
    <3>2. Exists(New(h))'
      BY <3>1 DEF Exists, Initial
    <3> QED BY <1>0, <1>1, <2>1, <3>1, <3>2 DEF Led
  <2>3. CASE Rollback(h, {New(h)})
    BY <1>2, <2>1, <2>3 DEF Rollback, Codes
  <2> QED BY <1>0, <1>6, <2>2, <2>3 DEF AddOne
<1>7. CASE StoreKey(h)
  <2>1. /\ pc[h] = "store" /\ ~Repeats(h[1]) /\ made[h] = {New(h)}
        /\ stored' = [stored EXCEPT ![k] = New(h)] /\ Goto(h, "publish") /\ made' = made
    BY <1>0, <1>7 DEF StoreKey, Smooth, Led
  <2>2. pc'[h] = "publish" /\ reply' = reply /\ stored'[k] = New(h)
    BY <1>0, <2>1 DEF Goto
  <2> QED BY <1>0, <1>1, <2>1, <2>2 DEF Led
<1>8. CASE Publish(h)
  <2> DEFINE found == {r \in made[h] : Exists(r)}
  <2>1. pc[h] = "publish" /\ ~Repeats(h[1]) /\ stored' = stored
    BY <1>0, <1>8 DEF Publish, Smooth
  <2>2. \A r \in found : stored'[k] = r
    BY <1>0, <2>1 DEF Led, k
  <2>3. \E code \in Codes : Respond(h, code, found)
    BY <1>8 DEF Publish, Codes
  <2> HIDE DEF found
  <2> QED BY <1>2, <2>1, <2>2, <2>3
<1>9. ~AddToBatch(h) /\ ~CommitBatch(h)
  BY DEF AddToBatch, CommitBatch, TwinInv, Orderly
<1> QED BY <1>3, <1>4, <1>5, <1>6, <1>7, <1>8, <1>9 DEF HandlerStep

-----------------------------------------------------------------------------
(* Every step *)

LEMMA StepNames == ASSUME SoloKeys, Base, KeyInv, [Next]_vars PROVE Names'
  BY Steady DEF Names, Trusted

(* The clients' part, where a client gets no answer. *)
LEMMA SameSettled ==
    ASSUME SoloKeys, Base, KeyInv, [Next]_vars, NEW c \in Calls \ Batches,
           Trusted(Items[c][1].key)', before'[c] = before[c], answer'[c] = answer[c]
    PROVE  Settled(c)'
<1> DEFINE k == Items[c][1].key
<1>1. k \in Keys /\ Trusted(k) /\ Settled(c) /\ answer[c].rows \subseteq Rows
  BY Steady DEF Trusted, KeyInv, Settles, Base, Typed, TypeOK, Answer
<1>2. stored[k] # NoRow => stored'[k] = stored[k]
  BY <1>1, Steady
<1>3. \A r \in Rows : r # NoRow
  BY Untaken
<1> HIDE DEF k
<1> QED BY <1>1, <1>2, <1>3 DEF Settled, Repeats, k

(* No handler moves, unless it dies. *)
Halts == /\ UNCHANGED <<item, cached, made, reply>>
         /\ \A h \in Handlers : pc'[h] # pc[h] => pc'[h] = "dead" /\ pc[h] # "idle"

(* The steps of handlers, of the tasks, of Redis; and deaths. *)
LEMMA HandlersStep ==
    ASSUME SoloKeys, Base, KeyInv, [Next]_vars, UNCHANGED client,
           Halts \/ \E h \in Handlers : HandlerStep(h)
    PROVE  Leads' /\ Settles' /\ Silent'
<1> USE DEF client
<1>1. Settles'
  BY SameSettled DEF Settles
<1>2. ASSUME NEW h \in Handlers, ~Batch(h), Trusted(KeyOf(h))',
             pc'[h] \in {pc[h], "dead"}, item'[h] = item[h], cached'[h] = cached[h],
             made'[h] = made[h], reply'[h] = reply[h]
      PROVE  Led(h)' /\ (Repeats(h[1])' => Smooth(h)')
  <2>1. Led(h)'
    BY <1>2, KeptLed
  <2>2. KeyOf(h) \in Keys /\ KeyOf(h)' = KeyOf(h)
    BY <1>2 DEF Trusted, KeyOf
  <2>3. Trusted(KeyOf(h))
    BY <1>2, <2>2, Steady
  <2>4. Repeats(h[1])' = Repeats(h[1])
    BY DEF Repeats, Ask
  <2> QED BY <1>2, <2>1, <2>3, <2>4 DEF KeyInv, Leads, Smooth
<1>3. CASE \E h \in Handlers : HandlerStep(h)
  <2>1. PICK h \in Handlers : HandlerStep(h)
    BY <1>3
  <2>2. \A g \in Handlers : g # h => /\ pc'[g] = pc[g] /\ item'[g] = item[g] /\ cached'[g] = cached[g]
                                     /\ made'[g] = made[g] /\ reply'[g] = reply[g]
    BY <2>1, OthersAlone DEF Base
  <2>3. Repeats(h[1])' = Repeats(h[1]) /\ (\A g \in Handlers : Batch(g)' = Batch(g))
    BY DEF Repeats, Ask, Batch
  <2>4. Leads'
    <3> SUFFICES ASSUME NEW g \in Handlers, ~Batch(g), Trusted(KeyOf(g))'
                 PROVE  Led(g)' /\ (Repeats(g[1])' => Smooth(g)')
      BY <2>3 DEF Leads
    <3>1. CASE g = h
      BY <2>1, <2>3, <3>1, HandlerLed
    <3>2. CASE g # h
      BY <1>2, <2>2, <3>2
    <3> QED BY <3>1, <3>2
  <2>5. pc[h] # "idle" /\ pc'[h] # "idle"
    BY <2>1, NextItemTyped DEF HandlerStep, LookUp, Recall, CheckDuplicate, AddOne, AddToBatch, StoreKey,
       CommitBatch, Publish, Insert, Rollback, Goto, Respond, Base, Typed, TypeOK
  <2>6. Silent'
    BY <2>2, <2>5 DEF KeyInv, Silent
  <2> QED BY <1>1, <2>4, <2>6
<1>4. CASE Halts
  <2>1. Leads'
    BY <1>2, <1>4 DEF Halts, Leads, Batch
  <2>2. Silent'
    BY <1>4 DEF Halts, KeyInv, Silent
  <2> QED BY <1>1, <2>1, <2>2
<1> QED BY <1>3, <1>4

(* What a client has got of a trusted key is what Redis has under it. *)
LEMMA Remembered ==
    ASSUME SoloKeys, Base, KeyInv, NEW c \in Calls \ Batches, Trusted(Items[c][1].key),
           NEW d \in Calls, NEW r \in answer[d].rows, Ask(r).key = Items[c][1].key
    PROVE  stored[Items[c][1].key] = r /\ r # NoRow
<1>1. Ask(r).key \in KeysOf(d) /\ r \in Rows
  BY DEF Base, Related, OfKey, Typed, TypeOK, Answer
<1>2. d \notin Batches
  BY <1>1, Untaken DEF SoloKeys, Trusted
<1>3. Items[d][1].key = Items[c][1].key
  BY <1>1, <1>2, OneKey
<1> QED BY <1>1, <1>2, <1>3, Untaken DEF KeyInv, Settles, Settled

LEMMA CallKeys ==
    ASSUME SoloKeys, Base, KeyInv, [Next]_vars, NEW c \in Calls, Call(c)
    PROVE  Leads' /\ Settles' /\ Silent'
<1> USE DEF Base, Typed, TypeOK
<1>1. /\ attempt[c] = 0 /\ answer[c] = Unanswered /\ attempt'[c] = 1
      /\ UNCHANGED <<status, stored, item, cached, made, reply, answer, shaken>>
      /\ before' = [before EXCEPT ![c] = UNION {answer[d].rows : d \in Calls}]
      /\ pc' = [pc EXCEPT ![<<c, 1>>] = "key"]
      /\ \A d \in Calls : attempt'[d] = 0 => attempt[d] = 0
  BY DEF Call, KeyInv, Silent
<1>2. \A h \in Handlers : h[1] = c => pc[h] = "idle" /\ reply[h] = Unanswered
  <2> SUFFICES ASSUME NEW h \in Handlers, h[1] = c PROVE pc[h] = "idle" /\ reply[h] = Unanswered
    OBVIOUS
  <2>1. h = <<c, h[2]>> /\ h[2] \in 1 .. Attempts /\ h[2] > attempt[c]
    BY <1>1, HandlerParts
  <2>2. pc[h] = "idle"
    BY <2>1 DEF TwinInv, Unstarted
  <2> QED BY <2>2 DEF KeyInv, Silent
<1>3. \A h \in Handlers : pc'[h] # pc[h] => pc'[h] = "key" /\ h[1] = c
  <2>1. \A h \in Handlers : pc'[h] # pc[h] => h = <<c, 1>> /\ pc'[h] = "key"
    BY <1>1
  <2> QED BY <2>1
<1>4. \A d \in Calls : d # c => before'[d] = before[d]
  BY <1>1
<1>5. Leads'
  <2> SUFFICES ASSUME NEW h \in Handlers, ~Batch(h), Trusted(KeyOf(h))'
               PROVE  Led(h)' /\ (Repeats(h[1])' => Smooth(h)')
    BY DEF Leads, Batch
  <2>1. Led(h)'
    BY <1>1, <1>3, KeptLed
  <2>2. CASE h[1] = c
    BY <1>1, <1>2, <1>3, <2>1, <2>2 DEF Smooth, Unanswered
  <2>3. CASE h[1] # c
    <3>1. Trusted(KeyOf(h)) /\ h[1] \in Calls
      BY <1>1, HandlerParts DEF Trusted, KeyOf
    <3>2. Repeats(h[1])' => Smooth(h)
      BY <1>4, <2>3, <3>1 DEF Repeats, Ask, KeyInv, Leads
    <3> QED BY <1>1, <1>3, <2>1, <2>3, <3>2 DEF Smooth
  <2> QED BY <2>2, <2>3
<1>6. Settles'
  <2> SUFFICES ASSUME NEW d \in Calls \ Batches, Trusted(Items[d][1].key)' PROVE Settled(d)'
    BY DEF Settles
  <2>1. CASE d # c
    BY <1>1, <1>4, <2>1, SameSettled
  <2>2. CASE d = c
    <3>1. Trusted(Items[c][1].key)
      BY <1>1, <2>2 DEF Trusted
    <3>2. Repeats(c)' => \E e \in Calls : \E r \in answer[e].rows : Ask(r).key = Items[c][1].key
      BY <1>1 DEF Repeats, Ask
    <3>3. Repeats(c)' => stored[Items[c][1].key] # NoRow
      BY <2>2, <3>1, <3>2, Remembered
    <3> QED BY <1>1, <2>2, <3>3 DEF Settled, Unanswered
  <2> QED BY <2>1, <2>2
<1>7. Silent'
  BY <1>1, <1>3 DEF KeyInv, Silent
<1> QED BY <1>5, <1>6, <1>7

LEMMA ReceiveKeys ==
    ASSUME SoloKeys, Base, KeyInv, [Next]_vars, NEW c \in Calls, Receive(c)
    PROVE  Leads' /\ Settles' /\ Silent'
<1> USE DEF Base, Typed, TypeOK
<1> DEFINE h == <<c, attempt[c]>>
<1>1. /\ h \in Handlers /\ h[1] = c /\ attempt[c] # 0 /\ UNCHANGED <<status, stored, handler, shaken, attempt, before>>
      /\ answer' = [answer EXCEPT ![c] = reply[h]]
  BY AttemptsAssumption DEF Receive, Open, Handlers
<1> HIDE DEF h
<1>2. \A k \in Keys : Trusted(k)' = Trusted(k)
  BY <1>1 DEF Trusted
<1>3. Leads'
  BY <1>1 DEF KeyInv, Leads, Led, Smooth, Batch, KeyOf, Repeats, Ask, Trusted, Exists, New, handler
<1>4. Settles'
  <2> SUFFICES ASSUME NEW d \in Calls \ Batches, Trusted(Items[d][1].key)' PROVE Settled(d)'
    BY DEF Settles
  <2>1. CASE d # c
    BY <1>1, <2>1, SameSettled
  <2>2. CASE d = c
    <3>1. Trusted(KeyOf(h)) /\ ~Batch(h) /\ KeyOf(h) = Items[c][1].key
      BY <1>1, <2>2 DEF Trusted, KeyOf, Batch
    <3>2. Led(h) /\ (Repeats(c) => Smooth(h)) /\ Settled(c)
      BY <1>1, <2>2, <3>1 DEF KeyInv, Leads, Settles
    <3>3. answer'[c] = reply[h] /\ Repeats(c)' = Repeats(c)
      BY <1>1 DEF Repeats, Ask
    <3> QED BY <1>1, <2>2, <3>1, <3>2, <3>3 DEF Settled, Led, Smooth
  <2> QED BY <2>1, <2>2
<1>5. Silent'
  BY <1>1 DEF KeyInv, Silent, handler
<1> QED BY <1>3, <1>4, <1>5

LEMMA FailKeys ==
    ASSUME SoloKeys, Base, KeyInv, [Next]_vars, NEW c \in Calls, ConnectionFails(c)
    PROVE  Leads' /\ Settles' /\ Silent'
<1> USE DEF Base, Typed, TypeOK
<1>1. /\ attempt[c] # 0 /\ UNCHANGED <<status, stored, item, cached, made, reply, shaken, before>>
      /\ \A d \in Calls : \/ answer'[d] = answer[d]
                          \/ d = c /\ answer'[d] = [code |-> "unavailable", rows |-> {}]
      /\ \A d \in Calls : attempt'[d] = attempt[d] \/ attempt'[d] = attempt[d] + 1
  BY DEF ConnectionFails, Open
<1>2. \A h \in Handlers : pc'[h] \in {pc[h], "done", "key"}
  <2>1. PICK left \in {pc, [pc EXCEPT ![<<c, attempt[c]>>] = "done"]} :
           pc' = left \/ pc' = [left EXCEPT ![<<c, attempt[c] + 1>>] = "key"]
    BY DEF ConnectionFails
  <2>2. \A h \in Handlers : left[h] \in {pc[h], "done"} /\ left \in [Handlers -> {left[g] : g \in Handlers}]
    BY <2>1
  <2> QED BY <2>1, <2>2
<1>3. \A k \in Keys : Trusted(k)' = Trusted(k)
  BY <1>1 DEF Trusted
<1>4. Leads'
  <2> SUFFICES ASSUME NEW h \in Handlers, ~Batch(h), Trusted(KeyOf(h))'
               PROVE  Led(h)' /\ (Repeats(h[1])' => Smooth(h)')
    BY DEF Leads, Batch
  <2>1. Led(h)'
    BY <1>1, <1>2, KeptLed
  <2>2. Trusted(KeyOf(h)) /\ Repeats(h[1])' = Repeats(h[1])
    BY <1>1 DEF Trusted, KeyOf, Repeats, Ask
  <2> QED BY <1>1, <1>2, <2>1, <2>2 DEF KeyInv, Leads, Smooth
<1>5. Settles'
  <2> SUFFICES ASSUME NEW d \in Calls \ Batches, Trusted(Items[d][1].key)' PROVE Settled(d)'
    BY DEF Settles
  <2>1. CASE answer'[d] = answer[d]
    BY <1>1, <2>1, SameSettled
  <2>2. CASE answer'[d] = [code |-> "unavailable", rows |-> {}]
    <3>1. Trusted(Items[d][1].key) /\ Repeats(d)' = Repeats(d)
      BY <1>1 DEF Trusted, Repeats, Ask
    <3> QED BY <1>1, <2>2, <3>1 DEF KeyInv, Settles, Settled
  <2> QED BY <1>1, <2>1, <2>2
<1>6. Silent'
  BY <1>1, <1>2 DEF KeyInv, Silent
<1> QED BY <1>4, <1>5, <1>6

LEMMA StepKeys == SoloKeys /\ Base /\ KeyInv /\ [Next]_vars => KeyInv'
<1> SUFFICES ASSUME SoloKeys, Base, KeyInv, [Next]_vars PROVE Leads' /\ Settles' /\ Silent'
  BY StepNames DEF KeyInv
<1>1. ASSUME NEW h \in Handlers, HandlerStep(h) PROVE UNCHANGED client
  BY <1>1 DEF HandlerStep, LookUp, Recall, CheckDuplicate, AddOne, AddToBatch, StoreKey, CommitBatch, Publish
<1>2. ASSUME NEW h \in Handlers, Dies(h)
      PROVE  UNCHANGED client /\ Halts
  <2>1. pc' = [pc EXCEPT ![h] = "dead"] /\ pc[h] # "idle" /\ UNCHANGED <<client, item, cached, made, reply>>
    BY <1>2 DEF Dies, Working
  <2>2. \A g \in Handlers : pc'[g] # pc[g] => g = h /\ pc'[g] = "dead"
    BY <2>1 DEF Base, Typed, TypeOK
  <2> QED BY <2>1, <2>2 DEF Halts
<1>3. CASE (\E r \in Rows : Live(r)) \/ (\E k \in Keys : KeyExpires(k)) \/ UNCHANGED vars
  <2>1. UNCHANGED <<handler, client>>
    BY <1>3 DEF Live, KeyExpires, vars
  <2>2. Halts
    BY <2>1 DEF handler, Halts
  <2> QED BY <2>1, <2>2, HandlersStep
<1> QED BY <1>1, <1>2, <1>3, HandlersStep, CallKeys, ReceiveKeys, FailKeys DEF Next

(* A request that repeats one its client has the answer of is not refused,   *)
(* however often the gateway resends, and whatever fails but Redis.          *)
THEOREM KeysHonoured == ASSUME SoloKeys PROVE Spec => []KeyHonoured
<1>1. Init => Base /\ KeyInv
  BY InitTyped, InitUnique, InitKeyed, InitTwins, InitKeys DEF Base
<1>2. Base /\ KeyInv /\ [Next]_vars => Base' /\ KeyInv'
  BY StepTyped, StepUnique, StepKeyed, StepTwins, StepKeys DEF Base
<1>3. Base /\ KeyInv => KeyHonoured
  <2> SUFFICES ASSUME Base, KeyInv, NEW c \in Calls \ Batches, NEW r \in before[c],
                      Ask(r).key = Items[c][1].key, Ask(r).key \notin shaken \cup {NoKey}
               PROVE  answer[c].code \notin {"conflict", "error"}
    BY DEF KeyHonoured
  <2>1. Ask(r).key \in Keys
    BY RowParts DEF Base, Typed, TypeOK, Item
  <2>2. Trusted(Items[c][1].key) /\ Repeats(c)
    BY <2>1 DEF Trusted, Repeats
  <2> QED BY <2>2 DEF KeyInv, Settles, Settled
<1> QED BY <1>1, <1>2, <1>3, PTL DEF Spec

=============================================================================
