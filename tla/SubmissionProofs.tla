--------------------------- MODULE SubmissionProofs ---------------------------
(***************************************************************************)
(* Theorems about Submission, for any requests, keys, batches and faults.  *)
(***************************************************************************)
EXTENDS Submission, TLAPS

-----------------------------------------------------------------------------
(* Requests and rows *)

LEMMA ItemsTyped ==
    ASSUME NEW c \in Calls
    PROVE  /\ Items[c] \in Seq(Item) /\ Len(Items[c]) \in Nat
           /\ DOMAIN Items[c] = 1 .. Len(Items[c]) /\ 1 \in DOMAIN Items[c]
           /\ \A i \in DOMAIN Items[c] : Items[c][i] \in Item
  BY ItemsAssumption

LEMMA HandlerParts ==
    ASSUME NEW h \in Handlers
    PROVE  /\ h[1] \in Calls /\ h[2] \in 1 .. Attempts /\ h = <<h[1], h[2]>>
           /\ \A i \in DOMAIN Items[h[1]] : <<h[1], h[2], i>> \in Rows
  BY DEF Handlers, Rows

LEMMA RowParts ==
    ASSUME NEW r \in Rows
    PROVE  /\ <<r[1], r[2]>> \in Handlers /\ r[3] \in DOMAIN Items[r[1]]
           /\ r = <<r[1], r[2], r[3]>> /\ Ask(r) \in Item
<1>1. PICK h \in Handlers : \E i \in DOMAIN Items[h[1]] : r = <<h[1], h[2], i>>
  BY DEF Rows
<1>2. PICK i \in DOMAIN Items[h[1]] : r = <<h[1], h[2], i>>
  BY <1>1
<1>3. h[1] \in Calls /\ h = <<h[1], h[2]>>
  BY HandlerParts
<1> QED BY <1>2, <1>3, ItemsTyped DEF Ask

LEMMA NewRow ==
    ASSUME TypeOK, NEW h \in Handlers
    PROVE  /\ New(h) \in Rows /\ Wanted(h) \in Item /\ Ask(New(h)) = Wanted(h)
           /\ Fresh(h) \in SUBSET Rows
           /\ item[h] \in 1 .. Len(Items[h[1]]) /\ Len(Items[h[1]]) \in Nat
<1>1. item[h] \in DOMAIN Items[h[1]] /\ made[h] \in SUBSET Rows
  BY DEF TypeOK
<1>2. h[1] \in Calls
  BY HandlerParts
<1> QED BY <1>1, <1>2, HandlerParts, ItemsTyped DEF New, Wanted, Ask, Fresh

LEMMA Untaken == NoKey \notin Keys /\ NoRow \notin Rows
  BY NoneOutside

-----------------------------------------------------------------------------
(* Types.  A handler reads the row of a key only when it has found one, and   *)
(* stores a key only when the request has one.                                *)

Placed == \A h \in Handlers : /\ pc[h] = "row"   => cached[h] # NoRow
                              /\ pc[h] = "store" => Wanted(h).key # NoKey

Typed == TypeOK /\ Placed

LEMMA InitTyped == Init => Typed
<1> SUFFICES ASSUME Init PROVE Typed
  OBVIOUS
<1>1. \A h \in Handlers : 1 \in DOMAIN Items[h[1]]
  BY HandlerParts, ItemsTyped
<1>2. TypeOK
  BY <1>1, BoundsAssumption, AttemptsAssumption
  DEF Init, TypeOK, Status, Stages, Answer, Unanswered
<1> QED BY <1>2 DEF Init, Typed, Placed

(* What the steps have in common. *)
LEMMA FaultTyped == TypeOK /\ (Fault \/ Sound) => faults' \in 0 .. MaxFaults
  BY BoundsAssumption DEF TypeOK, Fault, Sound

LEMMA GotoTyped ==
    ASSUME Typed, NEW h \in Handlers, NEW stage \in Stages, Goto(h, stage)
    PROVE  /\ pc' = [pc EXCEPT ![h] = stage] /\ pc' \in [Handlers -> Stages]
           /\ item' = item /\ reply' = reply
  BY DEF Goto, Typed, TypeOK

LEMMA RespondTyped ==
    ASSUME Typed, NEW h \in Handlers, NEW code \in Codes, NEW rows \in SUBSET Rows,
           Respond(h, code, rows)
    PROVE  /\ pc' \in [Handlers -> Stages] /\ item' \in [Handlers -> Nat]
           /\ \A g \in Handlers : item'[g] \in DOMAIN Items[g[1]]
           /\ cached' \in [Handlers -> Rows \cup {NoRow}]
           /\ made' \in [Handlers -> SUBSET Rows] /\ reply' \in [Handlers -> Answer]
           /\ \A g \in Handlers : g # h => /\ pc'[g] = pc[g] /\ item'[g] = item[g]
                                           /\ cached'[g] = cached[g] /\ made'[g] = made[g]
           /\ pc'[h] = "done" /\ made'[h] = {}
<1>1. 1 \in DOMAIN Items[h[1]]
  BY HandlerParts, ItemsTyped
<1>2. [code |-> code, rows |-> rows] \in Answer
  BY DEF Answer
<1> QED BY <1>1, <1>2 DEF Respond, Typed, TypeOK, Stages

LEMMA NextItemTyped ==
    ASSUME Typed, NEW h \in Handlers, NextItem(h)
    PROVE  /\ pc' \in [Handlers -> Stages] /\ item' \in [Handlers -> Nat]
           /\ \A g \in Handlers : item'[g] \in DOMAIN Items[g[1]]
           /\ reply' = reply
           /\ \A g \in Handlers : g # h => pc'[g] = pc[g] /\ item'[g] = item[g]
           /\ \/ pc'[h] = "key" /\ item'[h] = item[h] + 1
              \/ pc'[h] = "commit" /\ item'[h] = item[h]
<1>1. item[h] \in 1 .. Len(Items[h[1]]) /\ Len(Items[h[1]]) \in Nat
  BY NewRow DEF Typed
<1>2. DOMAIN Items[h[1]] = 1 .. Len(Items[h[1]])
  BY HandlerParts, ItemsTyped
<1>3. /\ pc \in [Handlers -> Stages] /\ item \in [Handlers -> Nat]
      /\ \A g \in Handlers : item[g] \in DOMAIN Items[g[1]]
  BY DEF Typed, TypeOK
<1>4. CASE item[h] < Len(Items[h[1]])
  <2>1. /\ item' = [item EXCEPT ![h] = item[h] + 1] /\ reply' = reply
        /\ pc' = [pc EXCEPT ![h] = "key"]
    BY <1>4 DEF NextItem
  <2>2. item[h] + 1 \in DOMAIN Items[h[1]] /\ item[h] + 1 \in Nat
    BY <1>1, <1>2, <1>4
  <2> QED BY <1>3, <2>1, <2>2 DEF Stages
<1>5. CASE ~(item[h] < Len(Items[h[1]]))
  <2>1. item' = item /\ reply' = reply /\ pc' = [pc EXCEPT ![h] = "commit"]
    BY <1>5 DEF NextItem
  <2> QED BY <1>3, <2>1 DEF Stages
<1> QED BY <1>4, <1>5

LEMMA InsertTyped ==
    ASSUME Typed, NEW h \in Handlers, NEW new \in SUBSET Rows, NEW stage \in Stages,
           Insert(h, new, stage)
    PROVE  /\ status' \in [Rows -> Status] /\ during' \in [Handlers -> SUBSET Rows]
           /\ pc' \in [Handlers -> Stages] /\ pc' = [pc EXCEPT ![h] = stage]
           /\ item' = item /\ reply' = reply /\ cached' = cached
<1>1. status' = [r \in Rows |-> IF r \in new THEN Initial(r) ELSE status[r]]
  BY DEF Insert
<1>2. status' \in [Rows -> Status]
  BY <1>1 DEF Initial, Status, Active, Typed, TypeOK
<1>3. during' \in [Handlers -> SUBSET Rows]
  BY DEF Insert, Typed, TypeOK
<1> QED BY <1>2, <1>3, GotoTyped DEF Insert

LEMMA MovesTyped ==
    ASSUME NEW s \in Status, NEW to \in Status, <<s, to>> \in Moves
    PROVE  s \notin {"ABSENT", "GONE"} /\ to # "ABSENT"
<1>1. PICK m \in Life!Moves \ Life!Inserted : s = Abridged(m[1]) /\ to = Abridged(m[2])
  BY DEF Moves
<1>2. m[1] # "ABSENT" /\ m[1] # "GONE" /\ m[2] # "ABSENT"
  BY DEF Life!Moves, Life!Inserted, Life!Queued, Life!Executed, Life!Cancelled, Life!Cleared,
         Life!Existing
<1> QED BY <1>1, <1>2 DEF Abridged

(* The steps that neither a handler nor its answer takes part in. *)
LEMMA OutsideTyped ==
    ASSUME Typed,
           \/ \E c \in Calls : Call(c) \/ Receive(c) \/ ConnectionFails(c)
           \/ \E h \in Handlers : Dies(h)
           \/ \E r \in Rows : Live(r)
           \/ \E k \in Keys : KeyExpires(k)
    PROVE  Typed'
<1> USE DEF Typed, TypeOK, Placed
<1>1. ASSUME NEW c \in Calls, Call(c) PROVE Typed'
  <2>1. <<c, 1>> \in Handlers
    BY AttemptsAssumption DEF Handlers
  <2>2. /\ pc' = [pc EXCEPT ![<<c, 1>>] = "key"] /\ pc' \in [Handlers -> Stages]
        /\ attempt' \in [Calls -> 0 .. Attempts] /\ before' \in [Calls -> SUBSET Rows]
    BY <1>1, <2>1, AttemptsAssumption DEF Call, Stages, Answer
  <2> QED BY <1>1, <2>1, <2>2 DEF Call, Wanted
<1>2. ASSUME NEW c \in Calls, Receive(c) PROVE Typed'
  <2>1. <<c, attempt[c]>> \in Handlers
    BY <1>2, AttemptsAssumption DEF Receive, Open, Handlers
  <2> QED BY <1>2, <2>1 DEF Receive, handler, Wanted
<1>3. ASSUME NEW c \in Calls, ConnectionFails(c) PROVE Typed'
  <2> DEFINE h == <<c, attempt[c]>>
             g == <<c, attempt[c] + 1>>
  <2>1. h \in Handlers
    BY <1>3, AttemptsAssumption DEF ConnectionFails, Open, Handlers
  <2>2. PICK left \in {pc, [pc EXCEPT ![h] = "done"]} :
           \/ /\ attempt[c] < Sends(c)
              /\ attempt' = [attempt EXCEPT ![c] = @ + 1]
              /\ pc' = [left EXCEPT ![g] = "key"]
              /\ answer' = answer
           \/ /\ answer' = [answer EXCEPT ![c] = [code |-> "unavailable", rows |-> {}]]
              /\ pc' = left /\ attempt' = attempt
    BY <1>3 DEF ConnectionFails
  <2>3. left \in [Handlers -> Stages]
    BY <2>1, <2>2 DEF Stages
  <2>4. attempt[c] < Sends(c) => g \in Handlers /\ attempt[c] + 1 \in 0 .. Attempts
    BY AttemptsAssumption DEF Sends, Handlers
  <2>5. /\ pc' \in [Handlers -> Stages] /\ attempt' \in [Calls -> 0 .. Attempts]
        /\ answer' \in [Calls -> Answer]
        /\ \A f \in Handlers : pc'[f] \in {pc[f], "done", "key"}
    <3>1. left \in [Handlers -> Stages] /\ \A f \in Handlers : left[f] \in {pc[f], "done"}
      BY <2>1, <2>2, <2>3
    <3>2. [code |-> "unavailable", rows |-> {}] \in Answer /\ "key" \in Stages
      BY DEF Answer, Codes, Stages
    <3>3. CASE /\ attempt[c] < Sends(c)
               /\ attempt' = [attempt EXCEPT ![c] = @ + 1]
               /\ pc' = [left EXCEPT ![g] = "key"] /\ answer' = answer
      <4>1. g \in Handlers /\ attempt[c] + 1 \in 0 .. Attempts
        BY <2>4, <3>3
      <4> HIDE DEF g
      <4> QED BY <3>1, <3>2, <3>3, <4>1
    <3>4. CASE /\ answer' = [answer EXCEPT ![c] = [code |-> "unavailable", rows |-> {}]]
               /\ pc' = left /\ attempt' = attempt
      BY <3>1, <3>2, <3>4
    <3> QED BY <2>2, <3>3, <3>4
  <2>6. /\ UNCHANGED <<status, stored, sent, item, cached, made, reply, before, during, shaken, moves>>
        /\ faults' \in 0 .. MaxFaults
    BY <1>3, FaultTyped DEF ConnectionFails
  <2>7. TypeOK'
    BY <2>5, <2>6
  <2> QED BY <2>5, <2>6, <2>7 DEF Wanted
<1>4. ASSUME NEW h \in Handlers, Dies(h) PROVE Typed'
  BY <1>4, FaultTyped DEF Dies, client, Stages, Wanted
<1>5. ASSUME NEW r \in Rows, Live(r) PROVE Typed'
  <2>1. PICK to \in Status : /\ status' = [status EXCEPT ![r] = to]
                             /\ moves < MaxMoves /\ moves' = moves + 1
    BY <1>5 DEF Live
  <2>2. during' \in [Handlers -> SUBSET Rows]
    BY <1>5 DEF Live
  <2>3. shaken' \in SUBSET Keys
    BY <1>5, RowParts DEF Live, Item
  <2> QED
    BY <1>5, <2>1, <2>2, <2>3, BoundsAssumption DEF Live, handler, client, Wanted
<1>6. ASSUME NEW k \in Keys, KeyExpires(k) PROVE Typed'
  BY <1>6, FaultTyped DEF KeyExpires, handler, client, Wanted
<1> QED BY <1>1, <1>2, <1>3, <1>4, <1>5, <1>6

(* The steps of a handler. *)
LEMMA HandlerTyped ==
    ASSUME Typed, NEW h \in Handlers, HandlerStep(h)
    PROVE  Typed'
<1> USE DEF Typed, TypeOK, Placed
<1>0. /\ New(h) \in Rows /\ Wanted(h) \in Item /\ Fresh(h) \in SUBSET Rows
      /\ pc[h] = "row" => cached[h] \in Rows
  BY NewRow
<1>1. CASE LookUp(h)
  <2>1. /\ cached' \in [Handlers -> Rows \cup {NoRow}]
        /\ \A g \in Handlers : g # h => cached'[g] = cached[g]
        /\ shaken' \in SUBSET Keys /\ faults' \in 0 .. MaxFaults
    BY <1>0, <1>1, FaultTyped DEF LookUp, Item
  <2>2. Goto(h, IF cached'[h] = NoRow THEN "dup" ELSE "row")
    BY <1>1 DEF LookUp
  <2>3. /\ pc' = [pc EXCEPT ![h] = IF cached'[h] = NoRow THEN "dup" ELSE "row"]
        /\ pc' \in [Handlers -> Stages] /\ item' = item /\ reply' = reply
    BY <2>2, GotoTyped DEF Stages
  <2>4. UNCHANGED <<status, stored, sent, made, client, during, moves>>
    BY <1>1 DEF LookUp
  <2> QED BY <2>1, <2>3, <2>4 DEF client, Wanted
<1>2. CASE Recall(h)
  <2>0. UNCHANGED <<status, stored, sent, client, faults, during, shaken, moves>>
    BY <1>2 DEF Recall
  <2>1. CASE Goto(h, "dup") /\ UNCHANGED <<cached, made>>
    BY <2>0, <2>1, GotoTyped DEF client, Wanted, Stages
  <2>2. CASE made' = [made EXCEPT ![h] = @ \cup {cached[h]}] /\ NextItem(h) /\ UNCHANGED cached
    <3>1. made' \in [Handlers -> SUBSET Rows]
      BY <1>0, <1>2, <2>2 DEF Recall
    <3> QED BY <2>0, <2>2, <3>1, NextItemTyped DEF client, Wanted
  <2>3. CASE Respond(h, "ok", {cached[h]})
    <3>1. "ok" \in Codes /\ {cached[h]} \in SUBSET Rows
      BY <1>0, <1>2 DEF Recall, Codes
    <3> QED BY <2>0, <2>3, <3>1, RespondTyped DEF client, Wanted
  <2> QED BY <1>2, <2>1, <2>2, <2>3 DEF Recall
<1>3. CASE CheckDuplicate(h)
  <2>0. UNCHANGED <<status, stored, sent, client, faults, during, shaken, moves>>
    BY <1>3 DEF CheckDuplicate
  <2>1. CASE Goto(h, "insert") /\ UNCHANGED <<cached, made>>
    BY <2>0, <2>1, GotoTyped DEF client, Wanted, Stages
  <2>2. CASE NextItem(h) /\ UNCHANGED <<cached, made>>
    BY <2>0, <2>2, NextItemTyped DEF client, Wanted
  <2>3. CASE Respond(h, "conflict", {})
    BY <2>0, <2>3, RespondTyped DEF client, Wanted, Codes
  <2> QED BY <1>3, <2>1, <2>2, <2>3 DEF CheckDuplicate
<1>4. ASSUME NEW new \in SUBSET Rows, Rollback(h, new),
             UNCHANGED <<stored, sent, client, shaken, moves>>
      PROVE  Typed'
  <2>1. /\ Respond(h, "error", {}) /\ UNCHANGED <<status, during>>
        /\ faults' \in 0 .. MaxFaults
    BY <1>4, FaultTyped DEF Rollback
  <2> QED BY <1>4, <2>1, RespondTyped DEF client, Wanted, Codes
<1>5. CASE AddOne(h)
  <2>1. CASE Rollback(h, {New(h)})
    BY <1>0, <1>4, <1>5, <2>1 DEF AddOne
  <2>2. CASE /\ Insert(h, {New(h)}, IF Wanted(h).key = NoKey THEN "publish" ELSE "store")
             /\ made' = [made EXCEPT ![h] = {New(h)}]
    <3> DEFINE stage == IF Wanted(h).key = NoKey THEN "publish" ELSE "store"
    <3>1. stage \in Stages /\ {New(h)} \in SUBSET Rows
      BY <1>0 DEF Stages
    <3>2. /\ status' \in [Rows -> Status] /\ during' \in [Handlers -> SUBSET Rows]
          /\ pc' \in [Handlers -> Stages] /\ pc' = [pc EXCEPT ![h] = stage]
          /\ item' = item /\ reply' = reply /\ cached' = cached
      BY <2>2, <3>1, InsertTyped
    <3>3. made' \in [Handlers -> SUBSET Rows] /\ faults' = faults
      BY <1>0, <2>2 DEF Insert, Sound
    <3>4. UNCHANGED <<stored, sent, client, shaken, moves>>
      BY <1>5 DEF AddOne
    <3> HIDE DEF stage
    <3>5. TypeOK'
      BY <3>2, <3>3, <3>4 DEF client
    <3>6. Placed'
      BY <3>2, <3>4 DEF Wanted, stage
    <3> QED BY <3>5, <3>6
  <2> QED BY <1>5, <2>1, <2>2 DEF AddOne
<1>6. CASE AddToBatch(h)
  <2>1. made' \in [Handlers -> SUBSET Rows]
    BY <1>0, <1>6 DEF AddToBatch
  <2>2. UNCHANGED <<status, stored, sent, cached, client, faults, during, shaken, moves>>
    BY <1>6 DEF AddToBatch
  <2>3. CASE NextItem(h)
    BY <2>1, <2>2, <2>3, NextItemTyped DEF client, Wanted
  <2>4. CASE Wanted(h).key # NoKey /\ Goto(h, "store")
    <3>1. "store" \in Stages
      BY DEF Stages
    <3> QED BY <2>1, <2>2, <2>4, <3>1, GotoTyped DEF client, Wanted
  <2> QED BY <1>6, <2>3, <2>4 DEF AddToBatch
<1>7. CASE StoreKey(h)
  <2>1. Wanted(h).key \in Keys
    BY <1>0, <1>7 DEF StoreKey, Item
  <2>2. /\ stored' \in [Keys -> Rows \cup {NoRow}] /\ shaken' \in SUBSET Keys
        /\ faults' \in 0 .. MaxFaults
    BY <1>0, <1>7, <2>1, FaultTyped DEF StoreKey
  <2>3. UNCHANGED <<status, sent, cached, made, client, during, moves>>
    BY <1>7 DEF StoreKey
  <2>4. CASE NextItem(h)
    BY <2>2, <2>3, <2>4, NextItemTyped DEF client, Wanted
  <2>5. CASE Goto(h, "publish")
    <3>1. "publish" \in Stages
      BY DEF Stages
    <3> QED BY <2>2, <2>3, <2>5, <3>1, GotoTyped DEF client, Wanted
  <2> QED BY <1>7, <2>4, <2>5 DEF StoreKey
<1>8. CASE CommitBatch(h)
  <2>1. CASE Rollback(h, Fresh(h))
    BY <1>0, <1>4, <1>8, <2>1 DEF CommitBatch
  <2>2. CASE Insert(h, Fresh(h), "publish") /\ UNCHANGED made
    <3>1. "publish" \in Stages
      BY DEF Stages
    <3>2. UNCHANGED <<stored, sent, client, shaken, moves>> /\ faults' = faults
      BY <1>8, <2>2 DEF CommitBatch, Insert, Sound
    <3>3. /\ status' \in [Rows -> Status] /\ during' \in [Handlers -> SUBSET Rows]
          /\ pc' \in [Handlers -> Stages] /\ pc' = [pc EXCEPT ![h] = "publish"]
          /\ item' = item /\ reply' = reply /\ cached' = cached /\ made' = made
      BY <1>0, <2>2, <3>1, InsertTyped
    <3>4. TypeOK'
      BY <3>2, <3>3 DEF client
    <3>5. Placed'
      BY <3>3 DEF Wanted
    <3> QED BY <3>4, <3>5
  <2> QED BY <1>8, <2>1, <2>2 DEF CommitBatch
<1>9. CASE Publish(h)
  <2> DEFINE found == {r \in made[h] : Exists(r)}
             code  == IF Batch(h) \/ found # {} THEN "ok" ELSE "error"
  <2>1. code \in Codes /\ found \in SUBSET Rows /\ Respond(h, code, found)
    BY <1>9 DEF Publish, Codes
  <2>2. sent' \in SUBSET Rows
    BY <1>0, <1>9 DEF Publish
  <2>3. UNCHANGED <<status, stored, client, faults, during, shaken, moves>>
    BY <1>9 DEF Publish
  <2> HIDE DEF found, code
  <2> QED BY <2>1, <2>2, <2>3, RespondTyped DEF client, Wanted
<1> QED
  BY <1>1, <1>2, <1>3, <1>5, <1>6, <1>7, <1>8, <1>9 DEF HandlerStep

LEMMA StutterTyped == Typed /\ UNCHANGED vars => Typed'
  BY DEF Typed, TypeOK, Placed, vars, handler, client, Wanted

LEMMA StepTyped == Typed /\ [Next]_vars => Typed'
  BY OutsideTyped, HandlerTyped, StutterTyped DEF Next

(* Every reachable state is well typed: in particular a handler is always at  *)
(* an item of its request, and only names of rows are stored and answered.    *)
THEOREM Typing == Spec => []TypeOK
<1>1. Typed => TypeOK
  BY DEF Typed
<1> QED BY <1>1, InitTyped, StepTyped, PTL DEF Spec

-----------------------------------------------------------------------------
(* One row per key.  Rows come to exist only by a commit, which the unique    *)
(* index guards; a row that is gone does not come back.                       *)

Commits(new) ==
    /\ Unique(new)
    /\ status' = [r \in Rows |-> IF r \in new THEN Initial(r) ELSE status[r]]

Ages(r) == \E to \in Status : /\ <<status[r], to>> \in Moves
                              /\ status' = [status EXCEPT ![r] = to]

LEMMA StatusChanges ==
    ASSUME Typed, [Next]_vars
    PROVE  \/ status' = status
           \/ \E new \in SUBSET Rows : Commits(new)
           \/ \E r \in Rows : Ages(r)
<1>1. ASSUME NEW c \in Calls, Call(c) \/ Receive(c) \/ ConnectionFails(c) PROVE status' = status
  BY <1>1 DEF Call, Receive, ConnectionFails
<1>2. ASSUME NEW h \in Handlers, HandlerStep(h) \/ Dies(h)
      PROVE  status' = status \/ \E new \in SUBSET Rows : Commits(new)
  <2>1. CASE LookUp(h) \/ Recall(h) \/ CheckDuplicate(h) \/ AddToBatch(h) \/ StoreKey(h)
             \/ Publish(h) \/ Dies(h)
    BY <2>1 DEF LookUp, Recall, CheckDuplicate, AddToBatch, StoreKey, Publish, Dies
  <2>2. CASE AddOne(h) \/ CommitBatch(h)
    <3>1. New(h) \in Rows /\ Fresh(h) \in SUBSET Rows
      BY NewRow DEF Typed
    <3> QED BY <2>2, <3>1 DEF AddOne, CommitBatch, Insert, Rollback, Commits
  <2> QED BY <1>2, <2>1, <2>2 DEF HandlerStep
<1>3. ASSUME NEW r \in Rows, Live(r) PROVE Ages(r)
  BY <1>3 DEF Live, Ages
<1>4. ASSUME NEW k \in Keys, KeyExpires(k) PROVE status' = status
  BY <1>4 DEF KeyExpires
<1> QED BY <1>1, <1>2, <1>3, <1>4 DEF Next, vars

LEMMA InitUnique == Init => OneRowPerKey
  BY DEF Init, OneRowPerKey, Exists

LEMMA StepUnique == Typed /\ OneRowPerKey /\ [Next]_vars => OneRowPerKey'
<1> SUFFICES ASSUME Typed, OneRowPerKey, [Next]_vars,
                    NEW r \in Rows, NEW s \in Rows,
                    Exists(r)', Exists(s)', Ask(r).key = Ask(s).key, Ask(r).key # NoKey
             PROVE  r = s
  BY DEF OneRowPerKey, Ask
<1>1. CASE status' = status
  BY <1>1 DEF OneRowPerKey, Exists
<1>2. ASSUME NEW new \in SUBSET Rows, Commits(new) PROVE r = s
  <2>1. CASE r \in new \/ s \in new
    <3>1. \A x, y \in Rows : x \in new /\ (y \in new \/ Exists(y)) /\ x # y
                            /\ Ask(x).key # NoKey => Ask(x).key # Ask(y).key
      BY <1>2 DEF Commits, Unique
    <3>2. (r \in new \/ Exists(r)) /\ (s \in new \/ Exists(s))
      BY <1>2 DEF Commits, Exists
    <3> QED BY <2>1, <3>1, <3>2
  <2>2. CASE r \notin new /\ s \notin new
    BY <1>2, <2>2 DEF Commits, Exists, OneRowPerKey
  <2> QED BY <2>1, <2>2
<1>3. ASSUME NEW q \in Rows, Ages(q) PROVE r = s
  <2>1. PICK to \in Status : <<status[q], to>> \in Moves /\ status' = [status EXCEPT ![q] = to]
    BY <1>3 DEF Ages
  <2>2. Exists(q)
    BY <2>1, MovesTyped DEF Exists, Typed, TypeOK
  <2>3. \A x \in Rows : Exists(x)' => Exists(x)
    BY <2>1, <2>2 DEF Exists, Typed, TypeOK
  <2> QED BY <2>3 DEF OneRowPerKey
<1> QED BY <1>1, <1>2, <1>3, StatusChanges

(* A key belongs to at most one task that exists.                             *)
THEOREM UniqueKeys == Spec => []OneRowPerKey
  BY InitTyped, StepTyped, InitUnique, StepUnique, PTL DEF Spec

-----------------------------------------------------------------------------
(* What is named is committed.  A handler holds uncommitted rows only in a    *)
(* batch, and only until it publishes.                                        *)

Committed(r) == status[r] # "ABSENT"

Kept(h) == \A r \in made[h] : \/ Committed(r)
                              \/ Batch(h) /\ r \in Fresh(h) /\ pc[h] # "publish"

NamedInv ==
    /\ NamedIsCommitted
    /\ \A h \in Handlers : Kept(h) /\ \A r \in reply[h].rows : Committed(r)

LEMMA CommittedStays ==
    ASSUME Typed, [Next]_vars, NEW r \in Rows, Committed(r)
    PROVE  Committed(r)'
<1>1. ASSUME NEW new \in SUBSET Rows, Commits(new) PROVE Committed(r)'
  BY <1>1 DEF Commits, Initial, Committed
<1>2. ASSUME NEW q \in Rows, Ages(q) PROVE Committed(r)'
  BY <1>2, MovesTyped DEF Ages, Committed, Typed, TypeOK
<1> QED BY <1>1, <1>2, StatusChanges DEF Committed

LEMMA InitNamed == Init => NamedInv
  BY DEF Init, NamedInv, NamedIsCommitted, Kept, Unanswered

(* A handler leaves the others alone. *)
LEMMA OthersAlone ==
    ASSUME Typed, NEW h \in Handlers, HandlerStep(h), NEW g \in Handlers, g # h
    PROVE  /\ pc'[g] = pc[g] /\ item'[g] = item[g] /\ cached'[g] = cached[g]
           /\ made'[g] = made[g] /\ reply'[g] = reply[g]
<1> USE DEF Typed, TypeOK
<1>1. CASE LookUp(h)
  BY <1>1 DEF LookUp, Goto
<1>2. CASE Recall(h) \/ CheckDuplicate(h)
  BY <1>2 DEF Recall, CheckDuplicate, Goto, NextItem, Respond
<1>3. CASE AddOne(h) \/ CommitBatch(h)
  BY <1>3 DEF AddOne, CommitBatch, Insert, Rollback, Goto, Respond
<1>4. CASE AddToBatch(h) \/ StoreKey(h)
  BY <1>4 DEF AddToBatch, StoreKey, NextItem, Goto
<1>5. CASE Publish(h)
  BY <1>5 DEF Publish, Respond
<1> QED BY <1>1, <1>2, <1>3, <1>4, <1>5 DEF HandlerStep

LEMMA AnswersNamed ==
    ASSUME NamedInv, NEW c \in Calls, NEW h \in Handlers
    PROVE  /\ \A r \in answer[c].rows : Committed(r)
           /\ \A r \in reply[h].rows : Committed(r)
           /\ \A r \in sent : Committed(r) /\ Kept(h)
  BY DEF NamedInv, NamedIsCommitted, Committed

(* What a handler has at hand after its step, what it has answered, and what  *)
(* it has announced. *)
LEMMA HandlerNamed ==
    ASSUME Typed, NamedInv, [Next]_vars, NEW h \in Handlers, HandlerStep(h)
    PROVE  /\ Kept(h)' /\ \A r \in reply'[h].rows : Committed(r)'
           /\ \A r \in sent' \ sent : Committed(r)'
           /\ answer' = answer
<1>b. ASSUME \A r \in made'[h] : \/ status'[r] # "ABSENT"
                                 \/ Batch(h) /\ r[1] = h[1] /\ r[2] = h[2] /\ pc'[h] # "publish"
      PROVE  Kept(h)'
  <2>1. Fresh(h)' = {r \in made'[h] : r[1] = h[1] /\ r[2] = h[2]} /\ Batch(h)' = Batch(h)
    BY DEF Fresh, Batch
  <2> QED BY <1>b, <2>1 DEF Kept, Committed
<1> USE DEF Typed, TypeOK
<1>0. /\ New(h) \in Rows /\ Fresh(h) \in SUBSET Rows /\ made[h] \in SUBSET Rows
      /\ reply[h].rows \in SUBSET Rows
  BY NewRow DEF Answer
<1>a. /\ \A r \in Rows : Committed(r) => Committed(r)'
      /\ \A r \in made[h] : Committed(r) \/ (Batch(h) /\ r \in Fresh(h) /\ pc[h] # "publish")
      /\ \A r \in reply[h].rows : Committed(r)
  BY CommittedStays DEF NamedInv, Kept
<1>c. \A r \in Fresh(h) : r \in made[h] /\ r[1] = h[1] /\ r[2] = h[2]
  BY DEF Fresh
(* the four ways the local state goes on *)
<1>d. ASSUME NEW stage \in Stages, stage # "publish", Goto(h, stage), made' = made
      PROVE  Kept(h)' /\ \A r \in reply'[h].rows : Committed(r)'
  BY <1>0, <1>a, <1>b, <1>c, <1>d DEF Goto, Committed
<1>e. ASSUME NextItem(h), made' = made
      PROVE  Kept(h)' /\ \A r \in reply'[h].rows : Committed(r)'
  BY <1>0, <1>a, <1>b, <1>c, <1>e, NextItemTyped DEF Committed
<1>f. ASSUME NEW code \in Codes, NEW rows \in SUBSET Rows, Respond(h, code, rows),
             \A r \in rows : Committed(r)'
      PROVE  Kept(h)' /\ \A r \in reply'[h].rows : Committed(r)'
  BY <1>0, <1>a, <1>b, <1>f DEF Respond
<1>1. CASE LookUp(h)
  <2>1. Goto(h, IF cached'[h] = NoRow THEN "dup" ELSE "row") /\ UNCHANGED <<made, sent, client>>
    BY <1>1 DEF LookUp
  <2> QED BY <2>1, <1>d DEF Stages, client
<1>2. CASE Recall(h)
  <2>0. UNCHANGED <<sent, client>> /\ (pc[h] = "row" /\ cached[h] \in Rows)
    BY <1>2 DEF Recall, Placed
  <2>q. PICK q \in Rows : q = cached[h]
    BY <2>0
  <2>1. CASE Goto(h, "dup") /\ UNCHANGED <<cached, made>>
    BY <2>0, <2>1, <1>d DEF Stages, client
  <2>2. CASE Exists(q) /\ Batch(h) /\ made' = [made EXCEPT ![h] = @ \cup {q}] /\ NextItem(h)
    <3>1. Committed(q)'
      BY <2>2, <1>a DEF Exists, Committed
    <3>2. made'[h] = made[h] \cup {q} /\ pc'[h] # "publish" /\ reply' = reply
      BY <2>2, NextItemTyped
    <3> QED BY <1>0, <1>a, <1>b, <1>c, <2>0, <2>2, <3>1, <3>2 DEF client, Committed
  <2>3. CASE Exists(q) /\ Respond(h, "ok", {q})
    <3>1. Committed(q)' /\ "ok" \in Codes
      BY <2>3, <1>a DEF Exists, Committed, Codes
    <3> QED BY <2>0, <2>3, <3>1, <1>f DEF client
  <2> QED BY <1>2, <2>q, <2>1, <2>2, <2>3 DEF Recall
<1>3. CASE CheckDuplicate(h)
  <2>1. UNCHANGED <<sent, client>> /\ "dup" \in Stages /\ "insert" \in Stages /\ "conflict" \in Codes
    BY <1>3 DEF CheckDuplicate, Stages, Codes
  <2> QED BY <1>3, <2>1, <1>d, <1>e, <1>f DEF CheckDuplicate, client
<1>4. ASSUME NEW new \in SUBSET Rows, Rollback(h, new), UNCHANGED <<sent, client>>
      PROVE  /\ Kept(h)' /\ (\A r \in reply'[h].rows : Committed(r)')
             /\ sent' = sent /\ answer' = answer
  BY <1>4, <1>f DEF Rollback, Codes, client
<1>5. CASE AddOne(h)
  <2>1. UNCHANGED <<sent, client>>
    BY <1>5 DEF AddOne
  <2>2. CASE Rollback(h, {New(h)})
    BY <1>0, <1>4, <2>1, <2>2
  <2>3. CASE /\ Insert(h, {New(h)}, IF Wanted(h).key = NoKey THEN "publish" ELSE "store")
             /\ made' = [made EXCEPT ![h] = {New(h)}]
    <3>q. PICK q \in Rows : q = New(h)
      BY <1>0
    <3>1. Committed(q)' /\ made'[h] = {q} /\ reply' = reply
      BY <2>3, <3>q DEF Insert, Initial, Committed, Goto
    <3> QED BY <1>0, <1>a, <1>b, <2>1, <3>1 DEF client, Committed
  <2> QED BY <1>5, <2>2, <2>3 DEF AddOne
<1>6. CASE AddToBatch(h)
  <2>q. PICK q \in Rows : q = New(h)
    BY <1>0
  <2>1. Batch(h) /\ made'[h] = made[h] \cup {q} /\ UNCHANGED <<sent, client>>
    BY <1>6, <2>q DEF AddToBatch
  <2>2. pc'[h] # "publish" /\ reply' = reply
    BY <1>6, NextItemTyped DEF AddToBatch, Goto
  <2>3. q[1] = h[1] /\ q[2] = h[2]
    BY <2>q DEF New
  <2> QED BY <1>0, <1>a, <1>b, <1>c, <2>1, <2>2, <2>3 DEF client, Committed
<1>7. CASE StoreKey(h)
  <2>1. UNCHANGED <<made, sent, client>>
    BY <1>7 DEF StoreKey
  <2>2. CASE NextItem(h)
    BY <2>1, <2>2, <1>e DEF client
  <2>3. CASE ~Batch(h) /\ Goto(h, "publish")
    <3>1. reply' = reply /\ \A r \in made[h] : Committed(r)'
      BY <1>0, <1>a, <2>3 DEF Goto
    <3> QED BY <1>0, <1>a, <1>b, <2>1, <3>1 DEF client, Committed
  <2> QED BY <1>7, <2>2, <2>3 DEF StoreKey
<1>8. CASE CommitBatch(h)
  <2>1. UNCHANGED <<sent, client>>
    BY <1>8 DEF CommitBatch
  <2>2. CASE Rollback(h, Fresh(h))
    BY <1>0, <1>4, <2>1, <2>2
  <2>3. CASE Insert(h, Fresh(h), "publish") /\ UNCHANGED made
    <3>1. /\ reply' = reply
          /\ status' = [r \in Rows |-> IF r \in Fresh(h) THEN Initial(r) ELSE status[r]]
      BY <2>3 DEF Insert, Goto
    <3>2. \A r \in Fresh(h) : Committed(r)'
      BY <1>0, <3>1 DEF Initial, Committed
    <3> QED BY <1>0, <1>a, <1>b, <2>1, <2>3, <3>1, <3>2 DEF client, Committed
  <2> QED BY <1>8, <2>2, <2>3 DEF CommitBatch
<1>9. CASE Publish(h)
  <2> DEFINE found == {r \in made[h] : Exists(r)}
             code  == IF Batch(h) \/ found # {} THEN "ok" ELSE "error"
  <2>1. code \in Codes /\ found \in SUBSET Rows /\ Respond(h, code, found)
    BY <1>9 DEF Publish, Codes
  <2>2. \A r \in made[h] : Committed(r)'
    BY <1>0, <1>9, <1>a DEF Publish
  <2>3. \A r \in found : Committed(r)'
    BY <2>2
  <2>4. sent' \ sent \subseteq Fresh(h) /\ UNCHANGED client
    BY <1>9 DEF Publish
  <2> HIDE DEF found, code
  <2> QED BY <1>c, <1>f, <2>1, <2>2, <2>3, <2>4 DEF client
<1> QED
  BY <1>1, <1>2, <1>3, <1>5, <1>6, <1>7, <1>8, <1>9 DEF HandlerStep

LEMMA StepNamed == Typed /\ NamedInv /\ [Next]_vars => NamedInv'
<1> SUFFICES ASSUME Typed, NamedInv, [Next]_vars PROVE NamedInv'
  OBVIOUS
<1> USE DEF Typed, TypeOK
<1>1. \A r \in Rows : Committed(r) => Committed(r)'
  BY CommittedStays
<1>2. /\ \A c \in Calls : answer[c].rows \in SUBSET Rows /\ \A r \in answer[c].rows : Committed(r)
      /\ \A h \in Handlers : reply[h].rows \in SUBSET Rows /\ \A r \in reply[h].rows : Committed(r)
      /\ \A r \in sent : r \in Rows /\ Committed(r)
      /\ \A h \in Handlers : made[h] \in SUBSET Rows
  BY DEF NamedInv, NamedIsCommitted, Committed, Answer
<1>3. ASSUME NEW h \in Handlers, made'[h] = made[h], pc[h] = "publish" \/ pc'[h] # "publish"
      PROVE  Kept(h)'
  <2>1. Kept(h)
    BY DEF NamedInv
  <2> QED BY <1>1, <1>2, <1>3, <2>1 DEF Kept, Fresh, Batch
<1>4. ASSUME NEW h \in Handlers, HandlerStep(h) PROVE NamedInv'
  <2>1. /\ Kept(h)' /\ (\A r \in reply'[h].rows : Committed(r)')
        /\ (\A r \in sent' \ sent : Committed(r)') /\ answer' = answer
    BY <1>4, HandlerNamed
  <2>2. \A g \in Handlers : g # h => Kept(g)' /\ \A r \in reply'[g].rows : Committed(r)'
    BY <1>1, <1>2, <1>3, <1>4, OthersAlone
  <2>3. \A g \in Handlers : Kept(g)' /\ \A r \in reply'[g].rows : Committed(r)'
    BY <2>1, <2>2
  <2>4. NamedIsCommitted'
    BY <1>1, <1>2, <2>1 DEF NamedIsCommitted, Committed
  <2> QED BY <2>3, <2>4 DEF NamedInv
<1>5. ASSUME made' = made, reply' = reply, sent' = sent,
             \A h \in Handlers : pc[h] = "publish" \/ pc'[h] # "publish",
             \A c \in Calls : \A r \in answer'[c].rows : r \in Rows /\ Committed(r)
      PROVE  NamedInv'
  <2>1. \A h \in Handlers : Kept(h)'
    BY <1>3, <1>5
  <2>2. NamedIsCommitted'
    BY <1>1, <1>2, <1>5 DEF NamedIsCommitted, Committed
  <2> QED BY <1>1, <1>2, <1>5, <2>1, <2>2 DEF NamedInv
<1>6. ASSUME NEW c \in Calls, Call(c) PROVE NamedInv'
  <2>1. <<c, 1>> \in Handlers
    BY AttemptsAssumption DEF Handlers
  <2> QED BY <1>2, <1>5, <1>6, <2>1 DEF Call
<1>7. ASSUME NEW c \in Calls, Receive(c) PROVE NamedInv'
  <2>1. <<c, attempt[c]>> \in Handlers
    BY <1>7, AttemptsAssumption DEF Receive, Open, Handlers
  <2>2. \A d \in Calls : answer'[d] \in {answer[d], reply[<<c, attempt[c]>>]}
    BY <1>7 DEF Receive
  <2> QED BY <1>2, <1>5, <1>7, <2>1, <2>2 DEF Receive, handler
<1>8. ASSUME NEW c \in Calls, ConnectionFails(c) PROVE NamedInv'
  <2>1. UNCHANGED <<made, reply, sent>>
    BY <1>8 DEF ConnectionFails
  <2>2. \A d \in Calls : answer'[d] = answer[d] \/ answer'[d].rows = {}
    BY <1>8 DEF ConnectionFails
  <2>3. \A h \in Handlers : pc'[h] \in {pc[h], "done", "key"}
    <3>1. PICK left \in {pc, [pc EXCEPT ![<<c, attempt[c]>>] = "done"]} :
             pc' = left \/ pc' = [left EXCEPT ![<<c, attempt[c] + 1>>] = "key"]
      BY <1>8 DEF ConnectionFails
    <3>2. \A h \in Handlers : left[h] \in {pc[h], "done"} /\ left \in [Handlers -> {left[g] : g \in Handlers}]
      BY <3>1
    <3> QED BY <3>1, <3>2
  <2> QED BY <1>2, <1>5, <2>1, <2>2, <2>3
<1>9. ASSUME NEW h \in Handlers, Dies(h) PROVE NamedInv'
  BY <1>2, <1>5, <1>9 DEF Dies, client
<1>10. ASSUME NEW r \in Rows, Live(r) PROVE NamedInv'
  BY <1>2, <1>5, <1>10 DEF Live, handler, client
<1>11. ASSUME NEW k \in Keys, KeyExpires(k) PROVE NamedInv'
  BY <1>2, <1>5, <1>11 DEF KeyExpires, handler, client
<1>12. CASE UNCHANGED vars
  BY <1>2, <1>5, <1>12 DEF vars, handler, client
<1> QED
  BY <1>4, <1>6, <1>7, <1>8, <1>9, <1>10, <1>11, <1>12 DEF Next

(* Whatever a client is told of and whatever is announced to the workers is   *)
(* a task that has been committed.                                            *)
THEOREM Named == Spec => []NamedIsCommitted
<1>1. NamedInv => NamedIsCommitted
  BY DEF NamedInv
<1> QED BY <1>1, InitTyped, StepTyped, InitNamed, StepNamed, PTL DEF Spec

-----------------------------------------------------------------------------
(* One answer per key.  What Redis holds under a key, what a handler has read *)
(* there, made or answered, and what a client has got are rows of keys that    *)
(* the request carries.                                                       *)

Keyed == /\ \A k \in Keys : stored[k] # NoRow => Ask(stored[k]).key = k
         /\ \A h \in Handlers : pc[h] = "row" => Ask(cached[h]).key = Wanted(h).key

KeysOf(c) == {Items[c][i].key : i \in DOMAIN Items[c]}

OfKey(rows, c) == \A r \in rows : Ask(r).key \in KeysOf(c)

Related == /\ \A h \in Handlers : OfKey(made[h], h[1]) /\ OfKey(reply[h].rows, h[1])
           /\ \A c \in Calls : OfKey(answer[c].rows, c)

LEMMA InitKeyed == Init => Keyed /\ Related
  BY DEF Init, Keyed, Related, OfKey, Unanswered

LEMMA OneItem ==
    ASSUME Typed, NEW h \in Handlers, ~Batch(h)
    PROVE  item[h] = 1 /\ Wanted(h).key = Items[h[1]][1].key
<1>1. h[1] \in Calls \ Batches
  BY HandlerParts DEF Batch
<1>2. Len(Items[h[1]]) = 1
  BY <1>1, BatchesAssumption
<1> QED BY <1>2, NewRow DEF Typed, Wanted

LEMMA OneKey ==
    ASSUME NEW c \in Calls \ Batches
    PROVE  KeysOf(c) = {Items[c][1].key}
<1>1. Len(Items[c]) = 1 /\ DOMAIN Items[c] = 1 .. Len(Items[c])
  BY BatchesAssumption, ItemsTyped
<1>2. DOMAIN Items[c] = {1}
  BY <1>1
<1> QED BY <1>2 DEF KeysOf

LEMMA HandlerKeyed ==
    ASSUME Typed, Keyed, NEW h \in Handlers, HandlerStep(h)
    PROVE  /\ \A k \in Keys : stored'[k] # NoRow => Ask(stored'[k]).key = k
           /\ pc'[h] = "row" => Ask(cached'[h]).key = Wanted(h)'.key
<1> USE DEF Typed, TypeOK
<1>1. CASE LookUp(h)
  <2>1. stored' = stored /\ Goto(h, IF cached'[h] = NoRow THEN "dup" ELSE "row")
    BY <1>1 DEF LookUp
  <2>2. pc'[h] = "row" => cached'[h] # NoRow /\ item' = item
    BY <2>1 DEF Goto
  <2>3. cached'[h] # NoRow => Wanted(h).key \in Keys /\ cached'[h] = stored[Wanted(h).key]
    BY <1>1, NewRow DEF LookUp, Item
  <2> QED BY <2>1, <2>2, <2>3 DEF Keyed, Wanted
<1>2. CASE StoreKey(h)
  <2>1. Wanted(h).key \in Keys /\ Ask(New(h)).key = Wanted(h).key
    BY <1>2, NewRow DEF StoreKey, Placed, Item
  <2>2. stored' = [stored EXCEPT ![Wanted(h).key] = New(h)] \/ stored' = stored
    BY <1>2 DEF StoreKey
  <2>3. pc'[h] # "row"
    BY <1>2, NextItemTyped DEF StoreKey, Goto
  <2> QED BY <2>1, <2>2, <2>3 DEF Keyed
<1>3. ASSUME stored' = stored, pc'[h] # "row"
      PROVE  /\ \A k \in Keys : stored'[k] # NoRow => Ask(stored'[k]).key = k
             /\ pc'[h] = "row" => Ask(cached'[h]).key = Wanted(h)'.key
  BY <1>3 DEF Keyed
<1>4. CASE Recall(h) \/ CheckDuplicate(h)
  BY <1>3, <1>4, NextItemTyped DEF Recall, CheckDuplicate, Goto, Respond
<1>5. CASE AddOne(h) \/ CommitBatch(h)
  BY <1>3, <1>5 DEF AddOne, CommitBatch, Insert, Rollback, Goto, Respond
<1>6. CASE AddToBatch(h) \/ Publish(h)
  BY <1>3, <1>6, NextItemTyped DEF AddToBatch, Publish, Goto, Respond
<1> QED
  BY <1>1, <1>2, <1>4, <1>5, <1>6 DEF HandlerStep

LEMMA HandlerRelated ==
    ASSUME Typed, Keyed, Related, NEW h \in Handlers, HandlerStep(h)
    PROVE  OfKey(made'[h], h[1]) /\ OfKey(reply'[h].rows, h[1])
<1> USE DEF Typed, TypeOK
<1>1. /\ OfKey(made[h], h[1]) /\ OfKey(reply[h].rows, h[1])
      /\ Wanted(h).key \in KeysOf(h[1]) /\ Ask(New(h)).key = Wanted(h).key
  BY NewRow, HandlerParts DEF Related, KeysOf, Wanted
<1>2. ASSUME NEW code, NEW rows, OfKey(rows, h[1]), Respond(h, code, rows)
      PROVE  OfKey(made'[h], h[1]) /\ OfKey(reply'[h].rows, h[1])
  BY <1>1, <1>2 DEF Respond, OfKey
<1>3. CASE made' = made /\ reply' = reply
  BY <1>1, <1>3
<1>4. CASE LookUp(h) \/ StoreKey(h)
  BY <1>3, <1>4 DEF LookUp, StoreKey, Goto, NextItem
<1>5. CASE Recall(h)
  <2>1. CASE Goto(h, "dup") /\ UNCHANGED <<cached, made>>
    BY <1>3, <2>1 DEF Goto
  <2>2. CASE Respond(h, "ok", {cached[h]})
    <3>1. OfKey({cached[h]}, h[1])
      BY <1>1, <1>5 DEF Recall, Keyed, OfKey
    <3> QED BY <1>2, <2>2, <3>1
  <2>3. CASE made' = [made EXCEPT ![h] = @ \cup {cached[h]}] /\ NextItem(h)
    <3>1. made'[h] = made[h] \cup {cached[h]} /\ reply' = reply
      BY <2>3 DEF NextItem
    <3> QED BY <1>1, <1>5, <3>1 DEF Recall, Keyed, OfKey
  <2> QED BY <1>5, <2>1, <2>2, <2>3 DEF Recall
<1>6. CASE CheckDuplicate(h)
  <2>1. OfKey({}, h[1])
    BY DEF OfKey
  <2> QED BY <1>2, <1>3, <1>6, <2>1 DEF CheckDuplicate, Goto, NextItem
<1>7. CASE AddOne(h)
  <2>1. CASE Rollback(h, {New(h)})
    <3>1. OfKey({}, h[1])
      BY DEF OfKey
    <3> QED BY <1>2, <2>1, <3>1 DEF Rollback
  <2>2. CASE /\ Insert(h, {New(h)}, IF Wanted(h).key = NoKey THEN "publish" ELSE "store")
             /\ made' = [made EXCEPT ![h] = {New(h)}]
    <3>1. OfKey({New(h)}, h[1])
      BY <1>1 DEF OfKey
    <3>2. made'[h] = {New(h)} /\ reply' = reply
      BY <2>2 DEF Insert, Goto
    <3> QED BY <1>1, <3>1, <3>2
  <2> QED BY <1>7, <2>1, <2>2 DEF AddOne
<1>8. CASE CommitBatch(h)
  <2>1. CASE Rollback(h, Fresh(h))
    <3>1. OfKey({}, h[1])
      BY DEF OfKey
    <3> QED BY <1>2, <2>1, <3>1 DEF Rollback
  <2>2. CASE Insert(h, Fresh(h), "publish") /\ UNCHANGED made
    BY <1>3, <2>2 DEF Insert, Goto
  <2> QED BY <1>8, <2>1, <2>2 DEF CommitBatch
<1>9. CASE Publish(h)
  <2> DEFINE found == {r \in made[h] : Exists(r)}
  <2>1. OfKey(found, h[1])
    BY <1>1 DEF OfKey
  <2>2. \E code : Respond(h, code, found)
    BY <1>9 DEF Publish
  <2> HIDE DEF found
  <2> QED BY <1>2, <2>1, <2>2
<1>10. CASE AddToBatch(h)
  <2>1. made'[h] = made[h] \cup {New(h)} /\ reply' = reply
    BY <1>10 DEF AddToBatch, NextItem, Goto
  <2> QED BY <1>1, <2>1 DEF OfKey
<1> QED
  BY <1>4, <1>5, <1>6, <1>7, <1>8, <1>9, <1>10 DEF HandlerStep

LEMMA StepKeyed == Typed /\ Keyed /\ Related /\ [Next]_vars => Keyed' /\ Related'
<1> SUFFICES ASSUME Typed, Keyed, Related, [Next]_vars PROVE Keyed' /\ Related'
  OBVIOUS
<1> USE DEF Typed, TypeOK
<1>1. ASSUME NEW h \in Handlers, HandlerStep(h) PROVE Keyed' /\ Related'
  <2>1. \A g \in Handlers : g # h => Wanted(g)' = Wanted(g)
    BY <1>1, OthersAlone DEF Wanted
  <2>2. Keyed'
    BY <1>1, <2>1, HandlerKeyed, OthersAlone DEF Keyed
  <2>3. answer' = answer
    BY <1>1 DEF HandlerStep, LookUp, Recall, CheckDuplicate, AddOne, AddToBatch, StoreKey,
               CommitBatch, Publish, client
  <2>4. \A g \in Handlers : OfKey(made'[g], g[1]) /\ OfKey(reply'[g].rows, g[1])
    BY <1>1, HandlerRelated, OthersAlone DEF Related
  <2>5. Related'
    BY <2>3, <2>4 DEF Related, OfKey
  <2> QED BY <2>2, <2>5
(* the other steps *)
<1>2. ASSUME item' = item, cached' = cached, made' = made, reply' = reply,
             \A k \in Keys : stored'[k] \in {stored[k], NoRow},
             \A h \in Handlers : pc'[h] = "row" => pc[h] = "row",
             \A c \in Calls : OfKey(answer'[c].rows, c)
      PROVE  Keyed' /\ Related'
  BY <1>2 DEF Keyed, Related, Wanted, OfKey
<1>3. \A c \in Calls : OfKey(answer[c].rows, c) /\ OfKey({}, c)
  BY DEF Related, OfKey
<1>4. ASSUME NEW c \in Calls, Call(c) PROVE Keyed' /\ Related'
  BY <1>2, <1>3, <1>4 DEF Call
<1>5. ASSUME NEW c \in Calls, Receive(c) PROVE Keyed' /\ Related'
  <2>1. <<c, attempt[c]>> \in Handlers
    BY <1>5, AttemptsAssumption DEF Receive, Open, Handlers
  <2>2. OfKey(reply[<<c, attempt[c]>>].rows, c)
    BY <2>1 DEF Related
  <2>3. \A d \in Calls : OfKey(answer'[d].rows, d)
    BY <1>3, <1>5, <2>2 DEF Receive
  <2> QED BY <1>2, <1>5, <2>3 DEF Receive, handler
<1>6. ASSUME NEW c \in Calls, ConnectionFails(c) PROVE Keyed' /\ Related'
  <2>1. PICK left \in {pc, [pc EXCEPT ![<<c, attempt[c]>>] = "done"]} :
           pc' = left \/ pc' = [left EXCEPT ![<<c, attempt[c] + 1>>] = "key"]
    BY <1>6 DEF ConnectionFails
  <2>2. \A h \in Handlers : left[h] \in {pc[h], "done"} /\ left \in [Handlers -> {left[g] : g \in Handlers}]
    BY <2>1
  <2>3. \A h \in Handlers : pc'[h] \in {pc[h], "done", "key"}
    BY <2>1, <2>2
  <2>4. \A d \in Calls : answer'[d] = answer[d] \/ answer'[d].rows = {}
    BY <1>6 DEF ConnectionFails
  <2>5. \A d \in Calls : OfKey(answer'[d].rows, d)
    BY <1>3, <2>4
  <2>6. UNCHANGED <<item, cached, made, reply, stored>>
    BY <1>6 DEF ConnectionFails
  <2> QED BY <1>2, <2>3, <2>5, <2>6
<1>7. ASSUME NEW h \in Handlers, Dies(h) PROVE Keyed' /\ Related'
  BY <1>2, <1>3, <1>7 DEF Dies, client
<1>8. ASSUME NEW r \in Rows, Live(r) PROVE Keyed' /\ Related'
  BY <1>2, <1>3, <1>8 DEF Live, handler, client
<1>9. ASSUME NEW k \in Keys, KeyExpires(k) PROVE Keyed' /\ Related'
  BY <1>2, <1>3, <1>9 DEF KeyExpires, handler, client
<1>10. CASE UNCHANGED vars
  BY <1>2, <1>3, <1>10 DEF vars, handler, client
<1> QED
  BY <1>1, <1>4, <1>5, <1>6, <1>7, <1>8, <1>9, <1>10 DEF Next

(* Requests that carry one key are answered with one task.                    *)
THEOREM OneAnswer == Spec => []SameAnswer
<1> DEFINE Inv == Typed /\ OneRowPerKey /\ NamedInv /\ Keyed /\ Related
<1>1. Init => Inv
  BY InitTyped, InitUnique, InitNamed, InitKeyed
<1>2. Inv /\ [Next]_vars => Inv'
  BY StepTyped, StepUnique, StepNamed, StepKeyed
<1>3. Inv => SameAnswer
  <2> SUFFICES ASSUME Inv, NEW c \in Calls \ Batches, NEW d \in Calls \ Batches,
                      Items[c][1].key = Items[d][1].key, Items[c][1].key # NoKey,
                      NEW r \in answer[c].rows, NEW s \in answer[d].rows,
                      status[r] # "GONE", status[s] # "GONE"
               PROVE  r = s
    BY DEF SameAnswer
  <2>1. r \in Rows /\ s \in Rows
    BY DEF Typed, TypeOK, Answer
  <2>2. Exists(r) /\ Exists(s)
    BY DEF NamedInv, NamedIsCommitted, Exists
  <2>3. Ask(r).key = Items[c][1].key /\ Ask(s).key = Items[d][1].key
    BY OneKey DEF Related, OfKey
  <2> QED BY <2>1, <2>2, <2>3 DEF OneRowPerKey
<1> QED BY <1>1, <1>2, <1>3, PTL DEF Spec

-----------------------------------------------------------------------------
(* Twins.  From the moment a handler has found no active twin of a row until  *)
(* it commits that row, every active twin is one it has been told of since    *)
(* (during) or one of its own.                                                *)

Own(h, r) == r[1] = h[1] /\ r[2] = h[2]

Early(h)   == pc[h] \in {"key", "row", "dup"}
Unsaved(h) == \/ pc[h] \in {"idle", "insert"} \/ Early(h)
              \/ Batch(h) /\ pc[h] \in {"store", "commit"}

Pending(h, r) == \/ pc[h] = "insert" /\ r = New(h)
                 \/ /\ Batch(h) /\ r \in Fresh(h)
                    /\ Early(h) \/ pc[h] \in {"insert", "store", "commit"}

Twin(r, s) == Ask(r).guard /\ Ask(s).sig = Ask(r).sig

Checked(h) == \A r, s \in Rows :
    Pending(h, r) /\ Twin(r, s) /\ status[s] \in Active => s \in during[h] \/ Own(h, s)

Orderly(h) ==
    /\ pc[h] = "idle" => made[h] = {}
    /\ pc[h] = "commit" => Batch(h)
    /\ Unsaved(h) => \A r \in Rows : Own(h, r) => status[r] = "ABSENT"
    /\ Early(h) /\ item[h] = 1 => Fresh(h) = {}
    /\ Checked(h)

Unstarted == \A c \in Calls, a \in 1 .. Attempts : a > attempt[c] => pc[<<c, a>>] = "idle"

TwinInv == Unstarted /\ \A h \in Handlers : Orderly(h)

LEMMA InitTwins == Init => TwinInv
  BY DEF Init, TwinInv, Unstarted, Handlers, Orderly, Unsaved, Early, Checked, Pending, Batch,
         Active, Fresh

LEMMA PendingDecided ==
    ASSUME Typed, NEW h \in Handlers, Orderly(h), NEW r \in Rows, Pending(h, r)
    PROVE  Decided(h)
<1>1. item[h] \in Nat /\ item[h] >= 1
  BY NewRow DEF Typed
<1> QED BY <1>1 DEF Orderly, Pending, Early, Decided

(* What may happen around a handler. *)
Around(h) ==
    /\ during[h] \subseteq during'[h]
    /\ \A s \in Rows : /\ status'[s] \in Active /\ Decided(h) => status[s] \in Active \/ s \in during'[h]
                       /\ Own(h, s) /\ status[s] = "ABSENT" => status'[s] = "ABSENT"

LEMMA OrderlyKept ==
    ASSUME Typed, NEW h \in Handlers, Orderly(h), Around(h),
           pc'[h] = pc[h] \/ pc'[h] \in {"done", "dead"}, item'[h] = item[h], made'[h] = made[h]
    PROVE  Orderly(h)'
<1>1. Fresh(h)' = Fresh(h) /\ New(h)' = New(h) /\ Batch(h)' = Batch(h)
  BY DEF Fresh, New, Batch
<1>2. /\ Early(h)' => Early(h) /\ (Unsaved(h)' => Unsaved(h))
      /\ \A r \in Rows : Pending(h, r)' => Pending(h, r)
  BY <1>1 DEF Early, Unsaved, Pending
<1>3. /\ (pc[h] = "idle" => made[h] = {}) /\ (pc[h] = "commit" => Batch(h))
      /\ Unsaved(h) => \A r \in Rows : Own(h, r) => status[r] = "ABSENT"
      /\ Early(h) /\ item[h] = 1 => Fresh(h) = {}
      /\ \A r, s \in Rows : Pending(h, r) /\ Twin(r, s) /\ status[s] \in Active
                               => s \in during[h] \/ Own(h, s)
  BY DEF Orderly, Checked
<1>4. Unsaved(h)' => \A r \in Rows : Own(h, r) => status'[r] = "ABSENT"
  <2>1. \A r \in Rows : Own(h, r) /\ status[r] = "ABSENT" => status'[r] = "ABSENT"
    BY DEF Around
  <2> QED BY <1>2, <1>3, <2>1 DEF Unsaved, Early
<1>5. \A r, s \in Rows : Pending(h, r)' /\ Twin(r, s) /\ status'[s] \in Active
                            => s \in during'[h] \/ Own(h, s)
  <2>1. \A r \in Rows : Pending(h, r) => Decided(h)
    BY PendingDecided
  <2> QED BY <1>2, <1>3, <2>1 DEF Around
<1>6. Checked(h)'
  BY <1>5 DEF Checked, Own, Twin, Ask
<1>7. /\ pc'[h] = "idle" => made'[h] = {}
      /\ pc'[h] = "commit" => Batch(h)
      /\ Early(h)' /\ item'[h] = 1 => Fresh(h)' = {}
  BY <1>1, <1>3 DEF Early
<1> QED BY <1>1, <1>4, <1>6, <1>7 DEF Orderly, Own

LEMMA InsertAround ==
    ASSUME Typed, NEW h \in Handlers, NEW g \in Handlers, g # h, NEW stage,
           NEW new \in SUBSET Rows, \A r \in new : Own(h, r), Insert(h, new, stage)
    PROVE  Around(g)
<1>1. \A r \in new : ~Own(g, r)
  BY HandlerParts DEF Own
<1>2. \A r \in Rows : r \notin new => status'[r] = status[r]
  BY DEF Insert
<1>3. during'[g] = IF Decided(g) THEN during[g] \cup new ELSE during[g]
  BY DEF Insert
<1> QED BY <1>1, <1>2, <1>3 DEF Around

(* Once it has committed or answered, nothing is asked of a handler. *)
LEMMA OrderlyAfter ==
    ASSUME NEW h \in Handlers, pc'[h] \in {"done", "publish"} \/ (~Batch(h) /\ pc'[h] = "store")
    PROVE  Orderly(h)'
<1>1. Batch(h)' = Batch(h)
  BY DEF Batch
<1> QED BY <1>1 DEF Orderly, Unsaved, Early, Checked, Pending

(* Until then it goes on with what it has checked, and what it checks now. *)
LEMMA OrderlyBefore ==
    ASSUME Typed, NEW h \in Handlers, Orderly(h), Unsaved(h),
           status' = status, during' = during,
           pc'[h] \in {"key", "row", "dup", "insert", "store", "commit"},
           pc'[h] \in {"store", "commit"} => Batch(h),
           \A r \in Fresh(h)' : Pending(h, r),
           Early(h)' /\ item'[h] = 1 => Fresh(h)' = {},
           pc'[h] = "insert" => \A s \in Rows :
               Twin(New(h), s) /\ status[s] \in Active => Own(h, s),
           pc'[h] = "insert" => New(h)' = New(h)
    PROVE  Orderly(h)'
<1>1. Batch(h)' = Batch(h)
  BY DEF Batch
<1>2. \A r \in Rows : Own(h, r) => status'[r] = "ABSENT"
  BY DEF Orderly
<1>3. \A r \in Rows : Pending(h, r)' => \/ Pending(h, r)
                                        \/ pc'[h] = "insert" /\ r = New(h)
  BY <1>1 DEF Pending
<1>4. \A r, s \in Rows : Pending(h, r)' /\ Twin(r, s) /\ status'[s] \in Active
                            => s \in during'[h] \/ Own(h, s)
  BY <1>3 DEF Orderly, Checked
<1>5. Checked(h)'
  BY <1>4 DEF Checked, Own, Twin, Ask
<1> QED BY <1>1, <1>2, <1>5 DEF Orderly, Own

LEMMA HandlerOrderly ==
    ASSUME Typed, NEW h \in Handlers, Orderly(h), HandlerStep(h)
    PROVE  Orderly(h)'
<1> USE DEF Typed, TypeOK
<1>0. /\ New(h) \in Rows /\ Wanted(h) = Ask(New(h)) /\ item[h] \in 1 .. Len(Items[h[1]])
      /\ Own(h, New(h)) /\ item[h] \in Nat
  BY NewRow DEF Own, New
<1>a. \A r \in Fresh(h) : r \in made[h] /\ Own(h, r)
  BY DEF Fresh, Own
<1>b. ASSUME made' = made PROVE Fresh(h)' = Fresh(h)
  BY <1>b DEF Fresh
<1>c. ASSUME item' = item PROVE New(h)' = New(h)
  BY <1>c DEF New
<1>d. ASSUME Batch(h), Early(h) \/ pc[h] \in {"insert", "store"}
      PROVE  Unsaved(h) /\ \A r \in Fresh(h) : Pending(h, r)
  BY <1>d DEF Unsaved, Pending
<1>e. ASSUME ~Batch(h), Early(h)
      PROVE  Unsaved(h) /\ Fresh(h) = {}
  <2>1. item[h] = 1
    BY <1>e, OneItem
  <2> QED BY <1>e, <2>1 DEF Unsaved, Orderly
<1>f. ASSUME Batch(h), NextItem(h), UNCHANGED <<made, status, during>>,
             Early(h) \/ pc[h] \in {"insert", "store"}
      PROVE  Orderly(h)'
  <2>1. /\ (pc'[h] = "key" /\ item'[h] = item[h] + 1) \/ pc'[h] = "commit"
        /\ Fresh(h)' = Fresh(h)
    BY <1>b, <1>f, NextItemTyped
  <2>2. ~(Early(h)' /\ item'[h] = 1)
    BY <1>0, <2>1 DEF Early
  <2> QED BY <1>d, <1>f, <2>1, <2>2, OrderlyBefore
<1>1. CASE LookUp(h)
  <2>1. /\ UNCHANGED <<made, status, during, item>> /\ pc[h] = "key"
        /\ pc'[h] \in {"dup", "row"}
    BY <1>1 DEF LookUp, Goto
  <2>2. Fresh(h)' = Fresh(h) /\ Early(h)
    BY <1>b, <2>1 DEF Early
  <2>3. (item[h] = 1 => Fresh(h) = {}) /\ Unsaved(h) /\ \A r \in Fresh(h) : Pending(h, r)
    BY <1>d, <1>e, <2>2 DEF Orderly
  <2> QED BY <2>1, <2>2, <2>3, OrderlyBefore
<1>2. CASE Recall(h)
  <2>0. UNCHANGED <<status, during>> /\ pc[h] = "row" /\ cached[h] \in Rows /\ Early(h)
    BY <1>2 DEF Recall, Placed, Early
  <2>1. CASE Goto(h, "dup") /\ UNCHANGED <<cached, made>>
    <3>1. pc'[h] = "dup" /\ item' = item /\ Fresh(h)' = Fresh(h)
      BY <1>b, <2>1 DEF Goto
    <3>2. (item[h] = 1 => Fresh(h) = {}) /\ Unsaved(h) /\ \A r \in Fresh(h) : Pending(h, r)
      BY <1>d, <1>e, <2>0 DEF Orderly
    <3> QED BY <2>0, <3>1, <3>2, OrderlyBefore
  <2>2. CASE Exists(cached[h]) /\ Batch(h) /\ made' = [made EXCEPT ![h] = @ \cup {cached[h]}] /\ NextItem(h)
    <3>1. /\ (pc'[h] = "key" /\ item'[h] = item[h] + 1) \/ pc'[h] = "commit"
          /\ made'[h] = made[h] \cup {cached[h]}
      BY <2>2, NextItemTyped
    <3>2. ~Own(h, cached[h])
      BY <1>d, <2>0, <2>2 DEF Orderly, Exists
    <3>3. Fresh(h)' = Fresh(h)
      BY <3>1, <3>2 DEF Fresh, Own
    <3>4. ~(Early(h)' /\ item'[h] = 1)
      BY <1>0, <3>1 DEF Early
    <3> QED BY <1>d, <2>0, <2>2, <3>1, <3>3, <3>4, OrderlyBefore
  <2>3. CASE Respond(h, "ok", {cached[h]})
    BY <2>3, OrderlyAfter DEF Respond
  <2> QED BY <1>2, <2>1, <2>2, <2>3 DEF Recall
<1>3. CASE CheckDuplicate(h)
  <2>0. UNCHANGED <<status, during>> /\ pc[h] = "dup" /\ Early(h)
    BY <1>3 DEF CheckDuplicate, Early
  <2>1. CASE ~(Wanted(h).guard /\ Clash(h)) /\ Goto(h, "insert") /\ UNCHANGED <<cached, made>>
    <3>1. pc'[h] = "insert" /\ item' = item /\ Fresh(h)' = Fresh(h) /\ New(h)' = New(h)
      BY <1>b, <1>c, <2>1 DEF Goto
    <3>2. Unsaved(h) /\ \A r \in Fresh(h) : Pending(h, r)
      BY <1>d, <1>e, <2>0
    <3>3. \A s \in Rows : ~(Twin(New(h), s) /\ status[s] \in Active)
      BY <1>0, <2>1 DEF Clash, Twin
    <3>4. ~Early(h)'
      BY <3>1 DEF Early
    <3> QED BY <2>0, <3>1, <3>2, <3>3, <3>4, OrderlyBefore
  <2>2. CASE Batch(h) /\ NextItem(h) /\ UNCHANGED <<cached, made>>
    BY <1>f, <2>0, <2>2
  <2>3. CASE Respond(h, "conflict", {})
    BY <2>3, OrderlyAfter DEF Respond
  <2> QED BY <1>3, <2>1, <2>2, <2>3 DEF CheckDuplicate
<1>4. CASE AddOne(h)
  <2>1. pc'[h] \in {"done", "publish", "store"} /\ ~Batch(h)
    BY <1>4 DEF AddOne, Insert, Rollback, Goto, Respond
  <2> QED BY <2>1, OrderlyAfter
<1>5. CASE AddToBatch(h)
  <2>0. /\ UNCHANGED <<status, during>> /\ pc[h] = "insert" /\ Batch(h)
        /\ made'[h] = made[h] \cup {New(h)}
    BY <1>0, <1>5 DEF AddToBatch
  <2>q. PICK q \in Rows : q = New(h)
    BY <1>0
  <2>1. Fresh(h)' = Fresh(h) \cup {q}
    BY <1>0, <2>0, <2>q DEF Fresh, Own
  <2>2. Unsaved(h) /\ \A r \in Fresh(h)' : Pending(h, r)
    <3>1. Pending(h, q)
      BY <2>0, <2>q DEF Pending
    <3> QED BY <1>d, <2>0, <2>1, <3>1
  <2>3. \/ pc'[h] = "key" /\ item'[h] = item[h] + 1
        \/ pc'[h] \in {"commit", "store"}
    BY <1>5, NextItemTyped DEF AddToBatch, Goto
  <2>4. ~(Early(h)' /\ item'[h] = 1)
    BY <1>0, <2>3 DEF Early
  <2> QED BY <2>0, <2>2, <2>3, <2>4, OrderlyBefore
<1>6. CASE StoreKey(h)
  <2>1. CASE Batch(h) /\ NextItem(h)
    BY <1>6, <1>f, <2>1 DEF StoreKey
  <2>2. CASE Goto(h, "publish")
    BY <2>2, OrderlyAfter DEF Goto
  <2> QED BY <1>6, <2>1, <2>2 DEF StoreKey
<1>7. CASE CommitBatch(h) \/ Publish(h)
  <2>1. pc'[h] \in {"done", "publish"}
    BY <1>7 DEF CommitBatch, Publish, Insert, Rollback, Goto, Respond
  <2> QED BY <2>1, OrderlyAfter
<1> QED
  BY <1>1, <1>2, <1>3, <1>4, <1>5, <1>6, <1>7 DEF HandlerStep

(* The world of the other handlers. *)
LEMMA HandlerAround ==
    ASSUME Typed, NEW h \in Handlers, Orderly(h), HandlerStep(h), NEW g \in Handlers, g # h
    PROVE  Around(g)
<1>1. CASE UNCHANGED <<status, during>>
  BY <1>1 DEF Around
<1>2. ASSUME NEW new \in SUBSET Rows, NEW stage, Insert(h, new, stage), \A r \in new : Own(h, r)
      PROVE  Around(g)
  BY <1>2, InsertAround
<1>3. /\ {New(h)} \in SUBSET Rows /\ \A r \in {New(h)} : Own(h, r)
      /\ Fresh(h) \in SUBSET Rows /\ \A r \in Fresh(h) : Own(h, r)
  BY NewRow DEF Typed, Fresh, New, Own
<1>4. CASE AddOne(h) \/ CommitBatch(h)
  BY <1>1, <1>2, <1>3, <1>4 DEF AddOne, CommitBatch, Rollback
<1>5. CASE LookUp(h) \/ Recall(h) \/ CheckDuplicate(h) \/ AddToBatch(h) \/ StoreKey(h) \/ Publish(h)
  BY <1>1, <1>5 DEF LookUp, Recall, CheckDuplicate, AddToBatch, StoreKey, Publish
<1> QED BY <1>4, <1>5 DEF HandlerStep

LEMMA StepTwins == Typed /\ TwinInv /\ [Next]_vars => TwinInv'
<1> SUFFICES ASSUME Typed, TwinInv, [Next]_vars PROVE TwinInv'
  OBVIOUS
<1> USE DEF Typed, TypeOK
<1>0. \A h \in Handlers : Orderly(h)
  BY DEF TwinInv
<1>1. ASSUME NEW h \in Handlers, HandlerStep(h) PROVE TwinInv'
  <2>1. Orderly(h)'
    BY <1>0, <1>1, HandlerOrderly
  <2>2. \A g \in Handlers : g # h => Orderly(g)'
    BY <1>0, <1>1, HandlerAround, OthersAlone, OrderlyKept
  <2>3. pc[h] # "idle" /\ attempt' = attempt
    BY <1>1 DEF HandlerStep, LookUp, Recall, CheckDuplicate, AddOne, AddToBatch, StoreKey,
               CommitBatch, Publish, client
  <2>4. Unstarted'
    <3>1. \A g \in Handlers : pc[g] = "idle" => pc'[g] = "idle"
      BY <1>1, <2>3, OthersAlone
    <3> QED BY <2>3, <3>1 DEF TwinInv, Unstarted, Handlers
  <2>5. \A g \in Handlers : Orderly(g)'
    BY <2>1, <2>2
  <2> QED BY <2>4, <2>5 DEF TwinInv
(* steps that change neither items nor what is made, and start no handler *)
<1>2. ASSUME item' = item, made' = made, attempt' = attempt,
             \A h \in Handlers : Around(h) /\ (pc'[h] = pc[h] \/ (pc[h] # "idle" /\ pc'[h] \in {"done", "dead"}))
      PROVE  TwinInv'
  <2>1. \A h \in Handlers : Orderly(h)'
    BY <1>0, <1>2, OrderlyKept
  <2>2. Unstarted'
    BY <1>2 DEF TwinInv, Unstarted, Handlers
  <2> QED BY <2>1, <2>2 DEF TwinInv
<1>3. ASSUME UNCHANGED <<status, during>> PROVE \A h \in Handlers : Around(h)
  BY <1>3 DEF Around
(* a connection fails, or a call is made, and the next handler starts *)
<1>4. ASSUME NEW c \in Calls, NEW left, UNCHANGED <<item, made, status, during>>,
             left = pc \/ left = [pc EXCEPT ![<<c, attempt[c]>>] = "done"],
             attempt[c] + 1 \in 1 .. Attempts, attempt[c] > 0 \/ left = pc,
             attempt' = [attempt EXCEPT ![c] = attempt[c] + 1],
             pc' = [left EXCEPT ![<<c, attempt[c] + 1>>] = "key"]
      PROVE  TwinInv'
  <2>g. PICK g \in Handlers : g = <<c, attempt[c] + 1>>
    BY <1>4 DEF Handlers
  <2>f. PICK f : f = <<c, attempt[c]>>
    OBVIOUS
  <2>1. attempt[c] \in Nat /\ f # g
    BY <2>f, <2>g
  <2>2. pc[g] = "idle" /\ pc'[g] = "key"
    <3>1. pc[g] = "idle"
      BY <1>4, <2>1, <2>g DEF TwinInv, Unstarted
    <3>2. left \in [Handlers -> {left[h] : h \in Handlers}]
      BY <1>4
    <3> QED BY <1>4, <2>1, <2>f, <2>g, <3>1, <3>2
  <2>3. \A h \in Handlers : h # g => \/ pc'[h] = pc[h]
                                     \/ h = f /\ pc'[h] = "done"
    BY <1>4, <2>1, <2>f, <2>g
  <2>4. \A h \in Handlers : h # g => Orderly(h)'
    BY <1>0, <1>3, <1>4, <2>3, OrderlyKept
  <2>5. Orderly(g)'
    <3>1. made[g] = {} /\ \A r \in Rows : Own(g, r) => status[r] = "ABSENT"
      BY <1>0, <2>1, <2>2 DEF Orderly, Unsaved
    <3>2. Fresh(g)' = {}
      BY <1>4, <3>1 DEF Fresh
    <3>3. \A r \in Rows : ~Pending(g, r)'
      BY <2>2, <3>2 DEF Pending
    <3>4. Checked(g)'
      BY <3>3 DEF Checked
    <3> QED BY <1>4, <2>2, <3>1, <3>2, <3>4 DEF Orderly, Own
  <2>6. Unstarted'
    <3> SUFFICES ASSUME NEW d \in Calls, NEW a \in 1 .. Attempts, a > attempt'[d]
                 PROVE  pc'[<<d, a>>] = "idle"
      BY DEF Unstarted
    <3>1. /\ <<d, a>> \in Handlers /\ attempt[d] \in Nat
          /\ attempt'[d] = IF d = c THEN attempt[d] + 1 ELSE attempt[d]
      BY <1>4 DEF Handlers
    <3>2. a > attempt[d]
      BY <3>1
    <3>3. pc[<<d, a>>] = "idle"
      BY <3>2 DEF TwinInv, Unstarted
    <3>4. <<d, a>> # g /\ <<d, a>> # f
      BY <2>f, <2>g, <3>1
    <3> QED BY <2>3, <3>1, <3>3, <3>4
  <2>7. \A h \in Handlers : Orderly(h)'
    BY <2>4, <2>5
  <2> QED BY <2>6, <2>7 DEF TwinInv
<1>5. ASSUME NEW c \in Calls, Call(c) PROVE TwinInv'
  <2>1. /\ attempt[c] + 1 \in 1 .. Attempts /\ attempt[c] = 0
        /\ attempt' = [attempt EXCEPT ![c] = attempt[c] + 1]
        /\ pc' = [pc EXCEPT ![<<c, attempt[c] + 1>>] = "key"]
    BY <1>5, AttemptsAssumption DEF Call
  <2>2. UNCHANGED <<item, made, status, during>>
    BY <1>5 DEF Call
  <2> QED BY <1>4, <2>1, <2>2
<1>6. ASSUME NEW c \in Calls, Receive(c) PROVE TwinInv'
  BY <1>2, <1>3, <1>6 DEF Receive, handler
<1>7. ASSUME NEW c \in Calls, ConnectionFails(c) PROVE TwinInv'
  <2>1. UNCHANGED <<item, made, status, during>> /\ attempt[c] # 0 /\ attempt[c] \in Nat
    BY <1>7 DEF ConnectionFails, Open
  <2>2. PICK left \in {pc} \cup (IF pc[<<c, attempt[c]>>] = "key" /\ item[<<c, attempt[c]>>] = 1
                                 THEN {[pc EXCEPT ![<<c, attempt[c]>>] = "done"]} ELSE {}) :
           \/ /\ attempt[c] < Sends(c)
              /\ attempt' = [attempt EXCEPT ![c] = attempt[c] + 1]
              /\ pc' = [left EXCEPT ![<<c, attempt[c] + 1>>] = "key"]
           \/ pc' = left /\ attempt' = attempt
    BY <1>7 DEF ConnectionFails
  <2>3. CASE /\ attempt[c] < Sends(c)
             /\ attempt' = [attempt EXCEPT ![c] = attempt[c] + 1]
             /\ pc' = [left EXCEPT ![<<c, attempt[c] + 1>>] = "key"]
    <3>1. attempt[c] + 1 \in 1 .. Attempts
      BY <2>1, <2>3, AttemptsAssumption DEF Sends
    <3>2. left = pc \/ left = [pc EXCEPT ![<<c, attempt[c]>>] = "done"]
      BY <2>2
    <3>3. attempt[c] > 0
      BY <2>1
    <3> QED BY <1>4, <2>1, <2>3, <3>1, <3>2, <3>3
  <2>4. CASE pc' = left /\ attempt' = attempt
    <3>1. \A h \in Handlers : pc'[h] = pc[h] \/ (pc[h] # "idle" /\ pc'[h] = "done")
      BY <2>2, <2>4
    <3> QED BY <1>2, <1>3, <2>1, <2>4, <3>1
  <2> QED BY <2>2, <2>3, <2>4
<1>8. ASSUME NEW h \in Handlers, Dies(h) PROVE TwinInv'
  <2>1. UNCHANGED <<item, made, attempt, status, during>> /\ pc[h] # "idle"
    BY <1>8 DEF Dies, client, Working
  <2>2. \A g \in Handlers : pc'[g] = pc[g] \/ (pc[g] # "idle" /\ pc'[g] = "dead")
    BY <1>8, <2>1 DEF Dies
  <2> QED BY <1>2, <1>3, <2>1, <2>2
<1>9. ASSUME NEW r \in Rows, Live(r) PROVE TwinInv'
  <2>1. PICK to \in Status : <<status[r], to>> \in Moves /\ status' = [status EXCEPT ![r] = to]
    BY <1>9 DEF Live
  <2>2. during' = IF status[r] \notin Active /\ status'[r] \in Active
                  THEN [g \in Handlers |-> IF Decided(g) THEN during[g] \cup {r} ELSE during[g]]
                  ELSE during
    BY <1>9 DEF Live
  <2>3. status[r] # "ABSENT"
    BY <2>1, MovesTyped
  <2>4. \A h \in Handlers : Around(h)
    BY <2>1, <2>2, <2>3 DEF Around
  <2> QED BY <1>2, <1>9, <2>4 DEF Live, handler, client
<1>10. ASSUME NEW k \in Keys, KeyExpires(k) PROVE TwinInv'
  BY <1>2, <1>3, <1>10 DEF KeyExpires, handler, client
<1>11. CASE UNCHANGED vars
  BY <1>2, <1>3, <1>11 DEF vars, handler, client
<1> QED
  BY <1>1, <1>5, <1>6, <1>7, <1>8, <1>9, <1>10, <1>11 DEF Next

(* A commit makes rows of its handler that have been checked. *)
LEMMA CommitsChecked ==
    ASSUME Typed, TwinInv, [Next]_vars, NEW r \in Rows, status[r] = "ABSENT", status'[r] # "ABSENT"
    PROVE  \E h \in Handlers, new \in SUBSET Rows :
              /\ \A q \in new : Pending(h, q) /\ Own(h, q)
              /\ r \in new
              /\ \A q \in Rows : q \notin new => status'[q] = status[q]
<1> USE DEF Typed, TypeOK
<1>1. \A q \in Rows : Ages(q) => status[q] # "ABSENT" /\ \A s \in Rows : s # q => status'[s] = status[s]
  BY MovesTyped DEF Ages
<1>2. ~UNCHANGED vars /\ ~\E c \in Calls : Call(c) \/ Receive(c) \/ ConnectionFails(c)
  BY DEF vars, Call, Receive, ConnectionFails
<1>3. ~(\E q \in Rows : Live(q)) /\ ~(\E k \in Keys : KeyExpires(k)) /\ ~(\E h \in Handlers : Dies(h))
  BY <1>1 DEF Live, Ages, KeyExpires, Dies
<1>4. PICK h \in Handlers : HandlerStep(h)
  BY <1>2, <1>3 DEF Next
<1>5. CASE AddOne(h) /\ Insert(h, {New(h)}, IF Wanted(h).key = NoKey THEN "publish" ELSE "store")
  <2>1. New(h) \in Rows /\ Pending(h, New(h)) /\ Own(h, New(h))
    BY <1>5, NewRow DEF AddOne, Pending, New, Own
  <2>2. \A q \in Rows : q \notin {New(h)} => status'[q] = status[q]
    BY <1>5 DEF Insert
  <2>3. {New(h)} \in SUBSET Rows /\ r \in {New(h)} /\ \A q \in {New(h)} : Pending(h, q) /\ Own(h, q)
    BY <2>1, <2>2
  <2> QED BY <2>2, <2>3
<1>6. CASE CommitBatch(h) /\ Insert(h, Fresh(h), "publish")
  <2>1. Fresh(h) \in SUBSET Rows /\ pc[h] = "commit" /\ Orderly(h)
    BY <1>6, NewRow DEF CommitBatch, TwinInv
  <2>2. \A q \in Fresh(h) : Pending(h, q) /\ Own(h, q)
    BY <2>1 DEF Orderly, Pending, Fresh, Own
  <2>3. \A q \in Rows : q \notin Fresh(h) => status'[q] = status[q]
    BY <1>6 DEF Insert
  <2> QED BY <2>1, <2>2, <2>3
<1>7. CASE status' = status
  BY <1>7
<1> QED
  BY <1>4, <1>5, <1>6, <1>7 DEF HandlerStep, LookUp, Recall, CheckDuplicate, AddOne, AddToBatch,
     StoreKey, CommitBatch, Publish, Rollback

(* A task that is refused duplicates stands beside an active one of the same  *)
(* user, title and type only if that became active behind the check.          *)
THEOREM NoSilentTwins == Spec => TwinsOverlap
<1> DEFINE Good ==
      \A h \in Handlers : \A r \in Rows, s \in Rows :
        ( /\ r[1] = h[1] /\ r[2] = h[2] /\ status[r] = "ABSENT" /\ status'[r] # "ABSENT"
          /\ Ask(r).guard
          /\ status'[s] \in Active /\ Ask(s).sig = Ask(r).sig )
        => s \in during[h] \/ (s[1] = h[1] /\ s[2] = h[2])
<1>1. Typed /\ TwinInv /\ [Next]_vars => Good
  <2> SUFFICES ASSUME Typed, TwinInv, [Next]_vars,
                      NEW h \in Handlers, NEW r \in Rows, NEW s \in Rows,
                      Own(h, r), status[r] = "ABSENT", status'[r] # "ABSENT", Twin(r, s),
                      status'[s] \in Active
               PROVE  s \in during[h] \/ Own(h, s)
    BY DEF Own, Twin
  <2>1. PICK g \in Handlers, new \in SUBSET Rows :
              /\ \A q \in new : Pending(g, q) /\ Own(g, q)
              /\ r \in new
              /\ \A q \in Rows : q \notin new => status'[q] = status[q]
    BY CommitsChecked
  <2>2. g = h
    BY <2>1, HandlerParts DEF Own
  <2>3. CASE s \in new
    BY <2>1, <2>2, <2>3
  <2>4. CASE s \notin new
    BY <2>1, <2>2, <2>4 DEF TwinInv, Orderly, Checked
  <2> QED BY <2>3, <2>4
<1>2. Typed /\ TwinInv /\ [Next]_vars => [Good]_vars
  BY <1>1
<1>3. Spec => [][Good]_vars
  <2> HIDE DEF Good
  <2> QED BY <1>2, InitTyped, StepTyped, InitTwins, StepTwins, PTL DEF Spec
<1> QED BY <1>3 DEF TwinsOverlap

=============================================================================
