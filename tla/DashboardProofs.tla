--------------------------- MODULE DashboardProofs ---------------------------
(***************************************************************************)
(* What one click makes, and what requests on an outdated page may undo    *)
(* (OneTaskPerClick and FinishedStays of Dashboard), for any tasks,        *)
(* handlers, attempts of the gateway and faults.                           *)
(***************************************************************************)
EXTENDS DashboardViewProofs

-----------------------------------------------------------------------------
(* The attempts at a request: what a handler is making, and what was made.    *)

\* handler h is making request r at the a-th attempt
Makes(h, r, a) == Making(work[h]) /\ work[h].request = r /\ work[h].attempt = a

Known(r, a) == \/ \E h \in Handlers : Makes(h, r, a)
               \/ \E m \in made : m.request = r /\ m.attempt = a

\* of a click in the past, or of a demo task whose turn is over or under way
Old(r) == /\ r[2] <= clicks
          /\ r[1] = "seed" /\ r[2] = clicks =>
                r[3] > demos \/ (r[3] = demos /\ ans["seed"] # Nothing)

(* Every attempt at a request is one row at most.  A first attempt cost no    *)
(* connection; later ones did.  A handler the gateway still waits for is at   *)
(* the latest attempt.                                                        *)
Distinct ==
    /\ \A g, h \in Handlers : g # h /\ Making(work[g]) /\ Making(work[h]) =>
          work[g].request # work[h].request \/ work[g].attempt # work[h].attempt
    /\ \A h \in Handlers, m \in made :
          ~Makes(h, m.request, m.attempt)
    /\ \A m, n \in made : m # n /\ m.request = n.request => m.attempt # n.attempt

Requested == \A r, a : Known(r, a) =>
    /\ r \in Makers \X Nat \X Nat /\ a \in Nat \ {0} /\ Old(r)
    /\ a > 1 => r \in dropped

Latest == \A h \in Handlers : work[h].open /\ Making(work[h]) =>
    \A a : Known(work[h].request, a) => a <= work[h].attempt

ReqInv == Distinct /\ Requested /\ Latest

LEMMA ReqImplies == ReqInv => OneTaskPerClick
<1> SUFFICES ASSUME ReqInv, NEW m \in made, NEW n \in made, m # n, m.request = n.request
             PROVE  m.attempt # n.attempt /\ m.request \in dropped
  BY DEF OneTaskPerClick
<1>1. m.attempt # n.attempt
  BY DEF ReqInv, Distinct
<1>2. Known(m.request, m.attempt) /\ Known(n.request, n.attempt)
  BY DEF Known
<1>3. /\ m.attempt \in Nat \ {0} /\ n.attempt \in Nat \ {0}
      /\ (m.attempt > 1 => m.request \in dropped) /\ (n.attempt > 1 => m.request \in dropped)
  BY <1>2 DEF ReqInv, Requested
<1>4. m.attempt > 1 \/ n.attempt > 1
  BY <1>1, <1>3
<1> QED BY <1>1, <1>3, <1>4

-----------------------------------------------------------------------------
(* What time does to a request.                                               *)

Aging == \/ clicks' > clicks
         \/ /\ clicks' = clicks
            /\ \/ demos' < demos
               \/ demos' = demos /\ (ans["seed"] # Nothing => ans'["seed"] # Nothing)

LEMMA OldStays ==
    ASSUME Aging, clicks \in Nat, clicks' \in Nat, demos \in Nat, demos' \in Nat,
           NEW r \in Makers \X Nat \X Nat, Old(r)
    PROVE  Old(r)'
<1>1. r[2] \in Nat /\ r[3] \in Nat
  OBVIOUS
<1>2. CASE clicks' > clicks
  BY <1>1, <1>2 DEF Old
<1>3. CASE clicks' = clicks /\ demos' < demos
  BY <1>1, <1>3 DEF Old
<1>4. CASE clicks' = clicks /\ demos' = demos /\ (ans["seed"] # Nothing => ans'["seed"] # Nothing)
  BY <1>1, <1>4 DEF Old
<1> QED BY <1>2, <1>3, <1>4 DEF Aging

Clock == /\ Aging /\ clicks \in Nat /\ clicks' \in Nat /\ demos \in Nat /\ demos' \in Nat
         /\ dropped \subseteq dropped'

\* the handler is at the attempt it was at, unless it has come to an end
Stays(h) == Making(work'[h]) => /\ Making(work[h])
                                /\ work'[h].request = work[h].request
                                /\ work'[h].attempt = work[h].attempt
                                /\ work'[h].open => work[h].open

(* Nothing is asked, nothing is made.                                         *)
LEMMA NothingNew ==
    ASSUME ReqInv, Clock, made' = made, \A h \in Handlers : Stays(h)
    PROVE  ReqInv'
<1> USE DEF ReqInv
<1>1. \A h \in Handlers : \A r, a : Makes(h, r, a)' => Makes(h, r, a)
  BY DEF Makes, Stays
<1>2. \A r, a : Known(r, a)' => Known(r, a)
  BY <1>1 DEF Known
<1>3. Distinct'
  <2>1. \A g, h \in Handlers : g # h /\ Making(work'[g]) /\ Making(work'[h]) =>
           work'[g].request # work'[h].request \/ work'[g].attempt # work'[h].attempt
    BY DEF Distinct, Stays
  <2>2. \A h \in Handlers, m \in made' : ~Makes(h, m.request, m.attempt)'
    BY <1>1 DEF Distinct
  <2> QED BY <2>1, <2>2 DEF Distinct
<1>4. Requested'
  <2>1. ASSUME NEW r, NEW a, Known(r, a)'
        PROVE  /\ r \in Makers \X Nat \X Nat /\ a \in Nat \ {0} /\ Old(r)'
               /\ a > 1 => r \in dropped'
    <3>1. /\ r \in Makers \X Nat \X Nat /\ a \in Nat \ {0} /\ Old(r)
          /\ a > 1 => r \in dropped
      BY <1>2, <2>1 DEF Requested
    <3> QED BY <3>1, OldStays DEF Clock
  <2> QED BY <2>1 DEF Requested
<1>5. Latest'
  <2>1. ASSUME NEW h \in Handlers, work'[h].open, Making(work'[h]), NEW a, NEW q,
               q = work'[h].request, Known(q, a)'
        PROVE  a <= work'[h].attempt
    <3>1. /\ work[h].open /\ Making(work[h]) /\ work'[h].request = work[h].request
          /\ work'[h].attempt = work[h].attempt
      BY <2>1 DEF Stays
    <3>2. Known(work[h].request, a)
      BY <1>2, <2>1, <3>1
    <3> QED BY <3>1, <3>2 DEF Latest
  <2> QED BY <2>1 DEF Latest, Making, Known, Makes
<1> QED BY <1>3, <1>4, <1>5

(* An attempt at r that nobody has made before, and that is later than all    *)
(* those before: a request that is new, or one that is sent again.            *)
LEMMA AttemptNew ==
    ASSUME ReqInv, Clock, made' = made, NEW g \in Handlers, NEW r, NEW k \in Nat \ {0},
           Making(work'[g]) => work'[g].request = r /\ work'[g].attempt = k,
           \A h \in Handlers : h # g => Stays(h) /\ (work'[h].open /\ Making(work'[h]) =>
                                                        work'[h].request # r),
           Making(work'[g]) => r \in Makers \X Nat \X Nat /\ Old(r)' /\ (k > 1 => r \in dropped'),
           Making(work'[g]) => \A a : Known(r, a) => a < k
    PROVE  ReqInv'
<1>0. CASE ~Making(work'[g])
  BY <1>0, NothingNew DEF Stays
<1> SUFFICES ASSUME Making(work'[g]) PROVE ReqInv'
  BY <1>0
<1> USE DEF ReqInv
<1>1. \A h \in Handlers : \A q, a : h # g /\ Makes(h, q, a)' => Makes(h, q, a)
  BY DEF Makes, Stays
<1>2. \A q, a : Known(q, a)' => Known(q, a) \/ (q = r /\ a = k)
  BY <1>1 DEF Known, Makes
<1>3. \A a : Known(r, a) => a # k
  <2>1. \A a : Known(r, a) => a \in Nat /\ a < k
    BY DEF Requested
  <2> QED BY <2>1
<1>4. Distinct'
  <2>1. ASSUME NEW e \in Handlers, NEW f \in Handlers, e # f, Making(work'[e]), Making(work'[f])
        PROVE  work'[e].request # work'[f].request \/ work'[e].attempt # work'[f].attempt
    <3>1. ASSUME NEW h \in Handlers, h # g, Making(work'[h])
          PROVE  work'[h].request # r \/ work'[h].attempt # k
      <4>1. Known(work'[h].request, work'[h].attempt)
        BY <1>1, <3>1 DEF Known, Makes
      <4> QED BY <1>3, <4>1
    <3>2. CASE e = g \/ f = g
      BY <2>1, <3>1, <3>2
    <3>3. CASE e # g /\ f # g
      BY <2>1, <3>3 DEF Distinct, Stays
    <3> QED BY <3>2, <3>3
  <2>2. ASSUME NEW h \in Handlers, NEW m \in made' PROVE ~Makes(h, m.request, m.attempt)'
    <3>1. CASE h = g
      <4>1. Known(m.request, m.attempt)
        BY DEF Known
      <4> QED BY <1>3, <3>1, <4>1 DEF Makes
    <3>2. CASE h # g
      BY <1>1, <3>2 DEF Distinct
    <3> QED BY <3>1, <3>2
  <2> QED BY <2>1, <2>2 DEF Distinct
<1>5. Requested'
  <2>1. ASSUME NEW q, NEW a, Known(q, a)'
        PROVE  /\ q \in Makers \X Nat \X Nat /\ a \in Nat \ {0} /\ Old(q)'
               /\ a > 1 => q \in dropped'
    <3>1. CASE Known(q, a)
      <4>1. /\ q \in Makers \X Nat \X Nat /\ a \in Nat \ {0} /\ Old(q)
            /\ a > 1 => q \in dropped
        BY <3>1 DEF Requested
      <4> QED BY <4>1, OldStays DEF Clock
    <3>2. CASE q = r /\ a = k
      BY <3>2
    <3> QED BY <1>2, <2>1, <3>1, <3>2
  <2> QED BY <2>1 DEF Requested
<1>6. Latest'
  <2>1. ASSUME NEW h \in Handlers, work'[h].open, Making(work'[h]), NEW a, NEW q,
               q = work'[h].request, Known(q, a)'
        PROVE  a <= work'[h].attempt
    <3>1. CASE h = g
      <4>1. work'[h].request = r /\ work'[h].attempt = k
        BY <3>1
      <4>2. Known(r, a) \/ a = k
        BY <1>2, <2>1, <4>1
      <4>3. Known(r, a) => a \in Nat /\ a < k
        BY DEF Requested
      <4> QED BY <4>1, <4>2, <4>3
    <3>2. CASE h # g
      <4>1. /\ work[h].open /\ Making(work[h]) /\ work'[h].request = work[h].request
            /\ work'[h].attempt = work[h].attempt /\ work'[h].request # r
        BY <2>1, <3>2 DEF Stays
      <4>2. Known(work[h].request, a)
        BY <1>2, <2>1, <4>1
      <4> QED BY <4>1, <4>2 DEF Latest
    <3> QED BY <3>1, <3>2
  <2> QED BY <2>1 DEF Latest, Making, Known, Makes
<1> QED BY <1>4, <1>5, <1>6

(* What was being made is there.                                              *)
LEMMA AttemptMade ==
    ASSUME ReqInv, Clock, NEW h \in Handlers, Making(work[h]), ~Making(work'[h]), NEW new,
           new.request = work[h].request, new.attempt = work[h].attempt, made' = made \cup {new},
           \A g \in Handlers : Stays(g)
    PROVE  ReqInv'
<1> USE DEF ReqInv
<1>1. \A g \in Handlers : \A r, a : Makes(g, r, a)' => Makes(g, r, a) /\ g # h
  BY DEF Makes, Stays
<1>2. Makes(h, new.request, new.attempt)
  BY DEF Makes
<1>3. \A r, a : Known(r, a)' => Known(r, a)
  <2>1. ASSUME NEW r, NEW a, Known(r, a)' PROVE Known(r, a)
    <3>1. CASE \E g \in Handlers : Makes(g, r, a)'
      BY <1>1, <3>1 DEF Known
    <3>2. CASE \E m \in made' : m.request = r /\ m.attempt = a
      <4>1. PICK m \in made' : m.request = r /\ m.attempt = a
        BY <3>2
      <4>2. CASE m = new
        BY <1>2, <4>1, <4>2 DEF Known
      <4>3. CASE m \in made
        BY <4>1, <4>3 DEF Known
      <4> QED BY <4>1, <4>2, <4>3
    <3> QED BY <2>1, <3>1, <3>2 DEF Known
  <2> QED BY <2>1
<1>4. Distinct'
  <2>1. \A e, g \in Handlers : e # g /\ Making(work'[e]) /\ Making(work'[g]) =>
           work'[e].request # work'[g].request \/ work'[e].attempt # work'[g].attempt
    BY DEF Distinct, Stays
  <2>2. ASSUME NEW g \in Handlers, NEW m \in made' PROVE ~Makes(g, m.request, m.attempt)'
    <3>1. CASE m \in made
      BY <1>1, <3>1 DEF Distinct
    <3>2. CASE m = new
      <4> SUFFICES ASSUME Makes(g, new.request, new.attempt)' PROVE FALSE
        BY <3>2
      <4>1. Makes(g, new.request, new.attempt) /\ g # h
        BY <1>1
      <4> QED BY <1>2, <4>1 DEF Distinct, Makes
    <3> QED BY <3>1, <3>2
  <2>3. ASSUME NEW m \in made', NEW n \in made', m # n, m.request = n.request
        PROVE  m.attempt # n.attempt
    <3>1. ASSUME NEW l \in made PROVE l.request # new.request \/ l.attempt # new.attempt
      BY <1>2 DEF Distinct, Makes
    <3> QED BY <2>3, <3>1 DEF Distinct
  <2> QED BY <2>1, <2>2, <2>3 DEF Distinct
<1>5. Requested'
  <2>1. ASSUME NEW r, NEW a, Known(r, a)'
        PROVE  /\ r \in Makers \X Nat \X Nat /\ a \in Nat \ {0} /\ Old(r)'
               /\ a > 1 => r \in dropped'
    <3>1. /\ r \in Makers \X Nat \X Nat /\ a \in Nat \ {0} /\ Old(r)
          /\ a > 1 => r \in dropped
      BY <1>3, <2>1 DEF Requested
    <3> QED BY <3>1, OldStays DEF Clock
  <2> QED BY <2>1 DEF Requested
<1>6. Latest'
  <2>1. ASSUME NEW g \in Handlers, work'[g].open, Making(work'[g]), NEW a, NEW q,
               q = work'[g].request, Known(q, a)'
        PROVE  a <= work'[g].attempt
    <3>1. /\ work[g].open /\ Making(work[g]) /\ work'[g].request = work[g].request
          /\ work'[g].attempt = work[g].attempt
      BY <2>1 DEF Stays
    <3>2. Known(work[g].request, a)
      BY <1>3, <2>1, <3>1
    <3> QED BY <3>1, <3>2 DEF Latest
  <2> QED BY <2>1 DEF Latest, Making, Known, Makes
<1> QED BY <1>4, <1>5, <1>6

-----------------------------------------------------------------------------
(* What a handler found still holds of the rows that have not changed since.  *)

Over == {"SUCCESS", "CANCELLED"}

Sound(w, s) == IF w.call = "clear" THEN s \in Over \cup {"GONE"} ELSE s \notin Over

FoundInv == \A h \in Handlers : work[h].stage = "found" =>
    \A t \in work[h].rows \ work[h].since : Sound(work[h], rows[t])

\* the handler has just found its rows, or has kept watch over them
Follows(h) == work'[h].stage = "found" =>
    \/ \A t \in work'[h].rows : Sound(work'[h], rows'[t])
    \/ /\ work[h].stage = "found" /\ work'[h].call = work[h].call /\ work'[h].rows = work[h].rows
       /\ \A t \in work[h].rows \ work'[h].since : t \notin work[h].since /\ rows'[t] = rows[t]

LEMMA FoundKept == ASSUME FoundInv, \A h \in Handlers : Follows(h) PROVE FoundInv'
<1>1. ASSUME NEW h \in Handlers, work'[h].stage = "found",
             NEW t \in work'[h].rows \ work'[h].since
      PROVE  Sound(work'[h], rows'[t])
  <2>1. CASE \A u \in work'[h].rows : Sound(work'[h], rows'[u])
    BY <1>1, <2>1
  <2>2. CASE /\ work[h].stage = "found" /\ work'[h].call = work[h].call /\ work'[h].rows = work[h].rows
             /\ \A u \in work[h].rows \ work'[h].since : u \notin work[h].since /\ rows'[u] = rows[u]
    <3>1. Sound(work[h], rows[t]) /\ rows'[t] = rows[t]
      BY <1>1, <2>2 DEF FoundInv
    <3> QED BY <2>2, <3>1 DEF Sound
  <2> QED BY <1>1, <2>1, <2>2 DEF Follows
<1> QED BY <1>1 DEF FoundInv, Sound

Spares == \A t \in Tasks :
    (rows[t] \in Over /\ rows'[t] \notin {rows[t], "GONE"}) \/
    (rows[t] \notin Over \cup {"GONE"} /\ rows'[t] = "GONE")
        => \E h \in Handlers : t \in work[h].since /\ work'[h].stage # "found"

Inv    == ViewInv /\ ReqInv /\ FoundInv
Proper == ReqInv' /\ FoundInv' /\ Spares

LEMMA AsideProper ==
    ASSUME Inv, Clock, UNCHANGED <<rows, work, made>> PROVE Proper
<1>1. ReqInv'
  BY NothingNew DEF Inv, Stays
<1>2. \A h \in Handlers : Follows(h)
  BY DEF Follows
<1> QED BY <1>1, <1>2, FoundKept DEF Inv, Proper, Spares

-----------------------------------------------------------------------------
(* Round trips.                                                               *)

\* what a handler is given: the first attempt at a request
Given(w, c) == /\ w.stage = "asked" /\ w.call = c /\ w.attempt = 1
               /\ w.request = <<c, clicks', demos>>

Taken(c) == \/ work' = work
            \/ \E h \in Handlers : \E w : /\ work[h] = Idle /\ work' = [work EXCEPT ![h] = w]
                                          /\ Given(w, c)

LEMMA SendsOne ==
    ASSUME Answers, NEW c \in Calls, NEW a, Sends(c, a)
    PROVE  /\ ans[c] = Nothing /\ ans'[c] # Nothing
           /\ \A d \in Calls : d # c => ans'[d] = ans[d]
           /\ UNCHANGED <<rows, made, dropped>> /\ Taken(c)
<1> DEFINE Met == /\ \E v : v.code # "none" /\ ans' = [ans EXCEPT ![c] = v]
                  /\ UNCHANGED <<rows, made, dropped>> /\ Taken(c)
<1>1. ASSUME NEW code \in {"ok", "refused"}, NEW heard, NEW cards, Answer(c, heard, code, cards),
             UNCHANGED server
      PROVE  Met
  <2> DEFINE v == IF heard THEN [code |-> code, cards |-> cards] ELSE [code |-> "lost", cards |-> <<>>]
  <2>1. v.code # "none"
    OBVIOUS
  <2>2. ans' = [ans EXCEPT ![c] = v]
    BY <1>1 DEF Answer
  <2> HIDE DEF v
  <2> QED BY <1>1, <2>1, <2>2 DEF server, table, Taken
<1>2. ASSUME NEW heard, Receive(c, a, heard) PROVE Met
  <2>1. PICK h \in Handlers, s \in Targets(c), guard \in BOOLEAN :
           work[h] = Idle /\ work' = [work EXCEPT ![h] = Asked(c, Named(c, a), s, guard, heard)]
    BY <1>2 DEF Receive
  <2>2. Given(Asked(c, Named(c, a), s, guard, heard), c)
    BY DEF Given, Asked
  <2>3. Taken(c)
    BY <2>1, <2>2 DEF Taken
  <2> DEFINE v == IF heard THEN Awaiting ELSE [Awaiting EXCEPT !.code = "lost"]
  <2>4. v.code # "none"
    BY DEF Awaiting
  <2>5. ans' = [ans EXCEPT ![c] = v] /\ UNCHANGED <<rows, made, dropped>>
    BY <1>2 DEF Receive, table
  <2> HIDE DEF v
  <2> QED BY <2>3, <2>4, <2>5
<1>3. ASSUME NEW heard, Refused(c, heard) PROVE Met
  BY <1>1, <1>3 DEF Refused
<1>4. ASSUME NEW heard, Serve(c, a, heard) PROVE Met
  BY <1>1, <1>2, <1>4 DEF Serve, ListTasks, Export
<1>5. Met
  <2> HIDE DEF Met
  <2> QED BY <1>3, <1>4 DEF Sends, Send, Refuse, Lose
<1>6. PICK v : v.code # "none" /\ ans' = [ans EXCEPT ![c] = v]
  BY <1>5
<1>7. ans'[c] = v /\ \A d \in Calls : d # c => ans'[d] = ans[d]
  BY <1>6 DEF Answers
<1>8. v # Nothing
  BY <1>6 DEF Nothing
<1> QED BY <1>5, <1>7, <1>8 DEF Sends, Free

LEMMA Counted ==
    ASSUME ViewInv, ViewInv'
    PROVE  clicks \in Nat /\ clicks' \in Nat /\ demos \in Nat /\ demos' \in Nat
  BY BoundsAssumption DEF ViewInv, Bounded, PageTyped

(* A request is new when it is sent: of this very click, or of a demo task    *)
(* that is not on its way.                                                    *)
LEMMA SendsProper ==
    ASSUME Inv, ViewInv', NEW c \in Calls, NEW a, Sends(c, a), clicks' \in {clicks, clicks + 1},
           c = "dispatch" => clicks' = clicks + 1, demos' = demos
    PROVE  Proper
<1> USE DEF Inv
<1>1. /\ ans[c] = Nothing /\ ans'[c] # Nothing
      /\ \A d \in Calls : d # c => ans'[d] = ans[d]
      /\ UNCHANGED <<rows, made, dropped>> /\ Taken(c)
  BY SendsOne DEF ViewInv
<1>2. clicks \in Nat /\ clicks' \in Nat /\ demos \in Nat /\ demos' \in Nat
  BY Counted
<1>3. Clock
  <2>1. ans["seed"] # Nothing => ans'["seed"] # Nothing
    BY <1>1 DEF Calls, Clicks
  <2>2. Aging
    BY <1>2, <2>1 DEF Aging
  <2> QED BY <1>1, <1>2, <2>2 DEF Clock
<1>4. CASE work' = work
  BY <1>1, <1>3, <1>4, AsideProper
<1>5. ASSUME NEW h \in Handlers, NEW w, work[h] = Idle, work' = [work EXCEPT ![h] = w], Given(w, c)
      PROVE  Proper
  <2>1. work'[h] = w /\ \A g \in Handlers : g # h => work'[g] = work[g]
    BY <1>5 DEF ViewInv, Serving
  <2> DEFINE r == <<c, clicks', demos>>
  <2>2. r[1] = c /\ r[2] = clicks' /\ r[3] = demos
    OBVIOUS
  <2>3. w.stage = "asked" /\ w.call = c /\ w.attempt = 1 /\ w.request = r
    BY <1>5 DEF Given
  <2>4. c \in Makers => ~Old(r)
    BY <1>1, <1>2, <2>2 DEF Old, Makers
  <2>5. c \in Makers => r \in Makers \X Nat \X Nat
    BY <1>2
  <2>6. c \in Makers => r[2] <= clicks' /\ (r[1] = "seed" => r[3] = demos' /\ ans'["seed"] # Nothing)
    BY <1>1, <1>2, <2>2
  <2>7. PICK q : q = r
    OBVIOUS
  <2> HIDE DEF r
  <2>8. Making(work'[h]) => c \in Makers
    BY <2>1, <2>3 DEF Making
  <2>9. \A b : c \in Makers => ~Known(q, b)
    BY <2>4, <2>7 DEF ReqInv, Requested
  <2>10. ReqInv'
    <3>1. ASSUME NEW g \in Handlers, g # h
          PROVE  /\ Stays(g)
                 /\ work'[g].open /\ Making(work'[g]) /\ Making(work'[h]) => work'[g].request # q
      <4>1. work'[g] = work[g]
        BY <2>1, <3>1
      <4>2. Making(work[g]) => Known(work[g].request, work[g].attempt)
        BY DEF Known, Makes
      <4> QED BY <2>8, <2>9, <4>1, <4>2 DEF Stays
    <3>2. CASE Making(work'[h])
      <4>0. PICK k \in Nat \ {0} : k = 1
        OBVIOUS
      <4>1. work'[h].request = q /\ work'[h].attempt = k
        BY <2>1, <2>3, <2>7, <4>0
      <4>2. q \in Makers \X Nat \X Nat /\ Old(q)' /\ (k > 1 => q \in dropped')
        BY <2>5, <2>6, <2>7, <2>8, <3>2, <4>0 DEF Old
      <4>3. \A g \in Handlers : g # h => Stays(g) /\ (work'[g].open /\ Making(work'[g]) =>
                                                        work'[g].request # q)
        BY <3>1, <3>2
      <4>4. (\A b : Known(q, b) => b < k) /\ made' = made
        BY <1>1, <2>8, <2>9, <3>2
      <4> QED BY <1>3, <4>1, <4>2, <4>3, <4>4, AttemptNew
    <3>3. CASE ~Making(work'[h])
      <4>1. \A g \in Handlers : Stays(g)
        BY <3>1, <3>3 DEF Stays
      <4> QED BY <1>1, <1>3, <4>1, NothingNew
    <3> QED BY <3>2, <3>3
  <2>11. \A g \in Handlers : Follows(g)
    BY <1>1, <2>1, <2>3 DEF Follows
  <2> QED BY <1>1, <2>10, <2>11, FoundKept DEF Proper, Spares
<1> QED BY <1>1, <1>4, <1>5 DEF Taken

-----------------------------------------------------------------------------
(* The page.                                                                  *)

LEMMA OperatorProper == ASSUME Inv, ViewInv', Operator PROVE Proper
<1> USE DEF Inv
<1>0. clicks \in Nat /\ clicks' \in Nat /\ demos \in Nat /\ demos' \in Nat
  BY Counted
<1>1. ASSUME NEW f \in Forms, Dispatch(f) PROVE Proper
  BY <1>1, SendsProper DEF Dispatch, Clicked, Calls, Clicks
<1>2. ASSUME NEW c \in Clicks, ClickCard(c) PROVE Proper
  BY <1>2, SendsProper DEF ClickCard, Clicked, Calls
<1>3. ASSUME NEW c \in Clicks, ClickButton(c) PROVE Proper
  BY <1>3, SendsProper DEF ClickButton, Clicked, Calls
<1>4. CASE StartPriorityProcessing
  BY <1>4, SendsProper DEF StartPriorityProcessing, Clicked, Calls, Clicks
<1>5. CASE OpenNewTaskModal \/ SeedDemoTasks \/ \E f \in Filters \cup {None} : SetFilter(f)
  <2>1. UNCHANGED <<rows, work, made, dropped, ans>>
    BY <1>5 DEF OpenNewTaskModal, SeedDemoTasks, SetFilter, server, table
  <2>2. clicks' = clicks + 1 \/ (clicks' = clicks /\ demos' = demos)
    BY <1>5 DEF OpenNewTaskModal, SeedDemoTasks, SetFilter, Clicked, bounds
  <2>3. Clock
    BY <1>0, <2>1, <2>2 DEF Clock, Aging
  <2> QED BY <2>1, <2>3, AsideProper
<1> QED BY <1>1, <1>2, <1>3, <1>4, <1>5 DEF Operator

LEMMA FiresProper == ASSUME Inv, ViewInv', NEW c \in Calls, Fires(c) PROVE Proper
<1>1. \E a : Sends(c, a)
  BY DEF Fires, TimerFires, PollFires, FastPollFires, SubmitNextDemo
<1>2. clicks' = clicks /\ demos' = demos /\ c # "dispatch"
  BY DEF Fires, TimerFires, PollFires, FastPollFires, SubmitNextDemo
<1> QED BY <1>1, <1>2, SendsProper

(* An answer that is handled; with that of a demo task its turn is over.      *)
LEMMA HandleProper == ASSUME Inv, ViewInv', NEW c \in Calls, Handle(c) PROVE Proper
<1> USE DEF Inv
<1>0. clicks \in Nat /\ clicks' \in Nat /\ demos \in Nat /\ demos' \in Nat
  BY Counted
<1>1. Handled(c) /\ (c # "seed" => demos' = demos) /\ (c = "seed" => demos' = demos - 1)
  <2>1. CASE c = "timer" /\ HandleTimer
    BY <2>1 DEF HandleTimer
  <2>2. CASE c = "poll" /\ HandlePoll
    BY <2>2, Zenon DEF HandlePoll
  <2>3. CASE HandleFast(c)
    BY <2>3 DEF HandleFast
  <2>4. CASE c = "dispatch" /\ (HandleDispatch \/ HandleModalDispatch)
    BY <2>4 DEF HandleDispatch, HandleModalDispatch, Dispatched
  <2>5. CASE HandleCard(c) \/ HandleButton(c)
    BY <2>5 DEF HandleCard, HandleButton
  <2>6. CASE c = "mode" /\ HandleMode
    BY <2>6 DEF HandleMode
  <2>7. CASE c = "export" /\ HandleExport
    BY <2>7 DEF HandleExport
  <2>8. CASE c = "start" /\ HandleStart
    BY <2>8 DEF HandleStart
  <2>9. CASE c = "seed" /\ HandleSeed
    BY <2>9 DEF HandleSeed
  <2> QED BY <2>1, <2>2, <2>3, <2>4, <2>5, <2>6, <2>7, <2>8, <2>9, Zenon DEF Handle
<1>2. ans' = [ans EXCEPT ![c] = Nothing] /\ clicks' = clicks /\ UNCHANGED <<rows, work, made, dropped>>
  BY <1>1 DEF Handled, server, table, bounds
<1>3. c # "seed" => ans'["seed"] = ans["seed"]
  BY <1>2 DEF ViewInv, Answers
<1>4. Clock
  BY <1>0, <1>1, <1>2, <1>3 DEF Clock, Aging
<1> QED BY <1>2, <1>4, AsideProper

-----------------------------------------------------------------------------
(* What is written to the table, and what the handlers miss of it.            *)

LEMMA WriteFollows ==
    ASSUME ViewInv, NEW new \in [Tasks -> Values], NEW next \in [Handlers -> Work], Write(new, next)
    PROVE  /\ rows' = new
           /\ \A h \in Handlers : Alike(work'[h], next[h])
           /\ \A h \in Handlers : next[h] = work[h] => Stays(h) /\ Follows(h)
<1>1. rows' = new /\ \A h \in Handlers : Alike(work'[h], next[h])
  BY WriteWork DEF Write
<1>2. ASSUME NEW h \in Handlers, next[h] = work[h] PROVE Stays(h) /\ Follows(h)
  <2> DEFINE w      == work[h]
             missed == {t \in w.rows : w.stage = "found" /\ new[t] # rows[t]}
  <2>1. w \in Work
    BY DEF ViewInv, Serving
  <2>2. work'[h] = [w EXCEPT !.since = @ \cup missed]
    BY <1>2 DEF Write
  <2>3. work'[h].since = w.since \cup missed
    <3> HIDE DEF missed
    <3> QED BY <2>1, <2>2 DEF Work
  <2>4. Alike(work'[h], w)
    BY <1>1, <1>2
  <2> QED BY <1>1, <2>3, <2>4 DEF Stays, Follows, Alike, Making
<1> QED BY <1>1, <1>2

LEMMA OtherProper ==
    ASSUME Inv, ViewInv',
           \/ \E t \in Tasks : Worker(t) \/ Ready(t)
           \/ OthersSwitchMode \/ TokenExpires \/ LimiterFails \/ NextWindow
    PROVE  Proper
<1> USE DEF Inv
<1>0. clicks \in Nat /\ clicks' \in Nat /\ demos \in Nat /\ demos' \in Nat
  BY Counted
<1>1. Elsewhere
  BY DEF Worker, Ready, Starts, JobTakes, Ends, Moves, OthersSwitchMode, TokenExpires,
         LimiterFails, NextWindow
<1>2. UNCHANGED <<ans, demos>> /\ clicks' \in {clicks, clicks + 1} /\ UNCHANGED <<made, dropped>>
  BY <1>1 DEF Elsewhere, Worker, Ready, Starts, JobTakes, Ends, Moves, OthersSwitchMode, TokenExpires,
     LimiterFails, NextWindow, Clicked, bounds, server, table
<1>3. Clock
  BY <1>0, <1>2 DEF Clock, Aging
<1>4. ASSUME NEW t \in Tasks, Worker(t) \/ Ready(t) PROVE Proper
  <2>1. rows[t] \in Values
    BY DEF ViewInv, Shaped
  <2>2. PICK s \in Values :
           /\ Moves(t, s)
           /\ s = rows[t] \/ (s # "GONE" /\ rows[t] \notin Over)
    BY <1>4, <2>1 DEF Worker, Ready, Starts, JobTakes, Ends, Values, Status, Waiting, Over
  <2> DEFINE new == [rows EXCEPT ![t] = s]
  <2>3. Write(new, work) /\ new \in [Tasks -> Values] /\ work \in [Handlers -> Work]
    BY <2>2 DEF Moves, ViewInv, Shaped, Serving
  <2> HIDE DEF new
  <2>4. rows' = new /\ \A h \in Handlers : Stays(h) /\ Follows(h)
    BY <2>3, WriteFollows
  <2>5. ReqInv' /\ FoundInv'
    BY <1>2, <1>3, <2>4, NothingNew, FoundKept
  <2>6. Spares
    <3>1. \A u \in Tasks : rows'[u] = IF u = t THEN s ELSE rows[u]
      BY <2>4 DEF new, ViewInv, Shaped
    <3> QED BY <2>2, <3>1 DEF Spares
  <2> QED BY <2>5, <2>6 DEF Proper
<1>5. CASE OthersSwitchMode \/ TokenExpires \/ LimiterFails \/ NextWindow
  <2>1. UNCHANGED <<rows, work, made>>
    BY <1>5 DEF OthersSwitchMode, TokenExpires, LimiterFails, NextWindow, server, table
  <2> QED BY <1>3, <2>1, AsideProper
<1> QED BY <1>4, <1>5

-----------------------------------------------------------------------------
(* The handlers.                                                              *)

LEMMA RepliesKeep ==
    ASSUME Answers, NEW h, NEW code \in {"ok", "refused"}, NEW cards, Replies(h, code, cards),
           ans["seed"] # Nothing
    PROVE  ans'["seed"] # Nothing
<1>1. "seed" \in Calls
  BY DEF Calls, Clicks
<1> DEFINE v == [code |-> code, cards |-> cards]
<1>2. v # Nothing
  BY DEF Nothing
<1>3. ans' = ans \/ ans' = [ans EXCEPT ![work[h].call] = v]
  BY DEF Replies
<1> HIDE DEF v
<1> QED BY <1>1, <1>2, <1>3 DEF Answers

(* Time stands still for the page while a handler goes on.                    *)
LEMMA ServiceClock ==
    ASSUME ViewInv, ViewInv', AtService, ans["seed"] # Nothing => ans'["seed"] # Nothing,
           dropped \subseteq dropped'
    PROVE  Clock
  BY Counted DEF AtService, Clock, Aging

(* One handler goes on, the table and the others being left alone.            *)
LEMMA OneProper ==
    ASSUME Inv, Clock, NEW h \in Handlers, NEW w \in Work, work' = [work EXCEPT ![h] = w],
           UNCHANGED <<rows, made>>,
           Making(w) => /\ Making(work[h]) /\ w.request = work[h].request
                        /\ w.attempt = work[h].attempt /\ (w.open => work[h].open),
           w.stage = "found" =>
              \/ \A t \in w.rows : Sound(w, rows[t])
              \/ /\ work[h].stage = "found" /\ w.call = work[h].call /\ w.rows = work[h].rows
                 /\ w.since = work[h].since
    PROVE  Proper
<1> USE DEF Inv
<1>1. work'[h] = w /\ \A g \in Handlers : g # h => work'[g] = work[g]
  BY DEF ViewInv, Serving
<1>2. \A g \in Handlers : Stays(g)
  BY <1>1 DEF Stays
<1>3. \A g \in Handlers : Follows(g)
  BY <1>1 DEF Follows
<1> QED BY <1>2, <1>3, NothingNew, FoundKept DEF Proper, Spares

LEMMA IdleMakes == /\ Idle \in Work /\ Background \in Work
                   /\ ~Making(Idle) /\ ~Making(Background)
                   /\ Idle.stage # "found" /\ Background.stage # "found"
  BY IdleFits DEF Idle, Background, Making, Makers

LEMMA ReturnsProper ==
    ASSUME Inv, Clock, NEW h \in Handlers, NEW code, Returns(h, code) PROVE Proper
<1>1. work' = [work EXCEPT ![h] = Idle] /\ UNCHANGED <<rows, made>>
  BY DEF Returns, table
<1> QED BY <1>1, IdleMakes, OneProper

LEMMA SelectsProper ==
    ASSUME Inv, Clock, NEW h \in Handlers, work[h].stage = "asked", NEW S \in SUBSET Tasks,
           NEW others \in SUBSET Tasks, Selects(h, S, others),
           \A t \in S : Sound(work[h], rows[t])
    PROVE  Proper
<1> DEFINE w == [work[h] EXCEPT !.stage = "found", !.rows = S, !.queued = others]
<1>1. work' = [work EXCEPT ![h] = w] /\ UNCHANGED <<rows, made>>
  BY DEF Selects, table
<1>2. work[h] \in Work
  BY DEF Inv, ViewInv, Serving
<1>3. /\ w \in Work /\ w.call = work[h].call /\ w.rows = S /\ w.open = work[h].open
      /\ w.request = work[h].request /\ w.attempt = work[h].attempt
  BY <1>2 DEF Work
<1> HIDE DEF w
<1>4. Making(w) => Making(work[h])
  BY <1>3 DEF Making
<1>5. \A t \in w.rows : Sound(w, rows[t])
  BY <1>3 DEF Sound
<1> QED BY <1>1, <1>3, <1>4, <1>5, OneProper

LEMMA LookProper == ASSUME Inv, ViewInv', NEW h \in Handlers, Look(h) PROVE Proper
<1> USE DEF Inv
<1>1. /\ work[h].stage = "asked" /\ AtService /\ dropped' = dropped
      /\ work[h].rows \in SUBSET Tasks /\ Fits(work[h], rows)
  BY DEF Look, ViewInv, Serving, Work
<1>2. Clock
  <2>1. ASSUME ans["seed"] # Nothing PROVE ans'["seed"] # Nothing
    <3>1. CASE ans' = ans
      BY <2>1, <3>1
    <3>2. CASE \E code \in {"ok", "refused"} : Replies(h, code, <<>>)
      BY <2>1, <3>2, RepliesKeep DEF ViewInv
    <3>3. CASE (\E code \in {"ok", "refused"} : Returns(h, code)) \/ \E S, others : Selects(h, S, others)
      BY <3>1, <3>2, <3>3 DEF Returns, Selects
    <3> QED BY <3>2, <3>3 DEF Look, CreateTask, CancelTask, RetryTask, ReplayAll, ClearHistory,
          StartProcessing, SetExecutionMode, ProcessPriorityQueue, Finds
  <2> QED BY <1>1, <2>1, ServiceClock
<1>3. \A t \in Tasks : rows[t] \in Values
  BY DEF ViewInv, Shaped
<1>4. ASSUME NEW code, Returns(h, code) PROVE Proper
  BY <1>2, <1>4, ReturnsProper
<1>5. ASSUME NEW S \in SUBSET Tasks, NEW others \in SUBSET Tasks, Selects(h, S, others),
             \A t \in S : Sound(work[h], rows[t])
      PROVE  Proper
  BY <1>1, <1>2, <1>5, SelectsProper
<1>6. CASE work[h].call \in Makers /\ CreateTask(h)
  <2>1. \A t \in work[h].rows : Sound(work[h], rows[t])
    <3>1. Making(work[h])
      BY <1>1, <1>6 DEF Making
    <3>2. \A t \in work[h].rows : rows[t] = "ABSENT"
      BY <1>1, <3>1 DEF Fits
    <3> QED BY <1>6, <3>2 DEF Sound, Over, Makers
  <2>2. Returns(h, "refused") \/ Selects(h, work[h].rows, {})
    BY <1>6 DEF CreateTask, Finds
  <2> QED BY <1>1, <1>4, <1>5, <2>1, <2>2
<1>7. CASE work[h].call = "cancel" /\ CancelTask(h)
  <2>1. \/ Returns(h, "refused")
        \/ Selects(h, work[h].rows, {}) /\ \A t \in work[h].rows : Sound(work[h], rows[t])
    BY <1>7 DEF CancelTask, Finds, Sound, Over
  <2> QED BY <1>1, <1>4, <1>5, <2>1
<1>8. CASE work[h].call = "retry" /\ RetryTask(h)
  <2>1. \/ Returns(h, "refused")
        \/ Selects(h, work[h].rows, {}) /\ \A t \in work[h].rows : Sound(work[h], rows[t])
    BY <1>8 DEF RetryTask, Finds, Sound, Over
  <2> QED BY <1>1, <1>4, <1>5, <2>1
<1>9. CASE work[h].call = "replay" /\ ReplayAll(h)
  <2> DEFINE S == {t \in Tasks : rows[t] = "DEAD_LETTERED"}
  <2>1. (Returns(h, "ok") \/ Selects(h, S, {})) /\ \A t \in S : Sound(work[h], rows[t])
    BY <1>9 DEF ReplayAll, Finds, Sound, Over
  <2> QED BY <1>4, <1>5, <2>1
<1>10. CASE work[h].call = "clear" /\ ClearHistory(h)
  <2> DEFINE S == {t \in Tasks : rows[t] \in {"SUCCESS", "CANCELLED"}}
  <2>1. (Returns(h, "ok") \/ Selects(h, S, {})) /\ \A t \in S : Sound(work[h], rows[t])
    BY <1>10 DEF ClearHistory, Finds, Sound, Over
  <2> QED BY <1>4, <1>5, <2>1
<1>11. CASE work[h].call = "start" /\ StartProcessing(h)
  <2>1. PICK S \in SUBSET {t \in Tasks : rows[t] = "PENDING"} :
            Returns(h, "ok") \/ Selects(h, S, {})
    BY <1>11 DEF StartProcessing, Finds, Ripe
  <2>2. \A t \in S : Sound(work[h], rows[t])
    BY <1>11 DEF Sound, Over
  <2> QED BY <1>4, <1>5, <2>1, <2>2
<1>12. CASE work[h].call = "mode" /\ SetExecutionMode(h)
  <2>1. PICK w \in {Background, Idle} : work' = [work EXCEPT ![h] = w]
    BY <1>12 DEF SetExecutionMode
  <2>2. UNCHANGED <<rows, made>>
    BY <1>12 DEF SetExecutionMode, table
  <2> QED BY <1>2, <2>1, <2>2, IdleMakes, OneProper
<1>13. CASE work[h].call = "run" /\ ProcessPriorityQueue(h)
  <2>1. PICK S \in SUBSET {t \in Tasks : rows[t] = "PENDING"} :
            Returns(h, "ok") \/ Selects(h, S, Queue)
    BY <1>13 DEF ProcessPriorityQueue, Ripe
  <2>2. \A t \in S : Sound(work[h], rows[t])
    BY <1>13 DEF Sound, Over
  <2> QED BY <1>4, <1>5, <2>1, <2>2 DEF Queue
<1> QED BY <1>6, <1>7, <1>8, <1>9, <1>10, <1>11, <1>12, <1>13 DEF Look

(* What a commit overwrites it found in order, or has missed a change of.     *)
LEMMA CommitProper == ASSUME Inv, ViewInv', NEW h \in Handlers, Commit(h) PROVE Proper
<1> USE DEF Inv
<1> DEFINE w    == work[h]
           new  == [t \in Tasks |-> IF t \in w.rows THEN w.to ELSE rows[t]]
           left == IF w.call = "start" THEN Background ELSE Idle
           next == [work EXCEPT ![h] = left]
<1>1. /\ w.stage = "found" /\ AtService /\ dropped' = dropped
      /\ w \in Work /\ Fits(w, rows)
  BY DEF Commit, ViewInv, Serving
<1>2. CASE Vanished(w) /\ Returns(h, "refused")
  <2>1. Clock
    BY <1>1, <1>2, ServiceClock, RepliesKeep DEF Returns, ViewInv
  <2> QED BY <1>2, <2>1, ReturnsProper
<1>3. CASE /\ ~Vanished(w) /\ Write(new, next) /\ made' = made \cup Inserts(w)
           /\ Replies(h, "ok", IF w.call \in Makers THEN <<Made(w)>> ELSE <<>>)
  <2>1. Clock
    <3> HIDE DEF new, next
    <3> QED BY <1>1, <1>3, ServiceClock, RepliesKeep DEF ViewInv
  <2>2. new \in [Tasks -> Values]
    <3>1. \A t \in w.rows : w.to \in Values
      BY <1>1, <1>3, CommitMoves DEF ViewInv
    <3> QED BY <3>1 DEF ViewInv, Shaped
  <2>3. /\ next \in [Handlers -> Work] /\ next[h] = left
        /\ \A g \in Handlers : g # h => next[g] = work[g]
    BY IdleMakes DEF ViewInv, Serving
  <2>4. /\ rows' = new /\ Alike(work'[h], left)
        /\ \A g \in Handlers : g # h => Stays(g) /\ Follows(g)
    <3> HIDE DEF new, next, left
    <3> QED BY <1>3, <2>2, <2>3, WriteFollows
  <2>5. ~Making(work'[h]) /\ work'[h].stage # "found"
    <3>1. left \in {Idle, Background}
      OBVIOUS
    <3> HIDE DEF left
    <3> QED BY <2>4, <3>1, IdleMakes DEF Alike, Making
  <2> HIDE DEF next, left
  <2>6. \A g \in Handlers : Stays(g) /\ Follows(g)
    BY <2>4, <2>5 DEF Stays, Follows
  <2>7. ReqInv'
    <3>1. CASE w.call \in Makers
      <4>1. Making(w)
        BY <1>1, <3>1 DEF Making
      <4>2. PICK t \in Tasks : w.rows = {t}
        BY <1>1, <4>1 DEF Fits
      <4>3. Inserts(w) = {[task |-> t, request |-> w.request, attempt |-> w.attempt]}
        BY <3>1, <4>2 DEF Inserts
      <4>4. PICK one : one = [task |-> t, request |-> w.request, attempt |-> w.attempt]
        OBVIOUS
      <4>5. made' = made \cup {one} /\ one.request = w.request /\ one.attempt = w.attempt
        BY <1>3, <4>3, <4>4
      <4> QED BY <2>1, <2>5, <2>6, <4>1, <4>5, AttemptMade
    <3>2. CASE w.call \notin Makers
      <4>1. made' = made
        BY <1>3, <3>2 DEF Inserts
      <4> QED BY <2>1, <2>6, <4>1, NothingNew
    <3> QED BY <3>1, <3>2
  <2>8. Spares
    <3> SUFFICES ASSUME NEW t \in Tasks,
                        (rows[t] \in Over /\ rows'[t] \notin {rows[t], "GONE"}) \/
                        (rows[t] \notin Over \cup {"GONE"} /\ rows'[t] = "GONE")
                 PROVE  t \in w.since
      BY <2>5 DEF Spares
    <3>1. t \in w.rows /\ rows'[t] = w.to
      BY <2>4 DEF ViewInv, Shaped
    <3>2. w.call \in Makers => rows[t] = "ABSENT" /\ w.to \in Waiting
      BY <1>1, <3>1 DEF Fits, Making
    <3>3. w.call \notin Makers
      BY <3>1, <3>2 DEF Over, Waiting
    <3>4. w.call = "clear" => w.to = "GONE"
      BY <1>1 DEF Fits
    <3>5. w.call # "clear" => w.to # "GONE"
      <4>1. w.call \in {"cancel", "clear", "retry", "replay", "start", "run"}
        BY <1>1, <3>3 DEF Work, Fits, Makers, Writers, Clicks
      <4> QED BY <1>1, <4>1 DEF Fits
    <3>6. ~Sound(w, rows[t])
      BY <3>1, <3>4, <3>5 DEF Sound
    <3> QED BY <1>1, <3>1, <3>6 DEF FoundInv
  <2> QED BY <2>6, <2>7, <2>8, FoundKept DEF Proper
<1> QED BY <1>2, <1>3 DEF Commit

-----------------------------------------------------------------------------
(* Connections lost between gateway and handler.                              *)

LEMMA UnheardStays ==
    ASSUME NEW h \in Handlers, work[h] \in Work, work'[h] = Unheard(work[h]), UNCHANGED rows
    PROVE  Stays(h) /\ Follows(h) /\ ~work'[h].open
<1> DEFINE w == work[h]
           u == Unheard(w)
<1>1. /\ u.open = FALSE /\ u.stage = w.stage /\ u.call = w.call /\ u.rows = w.rows
      /\ u.request = w.request /\ u.attempt = w.attempt /\ u.since = w.since
  BY DEF Unheard, Work
<1> HIDE DEF w, u
<1>2. work[h] = w /\ work'[h] = u
  BY DEF w, u
<1> QED BY <1>1, <1>2 DEF Stays, Follows, Making

LEMMA GivesUpProper == ASSUME Inv, ViewInv', NEW h \in Handlers, GivesUp(h) PROVE Proper
<1> USE DEF Inv
<1>1. /\ AtService /\ dropped \subseteq dropped' /\ UNCHANGED <<rows, made>>
      /\ Replies(h, "refused", <<>>) /\ work[h] \in Work
  BY DEF GivesUp, Disconnects, table, ViewInv, Serving
<1>2. Clock
  BY <1>1, ServiceClock, RepliesKeep DEF ViewInv
<1>3. PICK left \in {Idle, Unheard(work[h])} : work' = [work EXCEPT ![h] = left]
  BY DEF GivesUp
<1>4. CASE left = Idle
  BY <1>1, <1>2, <1>3, <1>4, IdleMakes, OneProper
<1>5. CASE left = Unheard(work[h])
  <2>1. work'[h] = Unheard(work[h]) /\ \A g \in Handlers : g # h => work'[g] = work[g]
    BY <1>3, <1>5 DEF ViewInv, Serving
  <2>2. Stays(h) /\ Follows(h)
    BY <1>1, <2>1, UnheardStays
  <2>3. \A g \in Handlers : Stays(g) /\ Follows(g)
    BY <1>1, <2>1, <2>2 DEF Stays, Follows
  <2> QED BY <1>1, <1>2, <2>3, NothingNew, FoundKept DEF Proper, Spares
<1> QED BY <1>3, <1>4, <1>5

(* Sent again: a later attempt than any before, and a lost connection more.   *)
LEMMA ResentProper ==
    ASSUME Inv, Clock, UNCHANGED <<rows, made>>, NEW h \in Handlers, NEW g \in Handlers,
           work[h].open, work[h].stage # "idle", work[h].request \in dropped',
           NEW k \in Nat, work[h].attempt \in Nat, k > work[h].attempt,
           work'[g].stage = "asked", work'[g].call = work[h].call,
           work'[g].request = work[h].request, work'[g].attempt = k,
           g # h => Stays(h) /\ Follows(h) /\ ~work'[h].open,
           \A f \in Handlers : f \notin {g, h} => work'[f] = work[f]
    PROVE  Proper
<1> USE DEF Inv
<1>1. \A f \in Handlers : Follows(f)
  BY DEF Follows
<1>2. \A f \in Handlers : f # g => Stays(f)
  BY DEF Stays
<1>3. ReqInv'
  <2>1. CASE ~Making(work'[g])
    BY <1>2, <2>1, NothingNew DEF Stays
  <2>2. CASE Making(work'[g])
    <3>1. PICK r : r = work[h].request
      OBVIOUS
    <3>2. Making(work[h]) /\ Known(r, work[h].attempt)
      BY <2>2, <3>1 DEF Making, Known, Makes
    <3>3. r \in Makers \X Nat \X Nat /\ Old(r) /\ \A a : Known(r, a) => a \in Nat /\ a <= work[h].attempt
      BY <3>1, <3>2 DEF ReqInv, Requested, Latest
    <3>4. \A a : Known(r, a) => a < k
      BY <3>3
    <3>5. Old(r)'
      BY <3>3, OldStays DEF Clock
    <3>6. ASSUME NEW f \in Handlers, f # g, work'[f].open, Making(work'[f])
          PROVE  work'[f].request # r
      <4> SUFFICES ASSUME work'[f].request = r PROVE FALSE
        OBVIOUS
      <4>1. f # h /\ work'[f] = work[f]
        BY <3>6
      <4>2. work[f].open /\ Making(work[f]) /\ work[f].request = r
        BY <3>6, <4>1
      <4>3. Known(r, work[f].attempt)
        BY <4>2 DEF Known, Makes
      <4>4. work[f].attempt \in Nat /\ work[f].attempt <= work[h].attempt
        BY <3>3, <4>3
      <4>5. work[h].attempt <= work[f].attempt
        BY <3>2, <4>2 DEF ReqInv, Latest
      <4>6. work[f].attempt = work[h].attempt
        BY <4>4, <4>5
      <4> QED BY <3>1, <3>2, <4>1, <4>2, <4>6 DEF ReqInv, Distinct
    <3>7. k \in Nat \ {0}
      OBVIOUS
    <3>8. work'[g].request = r /\ r \in dropped' /\ made' = made
      BY <3>1
    <3> QED BY <1>2, <2>2, <3>3, <3>4, <3>5, <3>6, <3>7, <3>8, AttemptNew
  <2> QED BY <2>1, <2>2
<1> QED BY <1>1, <1>3, FoundKept DEF Proper, Spares

LEMMA ResendProper == ASSUME Inv, ViewInv', NEW h \in Handlers, Resend(h) PROVE Proper
<1> USE DEF Inv
<1> DEFINE w == work[h]
           Again(S, k) == [w EXCEPT !.stage = "asked", !.rows = S, !.attempt = k, !.since = {}]
<1>1. /\ AtService /\ w.request \in dropped' /\ dropped \subseteq dropped'
      /\ UNCHANGED <<rows, made>> /\ ans' = ans /\ w.open /\ w \in Work /\ Fits(w, rows)
  BY DEF Resend, Disconnects, table, ViewInv, Serving
<1>2. w.stage # "idle" /\ w.attempt \in Nat
  BY <1>1 DEF Fits, Work
<1>3. Clock
  BY <1>1, ServiceClock
<1>4. PICK k \in w.attempt + 1 .. Attempts :
         \/ work' = [work EXCEPT ![h] = Again(w.rows, k)]
         \/ \E g \in Handlers :
               /\ work[g] = Idle
               /\ work' = [work EXCEPT
                     ![h] = Unheard(w),
                     ![g] = Again(IF w.call \in Makers THEN {Fresh} ELSE w.rows, k)]
  BY DEF Resend
<1>5. k \in Nat /\ k > w.attempt
  BY <1>2
<1>6. ASSUME NEW S
      PROVE  /\ Again(S, k).stage = "asked" /\ Again(S, k).call = w.call
             /\ Again(S, k).request = w.request /\ Again(S, k).attempt = k
  BY <1>1 DEF Work
<1> HIDE DEF Again
<1>7. CASE work' = [work EXCEPT ![h] = Again(w.rows, k)]
  <2>1. work'[h] = Again(w.rows, k) /\ \A f \in Handlers : f # h => work'[f] = work[f]
    BY <1>7 DEF ViewInv, Serving
  <2> QED BY <1>1, <1>2, <1>3, <1>5, <1>6, <2>1, ResentProper
<1>8. ASSUME NEW g \in Handlers, work[g] = Idle, NEW S,
             work' = [work EXCEPT ![h] = Unheard(w), ![g] = Again(S, k)]
      PROVE  Proper
  <2>1. g # h
    BY <1>2, <1>8 DEF Idle
  <2>2. /\ work'[h] = Unheard(w) /\ work'[g] = Again(S, k)
        /\ \A f \in Handlers : f \notin {g, h} => work'[f] = work[f]
    BY <1>8, <2>1 DEF ViewInv, Serving
  <2>3. Stays(h) /\ Follows(h) /\ ~work'[h].open
    BY <1>1, <2>2, UnheardStays
  <2> QED BY <1>1, <1>2, <1>3, <1>5, <1>6, <2>2, <2>3, ResentProper
<1> QED BY <1>4, <1>7, <1>8

-----------------------------------------------------------------------------
(* The theorems.                                                              *)

LEMMA InitProper == Init => ReqInv /\ FoundInv
<1> SUFFICES ASSUME Init PROVE ReqInv /\ FoundInv
  OBVIOUS
<1>1. /\ made = {}
      /\ \E load \in Loads : work = [h \in Handlers |-> IF h \in load.busy THEN Clearing ELSE Idle]
  BY DEF Init
<1>2. \A h \in Handlers : work[h] \in {Idle, Clearing}
  BY <1>1
<1>3. \A h \in Handlers : ~Making(work[h]) /\ work[h].stage # "found"
  <2>1. Clearing.stage = "asked" /\ Clearing.call = "clear"
    BY DEF Clearing, Background, Idle
  <2>2. ~Making(Clearing) /\ Clearing.stage # "found"
    BY <2>1 DEF Making, Makers
  <2> QED BY <1>2, <2>2, IdleMakes
<1>4. \A r, a : ~Known(r, a)
  BY <1>1, <1>3 DEF Known, Makes
<1>5. ReqInv
  BY <1>1, <1>3, <1>4 DEF ReqInv, Distinct, Requested, Latest
<1>6. FoundInv
  BY <1>3 DEF FoundInv
<1> QED BY <1>5, <1>6

LEMMA StepProper == Inv /\ [Next]_vars => Inv' /\ Spares
<1> SUFFICES ASSUME Inv, [Next]_vars PROVE ViewInv' /\ Proper
  BY DEF Proper, Inv
<1>1. ViewInv'
  BY StepView DEF Onward, Inv
<1>2. CASE UNCHANGED vars
  <2>1. UNCHANGED <<rows, work, made, dropped, ans, clicks, demos>>
    BY <1>2 DEF vars, server, table, bounds
  <2>2. clicks \in Nat /\ clicks' \in Nat /\ demos \in Nat /\ demos' \in Nat
    BY <1>1, Counted DEF Inv
  <2>3. Clock
    BY <2>1, <2>2 DEF Clock, Aging
  <2> QED BY <1>1, <2>1, <2>3, AsideProper
<1>3. ASSUME NEW c \in Calls, Proceeds(c) PROVE Proper
  BY <1>1, <1>3, FiresProper, HandleProper DEF Proceeds
<1>4. ASSUME NEW h \in Handlers, Works(h) \/ Resend(h) \/ GivesUp(h) PROVE Proper
  BY <1>1, <1>4, LookProper, CommitProper, ResendProper, GivesUpProper DEF Works
<1> QED BY <1>1, <1>2, <1>3, <1>4, OperatorProper, OtherProper DEF Next

LEMMA Held == Spec => []Inv
<1>1. Init => Inv
  BY InitView, InitProper DEF Inv
<1>2. Inv /\ [Next]_vars => Inv'
  BY StepProper
<1> QED BY <1>1, <1>2, PTL DEF Spec

(* However a dispatch or a demo task fares - its token refused and renewed,   *)
(* its answer lost, the request limited - the page sends it once: every       *)
(* attempt of the gateway at it inserts at most one row, also when handlers   *)
(* the gateway has given up go on beside later attempts, and there are        *)
(* several only where a connection was lost over that very request.           *)
THEOREM OneTask == Spec => []OneTaskPerClick
<1>1. Inv => OneTaskPerClick
  BY ReqImplies DEF Inv
<1> QED BY <1>1, Held, PTL

(* A handler of the task service commits over whatever the rows have become   *)
(* since it looked.  That, and nothing else, takes a task out of SUCCESS or   *)
(* CANCELLED other than by clearing it, or clears one that is in neither.     *)
THEOREM NothingUndone == Spec => FinishedStays
<1> DEFINE Good == \A t \in Tasks :
      LET over    == {"SUCCESS", "CANCELLED"}
          undone  == rows[t] \in over /\ rows'[t] \notin {rows[t], "GONE"}
          deleted == rows[t] \notin over \cup {"GONE"} /\ rows'[t] = "GONE"
      IN  undone \/ deleted => \E h \in Handlers : t \in work[h].since /\ work'[h].stage # "found"
<1>1. Inv /\ [Next]_vars => [Good]_<<rows, work>>
  BY StepProper DEF Spares, Over
<1>2. Spec => [][Good]_<<rows, work>>
  <2> HIDE DEF Good
  <2> QED BY <1>1, Held, PTL DEF Spec
<1> QED BY <1>2 DEF FinishedStays

=============================================================================
