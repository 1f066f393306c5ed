------------------------- MODULE DashboardViewProofs -------------------------
(***************************************************************************)
(* That the page shows, exports and announces only what is or has been so  *)
(* (TypeOK, ShowsWhatWas and ToldTruth of Dashboard), and that its         *)
(* requests move the rows as TaskLife says, for any tasks, page size,      *)
(* forms, handlers, faults and rate limit.                                 *)
(***************************************************************************)
EXTENDS Dashboard, TLAPS, FiniteSetTheorems, WellFoundedInduction, SequenceTheorems

-----------------------------------------------------------------------------
(* The k-th row of the list: it exists, as the least position up to which     *)
(* there are k of them.                                                       *)

Less == {p \in Nat \X Nat : p[1] < p[2]}

LEMMA LessWellFounded == IsWellFoundedOn(Less, Nat)
<1>1. Less \cap (Nat \X Nat) \subseteq OpToRel(<, Nat)
  BY DEF OpToRel, Less
<1> QED BY <1>1, NatLessThanWellFounded, IsWellFoundedOnSubrelation

LEMMA LeastExists ==
    ASSUME NEW T, T \subseteq Nat, T # {}
    PROVE  \E n \in T : \A m \in T : n <= m
<1>1. \E n \in T : \A m \in T : ~(<<m, n>> \in Less)
  BY LessWellFounded, WFMin, Zenon
<1>2. PICK n \in T : \A m \in T : ~(<<m, n>> \in Less)
  BY <1>1
<1>3. ASSUME NEW m \in T PROVE n <= m
  <2>1. n \in Nat /\ m \in Nat /\ ~(m < n)
    BY <1>2 DEF Less
  <2> QED BY <2>1, SMT
<1> QED BY <1>2, <1>3

UpTo(S, n) == {j \in S : j <= n}

LEMMA NthExists ==
    ASSUME NEW N \in Nat, NEW S \in SUBSET (1 .. N), NEW k \in 1 .. Cardinality(S)
    PROVE  Nth(S, k) \in S
<1> DEFINE T == {n \in Nat : k <= Cardinality(UpTo(S, n))}
<1>0. IsFiniteSet(S) /\ \A n : IsFiniteSet(UpTo(S, n)) /\ Cardinality(UpTo(S, n)) \in Nat
  <2>1. IsFiniteSet(1 .. N)
    BY FS_Interval
  <2>2. IsFiniteSet(S)
    BY <2>1, FS_Subset
  <2>3. ASSUME NEW n PROVE IsFiniteSet(UpTo(S, n)) /\ Cardinality(UpTo(S, n)) \in Nat
    <3>1. UpTo(S, n) \in SUBSET S
      BY DEF UpTo
    <3>2. IsFiniteSet(UpTo(S, n))
      BY <2>2, <3>1, FS_Subset
    <3> QED BY <3>2, FS_CardinalityType
  <2> QED BY <2>2, <2>3, Zenon
<1>1. N \in T
  <2>1. UpTo(S, N) = S
    <3>1. \A j \in S : j \in 1 .. N /\ j <= N
      OBVIOUS
    <3> QED BY <3>1 DEF UpTo
  <2> QED BY <1>0, <2>1
<1>2. PICK n \in T : \A m \in T : n <= m
  <2>1. T \subseteq Nat /\ T # {}
    BY <1>1
  <2> HIDE DEF T
  <2> QED BY <2>1, LeastExists, Zenon
<1>3. n # 0
  <2>1. UpTo(S, 0) = {}
    <3>1. \A j \in S : ~(j <= 0)
      OBVIOUS
    <3> QED BY <3>1 DEF UpTo
  <2> QED BY <2>1, FS_EmptySet
<1>4. n - 1 \in Nat /\ n - 1 \notin T
  BY <1>2, <1>3
<1>5. Cardinality(UpTo(S, n - 1)) < k /\ k <= Cardinality(UpTo(S, n))
  <2>1. Cardinality(UpTo(S, n - 1)) \in Nat
    BY <1>0
  <2> QED BY <1>2, <1>4, <2>1
<1>6. n \in S
  <2> SUFFICES ASSUME n \notin S PROVE FALSE
    OBVIOUS
  <2>1. UpTo(S, n) = UpTo(S, n - 1)
    <3>1. \A j \in S : j <= n <=> j <= n - 1
      BY <1>2
    <3> QED BY <3>1 DEF UpTo
  <2>2. Cardinality(UpTo(S, n)) \in Nat
    BY <1>0
  <2> QED BY <1>5, <2>1, <2>2
<1>7. Cardinality(UpTo(S, n)) = k
  <2>1. UpTo(S, n) = UpTo(S, n - 1) \cup {n}
    <3>1. \A j \in S : j <= n <=> j <= n - 1 \/ j = n
      BY <1>2
    <3>2. n \in Nat /\ n <= n
      BY <1>2
    <3> QED BY <1>6, <3>1, <3>2 DEF UpTo
  <2>2. n \notin UpTo(S, n - 1)
    BY <1>2 DEF UpTo
  <2>3. Cardinality(UpTo(S, n)) = Cardinality(UpTo(S, n - 1)) + 1
    BY <1>0, <2>1, <2>2, FS_AddElement
  <2>4. Cardinality(UpTo(S, n - 1)) \in Nat
    BY <1>0
  <2> QED BY <1>5, <2>3, <2>4
<1> QED BY <1>6, <1>7 DEF Nth, UpTo

-----------------------------------------------------------------------------
(* The table.                                                                 *)

Life == INSTANCE TaskLife WITH status <- rows

Values == Status \cup {"ABSENT", "GONE"}

Shaped == rows \in [Tasks -> Values]

-----------------------------------------------------------------------------
(* What the list and the export answer: the truth of this moment, and the     *)
(* list at most a page of it.                                                 *)

Honest(cards) == /\ cards \in Seq(Card)
                 /\ \A i \in 1 .. Len(cards) : cards[i].status = rows[cards[i].id]

LEMMA PresentFinite ==
    /\ Cardinality(Tasks) \in Nat /\ Present \in SUBSET (1 .. Cardinality(Tasks))
    /\ Cardinality(Present) \in Nat
<1>1. Cardinality(Tasks) \in Nat
  BY OrderAssumption, FS_CardinalityType
<1>2. Present \in SUBSET (1 .. Cardinality(Tasks))
  BY OrderAssumption DEF Present
<1>3. IsFiniteSet(1 .. Cardinality(Tasks))
  BY <1>1, FS_Interval
<1>4. IsFiniteSet(Present)
  BY <1>2, <1>3, FS_Subset
<1> QED BY <1>1, <1>2, <1>4, FS_CardinalityType

LEMMA FirstHonest ==
    ASSUME Shaped, NEW n \in Nat, n <= Cardinality(Present)
    PROVE  Honest(First(n)) /\ Len(First(n)) = n
<1> DEFINE e(k) == Row(Order[Nth(Present, k)])
<1>1. Cardinality(Tasks) \in Nat /\ Present \in SUBSET (1 .. Cardinality(Tasks))
  BY PresentFinite
<1>3. Cardinality(Present) \in Nat
  BY PresentFinite
<1>4. ASSUME NEW k \in 1 .. n
      PROVE  /\ e(k) \in Card
             /\ e(k).status = rows[e(k).id]
  <2>1. k \in 1 .. Cardinality(Present)
    BY <1>3
  <2>2. Nth(Present, k) \in Present
    BY <1>1, <2>1, NthExists
  <2>3. Order[Nth(Present, k)] \in Tasks /\ rows[Order[Nth(Present, k)]] \in Status
    BY <2>2, OrderAssumption DEF Present
  <2> QED BY <2>3 DEF Row, Card
<1>5. First(n) = [k \in 1 .. n |-> e(k)]
  BY DEF First
<1> HIDE DEF e
<1>6. First(n) \in Seq(Card)
  <2>1. First(n) \in [1 .. n -> Card]
    BY <1>4, <1>5
  <2> QED BY <2>1, SeqDef
<1>7. Len(First(n)) = n
  BY <1>5, <1>6, LenProperties
<1> QED BY <1>4, <1>5, <1>6, <1>7 DEF Honest

LEMMA PageHonest ==
    ASSUME Shaped
    PROVE  Honest(Page) /\ Len(Page) <= Limit /\ Honest(AllRows)
<1>1. Cardinality(Present) \in Nat /\ Limit \in Nat
  BY PresentFinite, BoundsAssumption
<1>2. Honest(AllRows) /\ Len(AllRows) = Cardinality(Present)
  BY <1>1, FirstHonest DEF AllRows
<1>3. CASE Cardinality(Present) < Limit
  BY <1>1, <1>2, <1>3 DEF Page
<1>4. CASE ~(Cardinality(Present) < Limit)
  BY <1>1, <1>2, <1>4, FirstHonest DEF Page
<1> QED BY <1>3, <1>4

-----------------------------------------------------------------------------
(* What a handler holds suits the table r: a maker has a new id for itself,   *)
(* any other handler rows that exist, or have existed.                        *)

Making(w) == w.stage # "idle" /\ w.call \in Makers

Fits(w, r) ==
    /\ Making(w) => /\ w.to \in Waiting
                    /\ \E t \in Tasks : w.rows = {t} /\ r[t] = "ABSENT"
    /\ w.stage # "idle" /\ w.call \notin Makers => \A t \in w.rows : r[t] # "ABSENT"
    /\ w.call = "cancel" => w.to = "CANCELLED"
    /\ w.call = "clear"  => /\ w.to = "GONE"
                            /\ w.stage = "found" => \A t \in w.rows : r[t] # "PENDING"
    /\ w.call = "mode"   => w.to \in {"auto", "manual"} /\ w.stage # "found"
    /\ w.call \in {"retry", "replay", "start", "run"} => w.to = "QUEUED"
    /\ w.open \/ Making(w) => w.call \in Writers /\ w.request[1] = w.call
    /\ w.heard => w.call \in Writers
    /\ w.stage = "idle" => ~w.heard /\ ~w.open

\* the page hears one handler a call, and no two make the same row
Apart(v, w) == /\ v.heard /\ w.heard => v.call # w.call
               /\ Making(v) /\ Making(w) => v.rows # w.rows

Serving ==
    /\ work \in [Handlers -> Work]
    /\ \A h \in Handlers : Fits(work[h], rows)
    /\ \A h \in Handlers : work[h].heard => ans[work[h].call] = Awaiting
    /\ \A g, h \in Handlers : g # h => Apart(work[g], work[h])

-----------------------------------------------------------------------------
(* The inductive invariant: every answer on its way, and everything on the    *)
(* page, says what the history of the task holds.                             *)

Truthful(cards, h) == /\ cards \in Seq(Card)
                      /\ \A i \in 1 .. Len(cards) : cards[i].status \in h[cards[i].id]

\* what is not there yet has no past
Recorded == /\ history \in [Tasks -> SUBSET Status]
            /\ \A t \in Tasks : rows[t] \in Status => rows[t] \in history[t]
            /\ \A t \in Tasks : rows[t] = "ABSENT" => history[t] = {}

\* the cards an answer holds, or will hold
Owed(a) == IF a.code = "waiting" THEN 1 ELSE Len(a.cards)

Answers ==
    /\ ans \in [Calls -> [code : Codes, cards : Seq(Card)]]
    /\ \A c \in Calls : Truthful(ans[c].cards, history)
    /\ \A c \in Fetchers : Len(ans[c].cards) <= Limit
    /\ Owed(ans["dispatch"]) <= clicks
    /\ Ok("dispatch") => Len(ans["dispatch"].cards) = 1

\* the cards the page holds, and those that a dispatch may still add to them
Listed == /\ Truthful(allTasks, history)
          /\ Len(allTasks) + Owed(ans["dispatch"]) <= Limit + clicks
          /\ exported \subseteq Card
          /\ \A card \in exported : card.status \in history[card.id]

Pending == /\ ans["seed"] # Nothing => demos > 0
           /\ ans["start"] # Nothing => arg["start"] \in Runs

StoreTyped ==
    /\ job \subseteq Tasks /\ mode \in {"auto", "manual"}
    /\ made \subseteq [task : Tasks, request : Makers \X Nat \X Nat, attempt : Nat]
    /\ dropped \subseteq Writers \X Nat \X Nat

ServerTyped == StoreTyped /\ token \in {"good", "stale", "none"} /\ LimiterTypeOK

PageTyped == /\ myMode \in {"auto", "manual"} /\ filter \in Filters \cup {None}
             /\ arg \in [Calls -> Forms \cup Tasks \cup Runs \cup {None}]
             /\ disabled \subseteq Buttons
             /\ polled \in Tasks \cup {None} /\ attempts \in 0 .. MaxAttempts
             /\ live \subseteq Runs /\ polls \in [Runs -> 0 .. MaxPolls]
             /\ online \in BOOLEAN /\ isProcessingQueue \in BOOLEAN
             /\ demos \in 0 .. Demos
             /\ told \in [Tasks -> {"nothing", "finished", "failed"}]

Bounded == clicks \in 0 .. MaxClicks /\ faults \in 0 .. MaxFaults

ViewInv == /\ Shaped /\ Recorded /\ Serving /\ Answers /\ Listed /\ Pending
           /\ ServerTyped /\ PageTyped /\ Bounded
           /\ ToldTruth

LEMMA AnswerTyped ==
    ASSUME Answers PROVE Owed(ans["dispatch"]) \in Nat /\ ans["dispatch"].cards \in Seq(Card)
<1>1. ans["dispatch"].cards \in Seq(Card)
  BY DEF Answers, Calls, Clicks
<1>2. Len(ans["dispatch"].cards) \in Nat
  BY <1>1, LenProperties
<1> QED BY <1>1, <1>2 DEF Owed

LEMMA ViewImplies == ViewInv => TypeOK /\ ShowsWhatWas /\ ToldTruth
<1> SUFFICES ASSUME ViewInv PROVE TypeOK /\ ShowsWhatWas
  BY DEF ViewInv
<1> USE DEF ViewInv
<1>1. Len(allTasks) <= Limit + MaxClicks
  <2>1. /\ Len(allTasks) \in Nat /\ Owed(ans["dispatch"]) \in Nat
        /\ Limit \in Nat /\ MaxClicks \in Nat /\ clicks \in Nat /\ clicks <= MaxClicks
    <3>1. allTasks \in Seq(Card)
      BY DEF Listed, Truthful
    <3> QED BY <3>1, AnswerTyped, LenProperties, BoundsAssumption DEF Bounded
  <2>2. Len(allTasks) + Owed(ans["dispatch"]) <= Limit + clicks
    BY DEF Listed
  <2> QED BY <2>1, <2>2
<1>2. TypeOK
  <2>1. \A c \in Calls : ans[c].code \in Codes /\ ans[c].cards \in Seq(Card)
    BY DEF Answers
  <2>2. allTasks \in Seq(Card) /\ exported \subseteq Card
    BY DEF Listed, Truthful
  <2>3. rows \in [Tasks -> Status \cup {"ABSENT", "GONE"}] /\ work \in [Handlers -> Work]
    BY DEF Shaped, Values, Serving
  <2> QED BY <1>1, <2>1, <2>2, <2>3 DEF TypeOK, Recorded, ServerTyped, StoreTyped, PageTyped, Bounded
<1>3. ShowsWhatWas
  <2>1. DOMAIN allTasks = 1 .. Len(allTasks)
    BY LenProperties DEF Listed, Truthful
  <2> QED BY <2>1 DEF ShowsWhatWas, Listed, Truthful
<1> QED BY <1>2, <1>3

LEMMA NothingTyped ==
    /\ Nothing \in [code : Codes, cards : Seq(Card)] /\ Len(Nothing.cards) = 0
    /\ \A h : Truthful(Nothing.cards, h)
    /\ ~(Nothing.code = "ok") /\ Owed(Nothing) = 0 /\ Nothing # Awaiting
  BY EmptySeq DEF Nothing, Awaiting, Codes, Truthful, Owed

(* Handlers that begin: at rest, or clearing the history for somebody else.   *)
LEMMA IdleFits ==
    /\ Idle \in Work /\ Background \in Work /\ Clearing \in Work
    /\ \A r : Fits(Idle, r) /\ Fits(Background, r) /\ Fits(Clearing, r)
    /\ \A v : /\ Apart(Idle, v) /\ Apart(v, Idle)
              /\ Apart(Background, v) /\ Apart(v, Background)
              /\ Apart(Clearing, v) /\ Apart(v, Clearing)
    /\ ~Idle.heard /\ ~Background.heard /\ ~Clearing.heard
<1> USE DEF Idle, Background, Clearing
<1>1. Idle \in Work /\ Background \in Work /\ Clearing \in Work
  BY DEF Work, Status, Waiting, Writers, Clicks
<1>2. \A r : Fits(Idle, r) /\ Fits(Background, r) /\ Fits(Clearing, r)
  BY DEF Fits, Making, Makers
<1>3. \A v : /\ Apart(Idle, v) /\ Apart(v, Idle)
             /\ Apart(Background, v) /\ Apart(v, Background)
             /\ Apart(Clearing, v) /\ Apart(v, Clearing)
  BY DEF Apart, Making, Makers
<1> QED BY <1>1, <1>2, <1>3

LEMMA InitView == Init => ViewInv
<1> SUFFICES ASSUME Init PROVE ViewInv
  OBVIOUS
<1> USE DEF Init
<1>0. /\ {Limit, Demos, MaxClicks, MaxFaults} \subseteq Nat
      /\ MaxPolls \in Nat \ {0} /\ MaxAttempts \in Nat \ {0} /\ RateLimit \in Nat \ {0}
  BY BoundsAssumption, PollingAssumption, RateLimitAssumption
<1>1. PICK load \in Loads :
         /\ rows = load.rows /\ mode = load.mode /\ token = load.token
         /\ work = [h \in Handlers |-> IF h \in load.busy THEN Clearing ELSE Idle]
  OBVIOUS
<1>2. Shaped /\ mode \in {"auto", "manual"} /\ token \in {"none", "stale"}
  BY <1>1, TasksAssumption DEF Values, Shaped
<1>3. Recorded
  BY <1>2 DEF Recorded, Values, Shaped, Status, Waiting
<1>4. \A c \in Calls : ans[c] = Nothing
  OBVIOUS
<1>5. Answers
  BY <1>0, <1>4, NothingTyped DEF Answers, Fetchers, Calls, Clicks, Ok
<1>6. Listed
  <2>1. allTasks \in Seq(Card) /\ Len(allTasks) = 0 /\ Owed(ans["dispatch"]) = 0
    BY <1>4, EmptySeq, NothingTyped DEF Calls, Clicks
  <2> QED BY <1>0, <2>1 DEF Listed, Truthful
<1>7. Pending
  BY <1>4, Zenon DEF Pending, Calls, Clicks
<1>8. ServerTyped
  BY <1>0, <1>2 DEF ServerTyped, StoreTyped, LimiterInit, LimiterTypeOK
<1>9. PageTyped
  <2>1. 0 \in 0 .. MaxPolls /\ 0 \in 0 .. MaxAttempts /\ 0 \in 0 .. Demos
    BY <1>0
  <2>2. polls \in [Runs -> 0 .. MaxPolls] /\ attempts \in 0 .. MaxAttempts /\ demos \in 0 .. Demos
    BY <2>1
  <2>3. /\ arg \in [Calls -> Forms \cup Tasks \cup Runs \cup {None}]
        /\ told \in [Tasks -> {"nothing", "finished", "failed"}]
    OBVIOUS
  <2> QED BY <1>2, <2>2, <2>3 DEF PageTyped
<1>10. Bounded /\ ToldTruth
  BY <1>0 DEF Bounded, ToldTruth
<1>11. Serving
  <2>1. \A h \in Handlers : work[h] \in {Idle, Clearing}
    BY <1>1
  <2>2. work \in [Handlers -> Work]
    BY <1>1, IdleFits
  <2> QED BY <2>1, <2>2, IdleFits DEF Serving
<1> QED BY <1>2, <1>3, <1>5, <1>6, <1>7, <1>8, <1>9, <1>10, <1>11 DEF ViewInv

-----------------------------------------------------------------------------
(* What a step does to the table: rows move as TaskLife says, and the history *)
(* with them.                                                                 *)

TableStep ==
    /\ rows' \in [Tasks -> Values] /\ history' \in [Tasks -> SUBSET Status]
    /\ \A t \in Tasks : /\ history[t] \subseteq history'[t]
                        /\ history'[t] \subseteq history[t] \cup {rows'[t]}
                        /\ rows'[t] \in Status => rows'[t] \in history'[t]
                        /\ rows'[t] = rows[t] \/ <<rows[t], rows'[t]>> \in Life!Moves

LEMMA MovesForward ==
    ASSUME TableStep, NEW t \in Tasks
    PROVE  /\ rows'[t] = "ABSENT" => rows[t] = "ABSENT"
           /\ rows'[t] = "PENDING" => rows[t] \in {"ABSENT", "PENDING"}
<1>1. rows'[t] = rows[t] \/ <<rows[t], rows'[t]>> \in Life!Moves
  BY DEF TableStep
<1> QED BY <1>1 DEF Life!Moves, Life!Inserted, Life!Queued, Life!Executed, Life!Cancelled,
         Life!Cleared, Life!Existing

LEMMA RecordedStep == Recorded /\ TableStep => Recorded'
<1> SUFFICES ASSUME Recorded, TableStep PROVE Recorded'
  OBVIOUS
<1>1. ASSUME NEW t \in Tasks, rows'[t] = "ABSENT" PROVE history'[t] = {}
  <2>1. rows[t] = "ABSENT"
    BY <1>1, MovesForward
  <2>2. history'[t] \subseteq {"ABSENT"} /\ history'[t] \subseteq Status
    BY <1>1, <2>1 DEF TableStep, Recorded
  <2> QED BY <2>2 DEF Status, Waiting
<1> QED BY <1>1 DEF Recorded, TableStep

LEMMA TruthfulStep ==
    ASSUME NEW cards, Truthful(cards, history), TableStep
    PROVE  Truthful(cards, history')
<1>1. \A i \in 1 .. Len(cards) : cards[i].id \in Tasks
  <2>1. \A i \in 1 .. Len(cards) : cards[i] \in Card
    BY ElementOfSeq DEF Truthful
  <2> QED BY <2>1 DEF Card
<1> QED BY <1>1 DEF Truthful, TableStep

LEMMA TableKept == Shaped /\ Recorded /\ rows' = rows /\ history' = history => TableStep
  BY DEF Shaped, Recorded, TableStep

LEMMA WriteStep ==
    ASSUME Recorded, NEW new \in [Tasks -> Values], NEW next, Write(new, next),
           \A t \in Tasks : new[t] = rows[t] \/ <<rows[t], new[t]>> \in Life!Moves
    PROVE  TableStep
<1>1. rows' = new /\ history' = [t \in Tasks |-> history[t] \cup ({new[t]} \cap Status)]
  BY DEF Write
<1> QED BY <1>1 DEF TableStep, Recorded

\* a handler as it was, but for what it has missed
Alike(v, w) == /\ v.stage = w.stage /\ v.call = w.call /\ v.rows = w.rows /\ v.to = w.to
               /\ v.attempt = w.attempt /\ v.heard = w.heard /\ v.open = w.open
               /\ v.request = w.request

LEMMA AlikeServes ==
    ASSUME NEW v, NEW w, Alike(v, w)
    PROVE  /\ \A r : Fits(w, r) => Fits(v, r)
           /\ \A u : Apart(u, w) => Apart(u, v)
           /\ \A u : Apart(w, u) => Apart(v, u)
           /\ Making(v) <=> Making(w)
  BY DEF Alike, Fits, Apart, Making

LEMMA WriteWork ==
    ASSUME NEW new, NEW next \in [Handlers -> Work], Write(new, next)
    PROVE  /\ work' \in [Handlers -> Work]
           /\ \A h \in Handlers : Alike(work'[h], next[h])
<1> DEFINE missed(h) == {t \in next[h].rows : next[h].stage = "found" /\ new[t] # rows[t]}
<1>1. work' = [h \in Handlers |-> [next[h] EXCEPT !.since = @ \cup missed(h)]]
  BY DEF Write
<1>2. ASSUME NEW h \in Handlers
      PROVE  work'[h] \in Work /\ Alike(work'[h], next[h])
  <2>1. next[h] \in Work /\ missed(h) \in SUBSET Tasks
    BY DEF Work
  <2>2. work'[h] = [next[h] EXCEPT !.since = @ \cup missed(h)]
    BY <1>1
  <2> HIDE DEF missed
  <2> QED BY <2>1, <2>2 DEF Work, Alike
<1> QED BY <1>1, <1>2

LEMMA FitsMoved ==
    ASSUME TableStep, NEW w \in Work, Fits(w, rows),
           Making(w) => \A t \in w.rows : rows'[t] = rows[t]
    PROVE  Fits(w, rows')
<1>1. w.rows \subseteq Tasks
  BY DEF Work
<1>2. \A t \in w.rows : /\ rows'[t] = "ABSENT" => rows[t] = "ABSENT"
                        /\ rows'[t] = "PENDING" => rows[t] \in {"ABSENT", "PENDING"}
  BY <1>1, MovesForward
<1>3. w.stage = "found" => w.stage # "idle"
  OBVIOUS
<1> QED BY <1>1, <1>2, <1>3 DEF Fits, Making, Makers

LEMMA ApartBoth == ASSUME NEW v, NEW w, Apart(v, w) PROVE Apart(w, v)
  BY DEF Apart

(* Those in G go on, the others are left alone.                               *)
LEMMA ServingStep ==
    ASSUME Serving, TableStep, work' \in [Handlers -> Work], NEW G \in SUBSET Handlers,
           \A h \in Handlers \ G :
              /\ Alike(work'[h], work[h])
              /\ Making(work[h]) => \A t \in work[h].rows : rows'[t] = rows[t]
              /\ work[h].heard => ans'[work[h].call] = ans[work[h].call],
           \A h \in G : /\ Fits(work'[h], rows')
                        /\ work'[h].heard => ans'[work'[h].call] = Awaiting,
           \A h \in G, g \in Handlers : g # h => Apart(work'[g], work'[h])
    PROVE  Serving'
<1>1. ASSUME NEW h \in Handlers PROVE Fits(work'[h], rows')
  <2>1. CASE h \in Handlers \ G
    <3>1. Fits(work[h], rows')
      BY <2>1, FitsMoved DEF Serving
    <3> QED BY <2>1, <3>1, AlikeServes
  <2> QED BY <2>1
<1>2. ASSUME NEW h \in Handlers, work'[h].heard PROVE ans'[work'[h].call] = Awaiting
  <2>1. CASE h \in Handlers \ G
    BY <1>2, <2>1 DEF Serving, Alike
  <2> QED BY <1>2, <2>1
<1>3. ASSUME NEW g \in Handlers, NEW h \in Handlers, g # h PROVE Apart(work'[g], work'[h])
  <2>1. CASE h \in G
    BY <1>3, <2>1
  <2>2. CASE g \in G
    BY <1>3, <2>2, ApartBoth
  <2>3. CASE g \notin G /\ h \notin G
    <3>1. Alike(work'[g], work[g]) /\ Alike(work'[h], work[h]) /\ Apart(work[g], work[h])
      BY <1>3, <2>3 DEF Serving
    <3>2. Apart(work[g], work'[h])
      BY <3>1, AlikeServes
    <3> QED BY <3>1, <3>2, AlikeServes
  <2> QED BY <2>1, <2>2, <2>3
<1> QED BY <1>1, <1>2, <1>3 DEF Serving

LEMMA AlikeItself == \A w : Alike(w, w)
  BY DEF Alike

(* A step of the page: no handler goes on.                                    *)
LEMMA ServingKept ==
    ASSUME Serving, TableStep, work' = work, rows' = rows,
           \A c \in Calls : ans[c] = Awaiting => ans'[c] = ans[c]
    PROVE  Serving'
<1>1. \A h \in Handlers : work[h].heard => work[h].call \in Calls /\ ans[work[h].call] = Awaiting
  BY DEF Serving, Fits, Writers, Calls
<1>2. work' \in [Handlers -> Work]
  BY DEF Serving
<1>3. \A h \in Handlers :
         /\ Alike(work'[h], work[h])
         /\ Making(work[h]) => \A t \in work[h].rows : rows'[t] = rows[t]
         /\ work[h].heard => ans'[work[h].call] = ans[work[h].call]
  BY <1>1, AlikeItself
<1> DEFINE G == {}
<1>4. G \in SUBSET Handlers /\ Handlers \ G = Handlers
  OBVIOUS
<1>5. \A h \in G, g \in Handlers : g # h => Apart(work'[g], work'[h])
  OBVIOUS
<1>6. \A h \in G : /\ Fits(work'[h], rows')
                   /\ work'[h].heard => ans'[work'[h].call] = Awaiting
  OBVIOUS
<1> HIDE DEF G
<1> QED BY <1>2, <1>3, <1>4, <1>5, <1>6, ServingStep

-----------------------------------------------------------------------------
(* What is sent, and what is answered at once.                                *)

GoodReply(c, v, h) ==
    /\ v \in [code : Codes \ {"none"}, cards : Seq(Card)] /\ Truthful(v.cards, h)
    /\ c \in Fetchers => Len(v.cards) <= Limit
    /\ c = "dispatch" => Owed(v) <= 1 /\ (v.code = "ok" => Len(v.cards) = 1)

Replied(c) == \E v : GoodReply(c, v, history') /\ ans' = [ans EXCEPT ![c] = v]

(* An answer without cards, also one that is still to come.                   *)
LEMMA EmptyReply ==
    ASSUME NEW c, NEW v, v \in [code : Codes \ {"none"}, cards : {<<>>}],
           c = "dispatch" => v.code # "ok"
    PROVE  GoodReply(c, v, history')
<1>1. v.cards = <<>> /\ v \in [code : Codes \ {"none"}, cards : Seq(Card)]
  BY EmptySeq
<1>2. Truthful(v.cards, history')
  BY <1>1, EmptySeq DEF Truthful
<1>3. Len(v.cards) = 0 /\ Owed(v) <= 1
  BY <1>1, EmptySeq DEF Owed
<1>4. 0 <= Limit
  BY BoundsAssumption
<1> QED BY <1>1, <1>2, <1>3, <1>4 DEF GoodReply

LEMMA CardsReply ==
    ASSUME NEW c, NEW cards, Truthful(cards, history'),
           c \in Fetchers => Len(cards) <= Limit, c = "dispatch" => Len(cards) = 1
    PROVE  GoodReply(c, [code |-> "ok", cards |-> cards], history')
<1> DEFINE v == [code |-> "ok", cards |-> cards]
<1>1. v \in [code : Codes \ {"none"}, cards : Seq(Card)] /\ v.cards = cards /\ v.code = "ok"
  BY DEF Truthful, Codes
<1> HIDE DEF v
<1>2. Owed(v) = Len(cards)
  BY <1>1 DEF Owed
<1>3. c = "dispatch" => Owed(v) <= 1
  BY <1>2
<1> QED BY <1>1, <1>3 DEF GoodReply, v

LEMMA LostReply ==
    ASSUME NEW c, NEW code \in {"ok", "refused"}, NEW cards, NEW heard, Answer(c, heard, code, cards),
           GoodReply(c, [code |-> code, cards |-> cards], history')
    PROVE  Replied(c)
<1>1. CASE heard
  BY <1>1 DEF Answer, Replied
<1>2. CASE ~heard
  <2> DEFINE v == [code |-> "lost", cards |-> <<>>]
  <2>1. ans' = [ans EXCEPT ![c] = v]
    BY <1>2 DEF Answer
  <2>2. v \in [code : Codes \ {"none"}, cards : {<<>>}] /\ v.code = "lost"
    BY DEF Codes
  <2> HIDE DEF v
  <2>3. GoodReply(c, v, history')
    BY <2>2, EmptyReply
  <2> QED BY <2>1, <2>3 DEF Replied
<1> QED BY <1>1, <1>2

ServedTruly(c) == TableStep /\ Replied(c) /\ Serving' /\ StoreTyped'

(* Answered in the step it is sent in. *)
LEMMA AtOnce ==
    ASSUME Shaped, Recorded, Serving, Answers, StoreTyped, NEW c \in Calls, ans[c] = Nothing,
           Replied(c), UNCHANGED server
    PROVE  ServedTruly(c)
<1>1. TableStep
  BY TableKept DEF server, table
<1>2. \A d \in Calls : ans[d] = Awaiting => ans'[d] = ans[d]
  BY NothingTyped DEF Replied, Answers
<1>3. Serving'
  BY <1>1, <1>2, ServingKept DEF server, table
<1> QED BY <1>1, <1>3 DEF ServedTruly, StoreTyped, server, table

LEMMA RefusedGood ==
    ASSUME Shaped, Recorded, Serving, Answers, StoreTyped, NEW c \in Calls, ans[c] = Nothing,
           NEW heard, Refused(c, heard)
    PROVE  ServedTruly(c)
<1>1. Answer(c, heard, "refused", <<>>) /\ UNCHANGED server
  BY DEF Refused
<1> DEFINE v == [code |-> "refused", cards |-> <<>>]
<1>2. v \in [code : Codes \ {"none"}, cards : {<<>>}] /\ v.code # "ok"
  BY DEF Codes
<1>3. GoodReply(c, v, history')
  BY <1>2, EmptyReply
<1> QED BY <1>1, <1>3, LostReply, AtOnce

(* The list and the export. *)
LEMMA ReadsGood ==
    ASSUME Shaped, Recorded, Serving, Answers, StoreTyped, NEW c \in Fetchers \cup {"export"},
           ans[c] = Nothing, NEW heard, NEW cards, Honest(cards),
           c \in Fetchers => Len(cards) <= Limit, Answer(c, heard, "ok", cards), UNCHANGED server
    PROVE  ServedTruly(c)
<1>1. history' = history
  BY DEF server, table
<1>2. Truthful(cards, history)
  <2>1. \A i \in 1 .. Len(cards) : cards[i].id \in Tasks /\ cards[i].status \in Status
    <3>1. \A i \in 1 .. Len(cards) : cards[i] \in Card
      BY ElementOfSeq DEF Honest
    <3> QED BY <3>1 DEF Card
  <2> QED BY <2>1 DEF Honest, Truthful, Recorded
<1>3. GoodReply(c, [code |-> "ok", cards |-> cards], history')
  BY <1>1, <1>2, CardsReply DEF Fetchers
<1>4. Replied(c)
  BY <1>3, LostReply
<1> QED BY <1>4, AtOnce DEF Calls, Clicks

(* Given to a handler: nobody else makes the same row, and nobody is heard    *)
(* any more about an earlier request of this kind.                            *)
LEMMA ReceiveGood ==
    ASSUME Shaped, Recorded, Serving, Answers, StoreTyped, clicks' \in Nat, demos \in Nat,
           NEW c \in Writers, ans[c] = Nothing, NEW a, NEW heard \in BOOLEAN,
           c \in Makers => Unused # {}, c \in {"cancel", "retry"} => a \in Tasks /\ rows[a] # "ABSENT",
           Receive(c, a, heard)
    PROVE  ServedTruly(c)
<1>1. PICK h \in Handlers, s \in Targets(c), guard \in BOOLEAN :
         work' = [work EXCEPT ![h] = Asked(c, Named(c, a), s, guard, heard)]
  BY DEF Receive
<1> DEFINE S == Named(c, a)
           w == Asked(c, S, s, guard, heard)
<1>2. /\ ans' = [ans EXCEPT ![c] = IF heard THEN Awaiting ELSE [Awaiting EXCEPT !.code = "lost"]]
      /\ UNCHANGED <<table, job, mode, dropped>>
  BY DEF Receive
<1>3. c \in Makers => /\ Fresh \in Tasks /\ rows[Fresh] = "ABSENT" /\ S = {Fresh}
                      /\ \A g \in Handlers : Fresh \notin work[g].rows
  BY DEF Fresh, Unused, Named, Makers
<1>4. S \subseteq Tasks /\ (c \notin Makers => \A t \in S : rows[t] # "ABSENT")
  BY <1>3 DEF Named, Makers
<1>5. /\ c \in Makers => s \in Waiting
      /\ c = "cancel" => s = "CANCELLED"
      /\ c = "clear"  => s = "GONE"
      /\ c = "mode"   => s \in {"auto", "manual"}
      /\ c \in {"retry", "replay", "start"} => s = "QUEUED"
      /\ s \in Status \cup {"GONE", "auto", "manual"}
  BY DEF Targets, Makers, Waiting, Status
<1> HIDE DEF S
<1>6. /\ w.stage = "asked" /\ w.call = c /\ w.rows = S /\ w.to = s /\ w.heard = heard
      /\ w.open = TRUE /\ w.request = <<c, clicks', demos>> /\ w \in Work
  <2> DEFINE r == <<c, clicks', demos>>
  <2>1. w = [stage |-> "asked", call |-> c, rows |-> S, to |-> s, guard |-> guard, queued |-> {},
             attempt |-> 1, heard |-> heard, open |-> TRUE, request |-> r, since |-> {}]
    BY DEF Asked
  <2>2. r \in (Writers \cup {"run"}) \X Nat \X Nat
    OBVIOUS
  <2> HIDE DEF w, r
  <2>3. w.request = r /\ w \in Work
    BY <1>4, <1>5, <2>1, <2>2 DEF Work
  <2> QED BY <2>1, <2>3 DEF r
<1> HIDE DEF w
<1>7. TableStep
  BY <1>2, TableKept DEF table
<1>8. Fits(w, rows')
  BY <1>2, <1>3, <1>4, <1>5, <1>6 DEF Fits, Making, Makers, Writers, Clicks, table
<1>9. work'[h] = w /\ work' \in [Handlers -> Work] /\ \A g \in Handlers : g # h => work'[g] = work[g]
  BY <1>1, <1>6 DEF Serving, w, S
<1>10. c \in Calls
  BY DEF Writers, Calls
<1>11. heard => ans'[c] = Awaiting
  BY <1>2, <1>10 DEF Answers
<1>12. ASSUME NEW g \in Handlers, g # h, work[g].heard
       PROVE  work[g].call # c /\ ans'[work[g].call] = ans[work[g].call]
  <2>1. work[g].call # c
    BY <1>12, NothingTyped DEF Serving
  <2> QED BY <1>2, <2>1 DEF Answers
<1>13. ASSUME NEW g \in Handlers, g # h PROVE Apart(work'[g], w)
  <2>1. work'[g] = work[g]
    BY <1>9, <1>13
  <2>2. Making(w) => work[g].rows # w.rows
    BY <1>3, <1>6, <1>13 DEF Making
  <2> QED BY <1>6, <1>12, <1>13, <2>1, <2>2 DEF Apart
<1>14. Serving'
  <2> DEFINE G == {h}
  <2>1. \A g \in Handlers \ G :
           /\ Alike(work'[g], work[g])
           /\ Making(work[g]) => \A t \in work[g].rows : rows'[t] = rows[t]
           /\ work[g].heard => ans'[work[g].call] = ans[work[g].call]
    BY <1>2, <1>9, <1>12, AlikeItself DEF table
  <2>2. \A g \in G : /\ Fits(work'[g], rows')
                     /\ work'[g].heard => ans'[work'[g].call] = Awaiting
    BY <1>6, <1>8, <1>9, <1>11
  <2>3. \A g \in G, k \in Handlers : k # g => Apart(work'[k], work'[g])
    BY <1>9, <1>13
  <2>4. G \in SUBSET Handlers
    OBVIOUS
  <2> HIDE DEF G
  <2> QED BY <1>7, <1>9, <2>1, <2>2, <2>3, <2>4, ServingStep
<1>15. Replied(c)
  <2> DEFINE v == IF heard THEN Awaiting ELSE [Awaiting EXCEPT !.code = "lost"]
  <2>1. v \in [code : Codes \ {"none"}, cards : {<<>>}] /\ v.code # "ok"
    BY DEF Awaiting, Codes
  <2>2. ans' = [ans EXCEPT ![c] = v]
    BY <1>2
  <2> HIDE DEF v
  <2>3. GoodReply(c, v, history')
    BY <2>1, EmptyReply
  <2> QED BY <2>2, <2>3 DEF Replied
<1> QED BY <1>2, <1>7, <1>14, <1>15 DEF ServedTruly, StoreTyped, table

LEMMA ServeGood ==
    ASSUME Shaped, Recorded, Serving, Answers, StoreTyped, clicks' \in Nat, demos \in Nat,
           NEW c \in Calls, ans[c] = Nothing, NEW a, NEW heard \in BOOLEAN,
           c \in Makers => Unused # {}, c \in {"cancel", "retry"} => a \in Tasks /\ rows[a] # "ABSENT",
           Serve(c, a, heard)
    PROVE  ServedTruly(c)
<1>1. CASE c \in Fetchers /\ ListTasks(c, heard)
  BY <1>1, ReadsGood, PageHonest DEF ListTasks
<1>2. CASE c = "export" /\ Export(heard)
  BY <1>2, ReadsGood, PageHonest DEF Export, Fetchers
<1>3. CASE c \in Writers /\ Receive(c, a, heard)
  BY <1>3, ReceiveGood
<1> QED BY <1>1, <1>2, <1>3 DEF Serve

-----------------------------------------------------------------------------
(* However a round trip fares.                                                *)

Trip(c, a) ==
    /\ TableStep /\ Replied(c) /\ Serving' /\ ServerTyped' /\ faults' \in 0 .. MaxFaults
    /\ ans[c] = Nothing /\ arg' = [arg EXCEPT ![c] = a]

LEMMA LimiterCounts ==
    ASSUME LimiterTypeOK, NEW n \in Nat, Count(n) PROVE LimiterTypeOK'
<1>1. hits \in Nat /\ RateLimit \in Nat /\ hits' = Incremented(n)
  BY RateLimitAssumption DEF Count, LimiterTypeOK
<1>2. hits' \in 0 .. RateLimit + 1
  BY <1>1 DEF Incremented
<1> QED BY <1>2 DEF Count, Expires, LimiterTypeOK

LEMMA SendsGood ==
    ASSUME ViewInv, clicks' \in Nat, NEW c \in Calls, NEW a, Sends(c, a),
           c \in Makers => Unused # {}, c \in {"cancel", "retry"} => a \in Tasks /\ rows[a] # "ABSENT"
    PROVE  Trip(c, a)
<1> USE DEF ViewInv
<1>0. /\ ans[c] = Nothing /\ arg' = [arg EXCEPT ![c] = a] /\ demos \in Nat
      /\ Shaped /\ Recorded /\ Serving /\ Answers /\ StoreTyped
  BY BoundsAssumption DEF Sends, Free, PageTyped, ServerTyped
<1>1. CASE Send(c, a)
  <2>1. ServedTruly(c)
    BY <1>0, <1>1, ServeGood, RefusedGood DEF Send
  <2>2. token' \in {"good", "stale", "none"} /\ faults' = faults
    BY <1>1 DEF Send, Token, ServerTyped
  <2>3. LimiterTypeOK'
    <3>1. CASE RedisUp
      <4>1. Requests(c) \in Nat
        BY DEF Requests
      <4> QED BY <1>1, <3>1, <4>1, LimiterCounts DEF Send, Counts, ServerTyped
    <3>2. CASE ~RedisUp
      BY <1>1, <3>2 DEF Send, Counts, limiter, LimiterTypeOK, ServerTyped
    <3> QED BY <3>1, <3>2
  <2> QED BY <1>0, <2>1, <2>2, <2>3 DEF Trip, ServedTruly, ServerTyped, Bounded
<1>2. CASE Refuse(c, a) \/ Lose(c, a)
  <2>1. ServedTruly(c)
    BY <1>0, <1>2, ServeGood, RefusedGood DEF Refuse, Lose
  <2>2. token' \in {token, "none"} /\ LimiterTypeOK'
    BY <1>2 DEF Refuse, Lose, limiter, ServerTyped, LimiterTypeOK
  <2>3. faults' \in 0 .. MaxFaults
    <3>1. faults' = faults + 1 /\ faults < MaxFaults
      BY <1>2 DEF Refuse, Lose, Fault
    <3>2. faults \in Nat /\ MaxFaults \in Nat
      BY BoundsAssumption DEF Bounded
    <3> QED BY <3>1, <3>2
  <2> QED BY <1>0, <2>1, <2>2, <2>3 DEF Trip, ServedTruly, ServerTyped
<1> QED BY <1>1, <1>2 DEF Sends

(* Invariants of what the page waits for, after one answer is put down: to a  *)
(* trip that begins, or in place of one that was awaited.                     *)
LEMMA ReplyAnswers ==
    ASSUME Answers, Bounded, TableStep, NEW c \in Calls, Replied(c),
           clicks' \in {clicks, clicks + 1},
           c = "dispatch" => clicks' = clicks + 1 \/ ans[c] = Awaiting
    PROVE  /\ Answers'
           /\ \A d \in Calls : d # c => ans'[d] = ans[d]
           /\ ans'[c] # Nothing
           /\ Owed(ans'["dispatch"]) <= Owed(ans["dispatch"]) + (clicks' - clicks)
<1>1. PICK v : GoodReply(c, v, history') /\ ans' = [ans EXCEPT ![c] = v]
  BY DEF Replied
<1>2. v \in [code : Codes, cards : Seq(Card)] /\ Truthful(v.cards, history') /\ v # Nothing
  BY <1>1 DEF GoodReply, Nothing
<1>3. /\ ans'[c] = v /\ \A d \in Calls : d # c => ans'[d] = ans[d]
      /\ ans' \in [Calls -> [code : Codes, cards : Seq(Card)]]
  BY <1>1, <1>2 DEF Answers
<1>4. \A d \in Calls : Truthful(ans'[d].cards, history')
  <2>1. \A d \in Calls : d # c => Truthful(ans[d].cards, history')
    BY TruthfulStep DEF Answers
  <2> QED BY <1>2, <1>3, <2>1
<1>5. \A d \in Fetchers : Len(ans'[d].cards) <= Limit
  BY <1>1, <1>3 DEF GoodReply, Answers, Calls
<1>6. /\ clicks \in Nat /\ clicks' \in Nat /\ clicks <= clicks'
      /\ Owed(ans["dispatch"]) \in Nat /\ Owed(ans["dispatch"]) <= clicks
  BY AnswerTyped DEF Bounded, Answers
<1>7. /\ Owed(ans'["dispatch"]) <= Owed(ans["dispatch"]) + (clicks' - clicks)
      /\ Owed(ans'["dispatch"]) <= clicks'
      /\ ans'["dispatch"].code = "ok" => Len(ans'["dispatch"].cards) = 1
  <2>1. CASE c = "dispatch"
    <3>1. Owed(v) \in Nat /\ Owed(v) <= 1 /\ (v.code = "ok" => Len(v.cards) = 1)
      BY <1>1, <1>2, <2>1, LenProperties DEF GoodReply, Owed
    <3>2. ans'["dispatch"] = v
      BY <1>3, <2>1
    <3>3. clicks' = clicks + 1 \/ Owed(ans["dispatch"]) = 1
      BY <2>1 DEF Owed, Awaiting
    <3> QED BY <1>6, <3>1, <3>2, <3>3
  <2>2. CASE c # "dispatch"
    <3>1. ans'["dispatch"] = ans["dispatch"]
      BY <1>3, <2>2 DEF Calls, Clicks
    <3>2. ans["dispatch"].code = "ok" => Len(ans["dispatch"].cards) = 1
      BY DEF Answers, Ok
    <3> QED BY <1>6, <3>1, <3>2
  <2> QED BY <2>1, <2>2
<1> QED BY <1>2, <1>3, <1>4, <1>5, <1>7 DEF Answers, Ok

LEMMA ToldStep ==
    ASSUME ToldTruth, TableStep, told' = told PROVE ToldTruth'
  BY DEF ToldTruth, TableStep

LEMMA RoomGrows ==
    ASSUME NEW p \in Nat, NEW q \in Nat, NEW r \in Nat, NEW k \in Nat, NEW l \in Nat, NEW n \in Nat,
           p + q <= n + k, r <= q + (l - k)
    PROVE  p + r <= n + l
  OBVIOUS

LEMMA ListedStep ==
    ASSUME Listed, Answers, Answers', Bounded, clicks' \in Nat, TableStep,
           UNCHANGED <<allTasks, exported>>,
           Owed(ans'["dispatch"]) <= Owed(ans["dispatch"]) + (clicks' - clicks)
    PROVE  Listed'
<1>1. Truthful(allTasks', history')
  BY TruthfulStep DEF Listed
<1>2. \A card \in exported : card.status \in history'[card.id]
  BY DEF Listed, Card, TableStep
<1>3. Len(allTasks) + Owed(ans'["dispatch"]) <= Limit + clicks'
  <2>1. Len(allTasks) \in Nat /\ Owed(ans["dispatch"]) \in Nat
    <3>1. allTasks \in Seq(Card)
      BY DEF Listed, Truthful
    <3> QED BY <3>1, LenProperties, AnswerTyped
  <2>2. Owed(ans'["dispatch"]) \in Nat
    <3>1. ans'["dispatch"].cards \in Seq(Card)
      BY DEF Answers, Calls, Clicks
    <3>2. Len(ans'["dispatch"].cards) \in Nat
      BY <3>1, LenProperties
    <3> QED BY <3>2 DEF Owed
  <2>3. clicks \in Nat /\ clicks' \in Nat /\ Limit \in Nat
    BY BoundsAssumption DEF Bounded
  <2>4. Len(allTasks) + Owed(ans["dispatch"]) <= Limit + clicks
    BY DEF Listed
  <2> DEFINE p == Len(allTasks)
             q == Owed(ans["dispatch"])
             r == Owed(ans'["dispatch"])
  <2>5. /\ p \in Nat /\ q \in Nat /\ r \in Nat
        /\ p + q <= Limit + clicks /\ r <= q + (clicks' - clicks)
    BY <2>1, <2>2, <2>4
  <2> HIDE DEF p, q, r
  <2>6. p + r <= Limit + clicks'
    BY <2>3, <2>5, RoomGrows
  <2> QED BY <2>6 DEF p, r
<1> QED BY <1>1, <1>2, <1>3 DEF Listed

\* what every step does
Onward == TableStep /\ ViewInv'

LEMMA TripView ==
    ASSUME ViewInv, NEW c \in Calls, NEW a \in Forms \cup Tasks \cup Runs \cup {None},
           Trip(c, a), Still, clicks' \in {clicks, clicks + 1}, clicks' <= MaxClicks,
           c = "dispatch" => clicks' = clicks + 1,
           c = "seed" => demos > 0, c = "start" => a \in Runs,
           disabled' \subseteq Buttons, UNCHANGED <<live, polls, demos>>,
           isProcessingQueue' \in BOOLEAN
    PROVE  Onward
<1> USE DEF ViewInv
<1>1. /\ Answers' /\ \A d \in Calls : d # c => ans'[d] = ans[d]
      /\ Owed(ans'["dispatch"]) <= Owed(ans["dispatch"]) + (clicks' - clicks)
  BY ReplyAnswers DEF Trip
<1>2. UNCHANGED <<screen, result, filter, myMode, exported>> /\ UNCHANGED <<allTasks, online>>
      /\ UNCHANGED <<polled, attempts, told>>
  BY DEF Still, screen, result
<1>3. Recorded' /\ ServerTyped' /\ ToldTruth' /\ Serving' /\ Shaped'
  BY <1>2, RecordedStep, ToldStep DEF Trip, TableStep, Shaped
<1>4. clicks \in Nat /\ clicks' \in Nat
  BY BoundsAssumption DEF Bounded
<1>5. Listed'
  <2>1. Listed /\ Answers /\ Bounded /\ TableStep /\ UNCHANGED <<allTasks, exported>>
    BY <1>2 DEF Trip
  <2> HIDE DEF ViewInv
  <2> QED BY <1>1, <1>4, <2>1, ListedStep
<1>6. Pending'
  <2>1. arg' = [arg EXCEPT ![c] = a] /\ arg \in [Calls -> Forms \cup Tasks \cup Runs \cup {None}]
    BY DEF Trip, PageTyped
  <2>2. "seed" \in Calls /\ "start" \in Calls
    BY DEF Calls, Clicks
  <2>3. ans'["seed"] # Nothing => demos' > 0
    BY <1>1, <2>2 DEF Pending
  <2>4. ans'["start"] # Nothing => arg'["start"] \in Runs
    <3>1. CASE c = "start"
      BY <2>1, <2>2, <3>1
    <3>2. CASE c # "start"
      BY <1>1, <2>1, <2>2, <3>2 DEF Pending
    <3> QED BY <3>1, <3>2
  <2> QED BY <2>3, <2>4 DEF Pending
<1>7. PageTyped'
  BY <1>2 DEF PageTyped, Trip
<1>8. Bounded'
  BY <1>4 DEF Bounded, Trip
<1> QED BY <1>1, <1>3, <1>5, <1>6, <1>7, <1>8 DEF Trip, Onward

(* A step that sends nothing and handles nothing; a handler may have answered *)
(* what the page awaits.                                                      *)
Heard == ans' = ans \/ \E c \in Writers : ans[c] = Awaiting /\ Replied(c)

LEMMA HeardAnswers ==
    ASSUME Answers, Bounded, TableStep, Heard, clicks' \in {clicks, clicks + 1}
    PROVE  /\ Answers' /\ \A d \in Calls : ans[d] = Nothing => ans'[d] = Nothing
           /\ Owed(ans'["dispatch"]) <= Owed(ans["dispatch"]) + (clicks' - clicks)
<1>1. ASSUME NEW c \in Writers, ans[c] = Awaiting, Replied(c)
      PROVE  /\ Answers' /\ \A d \in Calls : ans[d] = Nothing => ans'[d] = Nothing
             /\ Owed(ans'["dispatch"]) <= Owed(ans["dispatch"]) + (clicks' - clicks)
  <2>1. c \in Calls
    BY DEF Writers, Calls
  <2> QED BY <1>1, <2>1, ReplyAnswers, NothingTyped
<1>2. CASE ans' = ans
  <2>1. \A c \in Calls : Truthful(ans[c].cards, history')
    BY TruthfulStep DEF Answers
  <2>2. clicks \in Nat /\ Owed(ans["dispatch"]) \in Nat /\ Owed(ans["dispatch"]) <= clicks
    BY AnswerTyped DEF Bounded, Answers
  <2>3. /\ Owed(ans["dispatch"]) <= clicks'
        /\ Owed(ans["dispatch"]) <= Owed(ans["dispatch"]) + (clicks' - clicks)
    BY <2>2
  <2> QED BY <1>2, <2>1, <2>3 DEF Answers, Ok
<1> QED BY <1>1, <1>2 DEF Heard

LEMMA QuietView ==
    ASSUME ViewInv, TableStep, Heard, Serving', UNCHANGED <<arg, allTasks, exported, told>>,
           clicks' \in {clicks, clicks + 1}, demos' >= demos \/ demos = 0,
           ServerTyped', PageTyped', Bounded'
    PROVE  Onward
<1> USE DEF ViewInv
<1>1. Recorded' /\ ToldTruth' /\ Shaped'
  BY RecordedStep, ToldStep DEF TableStep, Shaped
<1>2. /\ Answers' /\ \A d \in Calls : ans[d] = Nothing => ans'[d] = Nothing
      /\ Owed(ans'["dispatch"]) <= Owed(ans["dispatch"]) + (clicks' - clicks)
  BY HeardAnswers
<1>3. Listed'
  <2>1. Listed /\ Answers /\ Bounded /\ clicks' \in Nat
    BY DEF Bounded
  <2> HIDE DEF ViewInv
  <2> QED BY <1>2, <2>1, ListedStep
<1>4. Pending'
  <2>1. demos \in Nat /\ demos' \in Nat /\ (demos' >= demos \/ demos = 0)
    BY BoundsAssumption DEF PageTyped
  <2>2. ans'["seed"] # Nothing => ans["seed"] # Nothing
    BY <1>2 DEF Calls, Clicks
  <2>3. ans'["start"] # Nothing => ans["start"] # Nothing
    BY <1>2 DEF Calls, Clicks
  <2> QED BY <2>1, <2>2, <2>3 DEF Pending
<1> QED BY <1>1, <1>2, <1>3, <1>4 DEF Onward

-----------------------------------------------------------------------------
(* What the operator and the timers do.                                       *)

LEMMA ClickedBounded ==
    ASSUME Bounded, Clicked
    PROVE  clicks' = clicks + 1 /\ clicks' <= MaxClicks /\ clicks' \in Nat /\ clicks \in Nat
<1>1. clicks \in Nat /\ MaxClicks \in Nat /\ clicks < MaxClicks /\ clicks' = clicks + 1
  BY BoundsAssumption DEF Clicked, Bounded
<1> QED BY <1>1

(* A card shows that its task is there, or has been.                          *)
LEMMA CardsKnown ==
    ASSUME Listed, Recorded, NEW t \in CanCancel \cup CanRetry
    PROVE  t \in Tasks /\ rows[t] # "ABSENT"
<1>1. PICK i \in DOMAIN allTasks : allTasks[i].id = t
  BY DEF CanCancel, CanRetry, Shown
<1>2. allTasks[i] \in Card /\ allTasks[i].status \in history[t]
  BY <1>1, LenProperties, ElementOfSeq DEF Listed, Truthful
<1> QED BY <1>1, <1>2 DEF Recorded, Card

(* Nothing reaches the services.                                              *)
LEMMA AsideServes ==
    ASSUME ViewInv, UNCHANGED <<rows, history, work, ans>>
    PROVE  TableStep /\ Heard /\ Serving'
<1>1. TableStep
  BY TableKept DEF ViewInv
<1> QED BY <1>1, ServingKept DEF ViewInv, Heard

LEMMA OperatorView == ASSUME ViewInv, Operator PROVE Onward
<1> USE DEF ViewInv
<1>0. Recorded /\ Listed /\ ServerTyped /\ Bounded /\ Shaped
  OBVIOUS
<1>1. ASSUME NEW f \in Forms, Dispatch(f) PROVE Onward
  <2>1. /\ Clicked /\ Unused # {} /\ Sends("dispatch", f) /\ disabled' = disabled \cup {f}
        /\ Still /\ UNCHANGED <<running, demos>>
    BY <1>1 DEF Dispatch, Room
  <2>2. clicks' = clicks + 1 /\ clicks' <= MaxClicks /\ clicks' \in Nat
    BY <2>1, ClickedBounded
  <2>3. Trip("dispatch", f)
    BY <2>1, <2>2, SendsGood DEF Calls, Clicks
  <2>4. disabled' \subseteq Buttons
    BY <2>1 DEF PageTyped, Buttons
  <2>5. UNCHANGED <<live, polls, demos>> /\ isProcessingQueue' \in BOOLEAN
    BY <2>1 DEF running, PageTyped
  <2> QED BY <2>1, <2>2, <2>3, <2>4, <2>5, TripView DEF Calls, Clicks
<1>2. CASE OpenNewTaskModal
  <2>1. /\ disabled' \subseteq disabled
        /\ UNCHANGED <<ans, arg, rows, history, work, made, job, mode, dropped>>
        /\ UNCHANGED <<token, demos, clicks, faults, hits, expiry, live, polls, isProcessingQueue>>
    BY <1>2 DEF OpenNewTaskModal, server, table, limiter, running, bounds
  <2>2. UNCHANGED <<allTasks, online, polled, attempts, told, filter, myMode, exported>>
    BY <1>2 DEF OpenNewTaskModal, Still, screen, result
  <2>3. ServerTyped' /\ PageTyped' /\ Bounded'
    BY <2>1, <2>2 DEF ServerTyped, StoreTyped, LimiterTypeOK, PageTyped, Bounded
  <2>4. demos' >= demos
    BY <2>1, BoundsAssumption DEF PageTyped
  <2> QED BY <2>1, <2>2, <2>3, <2>4, AsideServes, QuietView
<1>3. ASSUME NEW c \in Clicks, ClickCard(c) PROVE Onward
  <2>1. /\ Clicked /\ c \in {"cancel", "retry"} /\ Still /\ UNCHANGED <<running, disabled, demos>>
    BY <1>3 DEF ClickCard
  <2>2. PICK t \in CanCancel \cup CanRetry : Sends(c, t)
    BY <1>3 DEF ClickCard
  <2>3. t \in Tasks /\ rows[t] # "ABSENT"
    BY <1>0, CardsKnown
  <2>4. clicks' = clicks + 1 /\ clicks' <= MaxClicks /\ clicks' \in Nat
    BY <2>1, ClickedBounded
  <2>5. Trip(c, t)
    BY <2>1, <2>2, <2>3, <2>4, SendsGood DEF Calls, Makers
  <2>6. UNCHANGED <<live, polls, demos>> /\ isProcessingQueue' \in BOOLEAN /\ disabled' \subseteq Buttons
    BY <2>1 DEF running, PageTyped
  <2> QED BY <2>1, <2>3, <2>4, <2>5, <2>6, TripView DEF Calls
<1>4. ASSUME NEW c \in Clicks, ClickButton(c) PROVE Onward
  <2>1. /\ Clicked /\ c \in {"replay", "clear", "mode", "export"} /\ Sends(c, None)
        /\ disabled' = disabled \cup {c} /\ Still /\ UNCHANGED <<running, demos>>
    BY <1>4 DEF ClickButton
  <2>2. clicks' = clicks + 1 /\ clicks' <= MaxClicks /\ clicks' \in Nat
    BY <2>1, ClickedBounded
  <2>3. Trip(c, None)
    BY <2>1, <2>2, SendsGood DEF Calls, Makers
  <2>4. UNCHANGED <<live, polls, demos>> /\ isProcessingQueue' \in BOOLEAN /\ disabled' \subseteq Buttons
    BY <2>1 DEF running, PageTyped, Buttons
  <2> QED BY <2>1, <2>2, <2>3, <2>4, TripView DEF Calls
<1>5. CASE StartPriorityProcessing
  <2>1. /\ Clicked /\ isProcessingQueue' = TRUE /\ Still
        /\ UNCHANGED <<live, polls, disabled, demos>>
    BY <1>5 DEF StartPriorityProcessing
  <2>2. PICK r \in Runs : Sends("start", r)
    BY <1>5 DEF StartPriorityProcessing
  <2>3. clicks' = clicks + 1 /\ clicks' <= MaxClicks /\ clicks' \in Nat
    BY <2>1, ClickedBounded
  <2>4. Trip("start", r)
    BY <2>2, <2>3, SendsGood DEF Calls, Clicks, Makers
  <2>5. disabled' \subseteq Buttons
    BY <2>1 DEF PageTyped
  <2> QED BY <2>1, <2>3, <2>4, <2>5, TripView DEF Calls, Clicks
<1>6. CASE SeedDemoTasks
  <2>1. /\ Clicked /\ demos = 0 /\ demos' = Demos
        /\ UNCHANGED <<ans, arg, rows, history, work, made, job, mode, dropped>>
        /\ UNCHANGED <<token, disabled, faults, hits, expiry, live, polls, isProcessingQueue>>
    BY <1>6 DEF SeedDemoTasks, server, table, limiter, running
  <2>2. UNCHANGED <<allTasks, online, polled, attempts, told, filter, myMode, exported>>
    BY <1>6 DEF SeedDemoTasks, Still, screen, result
  <2>3. clicks \in Nat /\ clicks' = clicks + 1 /\ clicks' <= MaxClicks /\ Demos \in Nat
    BY <2>1, ClickedBounded, BoundsAssumption
  <2>4. ServerTyped' /\ PageTyped' /\ Bounded'
    BY <2>1, <2>2, <2>3 DEF ServerTyped, StoreTyped, LimiterTypeOK, PageTyped, Bounded
  <2> QED BY <2>1, <2>2, <2>3, <2>4, AsideServes, QuietView
<1>7. ASSUME NEW f \in Filters \cup {None}, SetFilter(f) PROVE Onward
  <2>1. /\ Clicked /\ filter' = f
        /\ UNCHANGED <<ans, arg, rows, history, work, made, job, mode, dropped>>
        /\ UNCHANGED <<token, disabled, faults, hits, expiry, live, polls, isProcessingQueue, demos>>
        /\ UNCHANGED <<allTasks, online, polled, attempts, told, myMode, exported>>
    BY <1>7 DEF SetFilter, server, table, limiter, running, screen, result
  <2>2. clicks \in Nat /\ clicks' = clicks + 1 /\ clicks' <= MaxClicks /\ demos' >= demos
    BY <2>1, ClickedBounded, BoundsAssumption DEF PageTyped
  <2>3. ServerTyped' /\ PageTyped' /\ Bounded'
    BY <2>1, <2>2 DEF ServerTyped, StoreTyped, LimiterTypeOK, PageTyped, Bounded
  <2> QED BY <2>1, <2>2, <2>3, AsideServes, QuietView
<1> QED BY <1>1, <1>2, <1>3, <1>4, <1>5, <1>6, <1>7, Zenon DEF Operator

LEMMA FiresView == ASSUME ViewInv, NEW c \in Calls, Fires(c) PROVE Onward
<1> USE DEF ViewInv
<1>1. /\ Still /\ UNCHANGED <<running, clicks, disabled, demos>>
      /\ c \in Makers => Unused # {}
      /\ c = "seed" => demos > 0
      /\ c \in Fetchers \cup {"seed"}
  BY DEF Fires, TimerFires, PollFires, FastPollFires, SubmitNextDemo, Room, Makers, Fetchers
<1>2. PICK a \in Runs \cup {None} : Sends(c, a)
  <2>1. live \subseteq Runs
    BY DEF PageTyped
  <2> QED BY <2>1 DEF Fires, TimerFires, PollFires, FastPollFires, SubmitNextDemo
<1>3. c \notin {"dispatch", "start", "cancel", "retry"} /\ clicks' \in Nat
  BY <1>1 DEF Fetchers, Bounded
<1>4. Trip(c, a)
  BY <1>1, <1>2, <1>3, SendsGood
<1>5. /\ UNCHANGED <<live, polls, demos>> /\ isProcessingQueue' \in BOOLEAN
      /\ disabled' \subseteq Buttons /\ clicks' = clicks /\ clicks' <= MaxClicks
  BY <1>1, BoundsAssumption DEF running, PageTyped, Bounded
<1> QED BY <1>1, <1>3, <1>4, <1>5, TripView

-----------------------------------------------------------------------------
(* The rest of the system.                                                    *)

(* A row moves by itself: no new one, and so none of a maker's.               *)
LEMMA MovesServe ==
    ASSUME ViewInv, NEW t \in Tasks, NEW s \in Values, Moves(t, s),
           s = rows[t] \/ (rows[t] # "ABSENT" /\ <<rows[t], s>> \in Life!Moves)
    PROVE  TableStep /\ Heard /\ Serving'
<1> USE DEF ViewInv
<1> DEFINE new == [rows EXCEPT ![t] = s]
<1>1. Write(new, work) /\ ans' = ans
  BY DEF Moves, Elsewhere
<1>2. new \in [Tasks -> Values] /\ rows' = new
  BY <1>1 DEF Shaped, Write
<1>3. \A u \in Tasks : /\ new[u] = rows[u] \/ <<rows[u], new[u]>> \in Life!Moves
                       /\ rows[u] = "ABSENT" => new[u] = rows[u]
  BY DEF Shaped
<1> HIDE DEF new
<1>4. TableStep
  BY <1>1, <1>2, <1>3, WriteStep
<1>5. work' \in [Handlers -> Work] /\ \A h \in Handlers : Alike(work'[h], work[h])
  BY <1>1, WriteWork DEF Serving
<1>6. \A h \in Handlers : Making(work[h]) => \A u \in work[h].rows : rows'[u] = rows[u]
  BY <1>2, <1>3 DEF Serving, Fits
<1>7. Serving'
  <2> DEFINE G == {}
  <2>1. \A h \in Handlers \ G :
           /\ Alike(work'[h], work[h])
           /\ Making(work[h]) => \A u \in work[h].rows : rows'[u] = rows[u]
           /\ work[h].heard => ans'[work[h].call] = ans[work[h].call]
    BY <1>1, <1>5, <1>6
  <2>2. /\ G \in SUBSET Handlers
        /\ \A h \in G : /\ Fits(work'[h], rows')
                        /\ work'[h].heard => ans'[work'[h].call] = Awaiting
        /\ \A h \in G, g \in Handlers : g # h => Apart(work'[g], work'[h])
    OBVIOUS
  <2> HIDE DEF G
  <2> QED BY <1>4, <1>5, <2>1, <2>2, ServingStep
<1> QED BY <1>1, <1>4, <1>7 DEF Heard

LEMMA OtherView ==
    ASSUME ViewInv,
           \/ \E t \in Tasks : Worker(t) \/ Ready(t)
           \/ OthersSwitchMode \/ TokenExpires \/ LimiterFails \/ NextWindow
    PROVE  Onward
<1> USE DEF ViewInv
<1>0. Bounded
  OBVIOUS
<1>1. Elsewhere
  BY DEF Worker, Ready, Starts, JobTakes, Ends, Moves, OthersSwitchMode, TokenExpires,
         LimiterFails, NextWindow
<1>2. /\ UNCHANGED <<ans, arg, filter, myMode, disabled, demos, exported>>
      /\ UNCHANGED <<allTasks, online, live, polls, isProcessingQueue, polled, attempts, told>>
  BY <1>1 DEF Elsewhere, screen, running, result
<1>3. PageTyped' /\ demos' >= demos
  BY <1>2, BoundsAssumption DEF PageTyped
<1>4. ASSUME NEW t \in Tasks, Worker(t) \/ Ready(t) PROVE Onward
  <2>1. PICK s \in Values :
           /\ Moves(t, s) /\ job' \subseteq job
           /\ s = rows[t] \/ (rows[t] # "ABSENT" /\ <<rows[t], s>> \in Life!Moves)
    <3>1. rows[t] \in Values
      BY DEF Shaped
    <3> QED BY <1>4, <3>1 DEF Worker, Ready, Starts, JobTakes, Ends, Values, Status, Waiting,
          Life!Moves, Life!Queued, Life!Executed, Life!Existing
  <2>2. TableStep /\ Heard /\ Serving'
    BY <2>1, MovesServe
  <2>3. UNCHANGED <<limiter, mode, bounds, token, made, dropped>>
    BY <2>1 DEF Moves
  <2>4. ServerTyped' /\ Bounded'
    BY <2>1, <2>3 DEF ServerTyped, StoreTyped, Bounded, limiter, bounds, LimiterTypeOK
  <2> QED BY <1>2, <1>3, <2>2, <2>3, <2>4, QuietView DEF bounds
<1>5. CASE OthersSwitchMode
  <2>1. /\ UNCHANGED <<hits, expiry, rows, history, made, work, job, dropped, faults, token>>
        /\ mode' \in {"auto", "manual"}
    BY <1>5 DEF OthersSwitchMode, limiter, table
  <2>2. clicks \in Nat /\ clicks' = clicks + 1 /\ clicks' <= MaxClicks
    BY <1>0, <1>5, ClickedBounded DEF OthersSwitchMode
  <2>3. ServerTyped' /\ Bounded'
    BY <2>1, <2>2 DEF ServerTyped, StoreTyped, Bounded, LimiterTypeOK
  <2> QED BY <1>2, <1>3, <2>1, <2>2, <2>3, AsideServes, QuietView
<1>6. CASE TokenExpires \/ LimiterFails \/ NextWindow
  <2>1. UNCHANGED <<rows, history, made, work, job, mode, dropped, clicks>>
    BY <1>6 DEF TokenExpires, LimiterFails, NextWindow, server, table, bounds
  <2>2. token' \in {token, "stale"} /\ LimiterTypeOK'
    BY <1>6, RateLimitAssumption DEF TokenExpires, LimiterFails, NextWindow, limiter, CountOnly,
       WindowEnds, Incremented, LimiterTypeOK, ServerTyped
  <2>3. faults' \in 0 .. MaxFaults
    BY <1>6, BoundsAssumption DEF TokenExpires, LimiterFails, NextWindow, Fault, bounds, Bounded
  <2>4. ServerTyped' /\ Bounded'
    BY <2>1, <2>2, <2>3 DEF ServerTyped, StoreTyped, Bounded
  <2> QED BY <1>2, <1>3, <2>1, <2>4, AsideServes, QuietView
<1> QED BY <1>4, <1>5, <1>6

-----------------------------------------------------------------------------
(* The handlers.                                                              *)

LEMMA ServiceView ==
    ASSUME ViewInv, AtService, TableStep, Heard, Serving', StoreTyped', faults' \in 0 .. MaxFaults
    PROVE  Onward
<1> USE DEF ViewInv
<1>1. /\ UNCHANGED <<arg, filter, myMode, disabled, demos, exported, clicks, token, hits, expiry>>
      /\ UNCHANGED <<allTasks, online, live, polls, isProcessingQueue, polled, attempts, told>>
  BY DEF AtService, screen, running, result, limiter
<1>2. PageTyped' /\ Bounded' /\ ServerTyped' /\ demos' >= demos
  BY <1>1, BoundsAssumption DEF PageTyped, Bounded, ServerTyped, LimiterTypeOK
<1> QED BY <1>1, <1>2, QuietView

(* One handler goes on.                                                       *)
LEMMA OneGoesOn ==
    ASSUME Serving, TableStep, NEW h \in Handlers, NEW w, Alike(work'[h], w), Fits(w, rows'),
           work' \in [Handlers -> Work], w.heard => ans'[w.call] = Awaiting,
           \A g \in Handlers : g # h =>
              /\ Alike(work'[g], work[g]) /\ Apart(work[g], w)
              /\ Making(work[g]) => \A t \in work[g].rows : rows'[t] = rows[t]
              /\ work[g].heard => ans'[work[g].call] = ans[work[g].call]
    PROVE  Serving'
<1> DEFINE G == {h}
<1>1. G \in SUBSET Handlers
  OBVIOUS
<1>2. \A g \in Handlers \ G :
         /\ Alike(work'[g], work[g])
         /\ Making(work[g]) => \A t \in work[g].rows : rows'[t] = rows[t]
         /\ work[g].heard => ans'[work[g].call] = ans[work[g].call]
  OBVIOUS
<1>3. Fits(work'[h], rows') /\ (work'[h].heard => ans'[work'[h].call] = Awaiting)
  <2>1. Fits(work'[h], rows')
    BY AlikeServes
  <2> QED BY <2>1 DEF Alike
<1>4. \A k \in G : Fits(work'[k], rows') /\ (work'[k].heard => ans'[work'[k].call] = Awaiting)
  BY <1>3
<1>5. ASSUME NEW g \in Handlers, g # h PROVE Apart(work'[g], work'[h])
  <2>1. Alike(work'[g], work[g]) /\ Apart(work[g], w)
    BY <1>5
  <2>2. Apart(work'[g], w)
    BY <2>1, AlikeServes
  <2> QED BY <2>2, AlikeServes
<1>6. \A k \in G, g \in Handlers : g # k => Apart(work'[g], work'[k])
  BY <1>5
<1> HIDE DEF G
<1> QED BY <1>1, <1>2, <1>4, <1>6, ServingStep

LEMMA AnswersOne ==
    ASSUME ViewInv, NEW h \in Handlers, NEW code, NEW cards, Replies(h, code, cards),
           GoodReply(work[h].call, [code |-> code, cards |-> cards], history')
    PROVE  /\ Heard
           /\ \A g \in Handlers : g # h /\ work[g].heard => ans'[work[g].call] = ans[work[g].call]
<1> USE DEF ViewInv
<1>1. CASE work[h].heard
  <2>1. work[h].call \in Writers /\ ans[work[h].call] = Awaiting
    BY <1>1 DEF Serving, Fits
  <2>2. ans' = [ans EXCEPT ![work[h].call] = [code |-> code, cards |-> cards]]
    BY <1>1 DEF Replies
  <2>3. Heard
    BY <2>1, <2>2 DEF Heard, Replied
  <2>4. ASSUME NEW g \in Handlers, g # h, work[g].heard
        PROVE  ans'[work[g].call] = ans[work[g].call]
    <3>1. work[g].call # work[h].call
      BY <1>1, <2>4 DEF Serving, Apart
    <3> QED BY <2>2, <3>1 DEF Answers
  <2> QED BY <2>3, <2>4
<1>2. CASE ~work[h].heard
  BY <1>2 DEF Replies, Heard
<1> QED BY <1>1, <1>2

LEMMA WithoutCards ==
    ASSUME NEW c, NEW code \in {"ok", "refused"}, c = "dispatch" => code # "ok"
    PROVE  GoodReply(c, [code |-> code, cards |-> <<>>], history')
<1> DEFINE v == [code |-> code, cards |-> <<>>]
<1>1. v \in [code : Codes \ {"none"}, cards : {<<>>}] /\ v.code = code
  BY DEF Codes
<1> HIDE DEF v
<1>2. GoodReply(c, v, history')
  BY <1>1, EmptyReply
<1> QED BY <1>2 DEF v

(* A handler answers and is done with, having written nothing.                *)
LEMMA ReturnsServes ==
    ASSUME ViewInv, NEW h \in Handlers, NEW code \in {"ok", "refused"}, Returns(h, code),
           work[h].call = "dispatch" => code # "ok"
    PROVE  TableStep /\ Heard /\ Serving'
<1> USE DEF ViewInv
<1>1. /\ work' = [work EXCEPT ![h] = Idle] /\ Replies(h, code, <<>>)
      /\ UNCHANGED <<rows, history, made, job, mode>>
  BY DEF Returns, table
<1>2. TableStep
  BY <1>1, TableKept
<1>3. /\ Heard
      /\ \A g \in Handlers : g # h /\ work[g].heard => ans'[work[g].call] = ans[work[g].call]
  BY <1>1, AnswersOne, WithoutCards
<1>4. work' \in [Handlers -> Work] /\ Alike(work'[h], Idle)
  BY <1>1, IdleFits, AlikeItself DEF Serving
<1>5. \A g \in Handlers : g # h =>
         /\ Alike(work'[g], work[g]) /\ Apart(work[g], Idle)
         /\ Making(work[g]) => \A t \in work[g].rows : rows'[t] = rows[t]
         /\ work[g].heard => ans'[work[g].call] = ans[work[g].call]
  BY <1>1, <1>3, IdleFits, AlikeItself DEF Serving
<1>6. Fits(Idle, rows') /\ ~Idle.heard
  BY IdleFits
<1> QED BY <1>2, <1>3, <1>4, <1>5, <1>6, OneGoesOn

(* A handler finds its rows.                                                  *)
LEMMA SelectsServes ==
    ASSUME ViewInv, NEW h \in Handlers, work[h].stage = "asked", work[h].call # "mode",
           NEW S \in SUBSET Tasks, NEW others \in SUBSET Tasks, Selects(h, S, others),
           work[h].call \in Makers => S = work[h].rows,
           work[h].call \notin Makers => \A t \in S : rows[t] # "ABSENT",
           work[h].call = "clear" => \A t \in S : rows[t] # "PENDING"
    PROVE  TableStep /\ Heard /\ Serving'
<1> USE DEF ViewInv
<1> DEFINE w == [work[h] EXCEPT !.stage = "found", !.rows = S, !.queued = others]
<1>1. work' = [work EXCEPT ![h] = w] /\ UNCHANGED <<ans, rows, history, made, job, mode>>
  BY DEF Selects, table
<1>2. work[h] \in Work
  BY DEF Serving
<1>3. /\ w \in Work /\ w.stage = "found" /\ w.call = work[h].call /\ w.rows = S
      /\ w.to = work[h].to /\ w.heard = work[h].heard /\ w.open = work[h].open
      /\ w.request = work[h].request
  BY <1>2 DEF Work
<1> HIDE DEF w
<1>4. TableStep /\ Heard
  BY <1>1, TableKept DEF Heard
<1>5. Fits(w, rows)
  <2>1. Fits(work[h], rows)
    BY DEF Serving
  <2> QED BY <1>3, <2>1 DEF Fits, Making
<1>6. work' \in [Handlers -> Work] /\ work'[h] = w /\ \A g \in Handlers : g # h => work'[g] = work[g]
  BY <1>1, <1>3 DEF Serving
<1>7. ASSUME NEW g \in Handlers, g # h PROVE Apart(work[g], w)
  <2>1. Apart(work[g], work[h])
    BY <1>7 DEF Serving
  <2> QED BY <1>3, <2>1 DEF Apart, Making
<1>8. \A g \in Handlers : g # h =>
         /\ Alike(work'[g], work[g]) /\ Apart(work[g], w)
         /\ Making(work[g]) => \A t \in work[g].rows : rows'[t] = rows[t]
         /\ work[g].heard => ans'[work[g].call] = ans[work[g].call]
  BY <1>1, <1>6, <1>7, AlikeItself
<1>9. Fits(w, rows') /\ (w.heard => ans'[w.call] = Awaiting) /\ Alike(work'[h], w)
  BY <1>1, <1>3, <1>5, <1>6, AlikeItself DEF Serving
<1> QED BY <1>4, <1>6, <1>8, <1>9, OneGoesOn

LEMMA LookView == ASSUME ViewInv, NEW h \in Handlers, Look(h) PROVE Onward
<1> USE DEF ViewInv
<1>1. /\ work[h].stage = "asked" /\ AtService /\ UNCHANGED <<dropped, faults>>
      /\ work[h] \in Work /\ work[h].rows \in SUBSET Tasks /\ Fits(work[h], rows)
  BY DEF Look, Serving, Work
<1>2. /\ work[h].call \notin Makers => \A t \in work[h].rows : rows[t] # "ABSENT"
      /\ work[h].call = "mode" => work[h].to \in {"auto", "manual"}
  BY <1>1 DEF Fits
<1>3. ASSUME NEW code \in {"ok", "refused"}, Returns(h, code), work[h].call = "dispatch" => code # "ok"
      PROVE  TableStep /\ Heard /\ Serving' /\ StoreTyped'
  BY <1>1, <1>3, ReturnsServes DEF Returns, ServerTyped, StoreTyped, table
<1>4. ASSUME NEW S \in SUBSET Tasks, NEW others \in SUBSET Tasks, Selects(h, S, others),
             work[h].call # "mode",
             work[h].call \in Makers => S = work[h].rows,
             work[h].call \notin Makers => \A t \in S : rows[t] # "ABSENT",
             work[h].call = "clear" => \A t \in S : rows[t] # "PENDING"
      PROVE  TableStep /\ Heard /\ Serving' /\ StoreTyped'
  <2>1. TableStep /\ Heard /\ Serving'
    BY <1>1, <1>4, SelectsServes
  <2> QED BY <1>1, <1>4, <2>1 DEF Selects, ServerTyped, StoreTyped, table
<1>5. TableStep /\ Heard /\ Serving' /\ StoreTyped'
  <2>1. CASE work[h].call \in Makers /\ CreateTask(h)
    <3>1. Returns(h, "refused") \/ Selects(h, work[h].rows, {})
      BY <2>1 DEF CreateTask, Finds
    <3> QED BY <1>1, <1>3, <1>4, <2>1, <3>1 DEF Makers
  <2>2. CASE work[h].call = "cancel" /\ CancelTask(h)
    <3>1. Returns(h, "refused") \/ Selects(h, work[h].rows, {})
      BY <2>2 DEF CancelTask, Finds
    <3> QED BY <1>1, <1>2, <1>3, <1>4, <2>2, <3>1 DEF Makers
  <2>3. CASE work[h].call = "retry" /\ RetryTask(h)
    <3>1. Returns(h, "refused") \/ Selects(h, work[h].rows, {})
      BY <2>3 DEF RetryTask, Finds
    <3> QED BY <1>1, <1>2, <1>3, <1>4, <2>3, <3>1 DEF Makers
  <2>4. CASE work[h].call = "replay" /\ ReplayAll(h)
    <3> DEFINE S == {t \in Tasks : rows[t] = "DEAD_LETTERED"}
    <3>1. Returns(h, "ok") \/ Selects(h, S, {})
      BY <2>4 DEF ReplayAll, Finds
    <3> QED BY <1>3, <1>4, <2>4, <3>1 DEF Makers
  <2>5. CASE work[h].call = "clear" /\ ClearHistory(h)
    <3> DEFINE S == {t \in Tasks : rows[t] \in {"SUCCESS", "CANCELLED"}}
    <3>1. Returns(h, "ok") \/ Selects(h, S, {})
      BY <2>5 DEF ClearHistory, Finds
    <3> QED BY <1>3, <1>4, <2>5, <3>1 DEF Makers
  <2>6. CASE work[h].call = "start" /\ StartProcessing(h)
    <3>1. PICK S \in SUBSET {t \in Tasks : rows[t] = "PENDING"} :
              Returns(h, "ok") \/ Selects(h, S, {})
      BY <2>6 DEF StartProcessing, Finds, Ripe
    <3> QED BY <1>3, <1>4, <2>6, <3>1 DEF Makers
  <2>7. CASE work[h].call = "mode" /\ SetExecutionMode(h)
    <3>1. /\ mode' = work[h].to /\ Replies(h, "ok", <<>>) /\ UNCHANGED <<rows, history, made, job>>
          /\ \E w \in {Background, Idle} : work' = [work EXCEPT ![h] = w]
      BY <2>7 DEF SetExecutionMode, table
    <3>2. PICK w \in {Background, Idle} : work' = [work EXCEPT ![h] = w]
      BY <3>1
    <3>3. w \in Work /\ Fits(w, rows') /\ ~w.heard /\ \A v : Apart(v, w)
      BY IdleFits
    <3>4. TableStep
      BY <3>1, TableKept
    <3>5. /\ Heard
          /\ \A g \in Handlers : g # h /\ work[g].heard => ans'[work[g].call] = ans[work[g].call]
      BY <2>7, <3>1, AnswersOne, WithoutCards
    <3>6. work' \in [Handlers -> Work] /\ Alike(work'[h], w)
      BY <3>2, <3>3, AlikeItself DEF Serving
    <3>7. \A g \in Handlers : g # h =>
             /\ Alike(work'[g], work[g]) /\ Apart(work[g], w)
             /\ Making(work[g]) => \A t \in work[g].rows : rows'[t] = rows[t]
             /\ work[g].heard => ans'[work[g].call] = ans[work[g].call]
      BY <3>1, <3>2, <3>3, <3>5, AlikeItself DEF Serving
    <3>8. Serving'
      BY <3>3, <3>4, <3>6, <3>7, OneGoesOn
    <3> QED BY <1>1, <1>2, <2>7, <3>1, <3>4, <3>5, <3>8 DEF ServerTyped, StoreTyped
  <2>8. CASE work[h].call = "run" /\ ProcessPriorityQueue(h)
    <3>1. PICK S \in SUBSET {t \in Tasks : rows[t] = "PENDING"} :
              Returns(h, "ok") \/ Selects(h, S, Queue)
      BY <2>8 DEF ProcessPriorityQueue, Ripe
    <3> QED BY <1>3, <1>4, <2>8, <3>1 DEF Makers, Queue
  <2> QED BY <2>1, <2>2, <2>3, <2>4, <2>5, <2>6, <2>7, <2>8 DEF Look
<1>6. faults' \in 0 .. MaxFaults
  BY <1>1 DEF Bounded
<1> QED BY <1>1, <1>5, <1>6, ServiceView


(* What is committed moves its rows as TaskLife says, and no other.           *)
LEMMA CommitMoves ==
    ASSUME Shaped, NEW w \in Work, w.stage = "found", Fits(w, rows), ~Vanished(w), NEW t \in w.rows
    PROVE  w.to \in Values /\ (w.to = rows[t] \/ <<rows[t], w.to>> \in Life!Moves)
<1>1. t \in Tasks /\ rows[t] \in Values
  BY DEF Work, Shaped
<1>2. w.call \in Makers \cup {"cancel", "clear", "retry", "replay", "start", "run"}
  BY DEF Work, Fits, Makers, Writers, Clicks
<1> USE DEF Values, Status, Waiting, Life!Moves, Life!Existing
<1>3. CASE w.call \in Makers
  <2>1. w.to \in Waiting /\ rows[t] = "ABSENT"
    BY <1>3 DEF Fits, Making
  <2> QED BY <2>1 DEF Life!Inserted
<1>4. CASE w.call = "cancel"
  <2>1. w.to = "CANCELLED" /\ rows[t] # "ABSENT" /\ rows[t] # "GONE"
    BY <1>4 DEF Fits, Makers, Vanished
  <2> QED BY <1>1, <2>1 DEF Life!Cancelled
<1>5. CASE w.call = "clear"
  <2>1. w.to = "GONE" /\ rows[t] # "ABSENT" /\ rows[t] # "PENDING"
    BY <1>5 DEF Fits, Makers
  <2> QED BY <1>1, <2>1 DEF Life!Cleared
<1>6. CASE w.call \in {"retry", "replay", "start", "run"}
  <2>1. w.to = "QUEUED" /\ rows[t] # "ABSENT" /\ rows[t] # "GONE"
    BY <1>6 DEF Fits, Makers, Vanished
  <2> QED BY <1>1, <2>1 DEF Life!Queued
<1> QED BY <1>2, <1>3, <1>4, <1>5, <1>6

(* A row that somebody is about to make is made by nobody else.               *)
LEMMA OthersMake ==
    ASSUME Serving, NEW h \in Handlers, NEW g \in Handlers, g # h, Making(work[g]),
           work[h].stage = "found"
    PROVE  \A t \in work[g].rows : t \notin work[h].rows
<1>1. Apart(work[g], work[h]) /\ Fits(work[g], rows) /\ Fits(work[h], rows)
  BY DEF Serving
<1>2. PICK u \in Tasks : work[g].rows = {u} /\ rows[u] = "ABSENT"
  BY <1>1 DEF Fits
<1>3. CASE work[h].call \in Makers
  <2>1. Making(work[h]) /\ work[g].rows # work[h].rows
    BY <1>1, <1>3 DEF Making, Apart
  <2>2. \E t \in Tasks : work[h].rows = {t}
    BY <1>1, <2>1 DEF Fits
  <2> QED BY <1>2, <2>1, <2>2
<1>4. CASE work[h].call \notin Makers
  BY <1>1, <1>2, <1>4 DEF Fits
<1> QED BY <1>3, <1>4

LEMMA MadeTrue ==
    ASSUME Serving, NEW h \in Handlers, work[h].stage = "found", work[h].call \in Makers,
           history' = [t \in Tasks |-> history[t] \cup
                         ({IF t \in work[h].rows THEN work[h].to ELSE rows[t]} \cap Status)]
    PROVE  /\ Truthful(<<Made(work[h])>>, history') /\ Len(<<Made(work[h])>>) = 1
           /\ \E t \in Tasks : Inserts(work[h]) =
                 {[task |-> t, request |-> work[h].request, attempt |-> work[h].attempt]}
           /\ work[h].request \in Makers \X Nat \X Nat /\ work[h].attempt \in Nat
<1> DEFINE w == work[h]
<1>1. Fits(w, rows) /\ w \in Work /\ Making(w)
  BY DEF Serving, Making
<1>2. PICK t \in Tasks : w.rows = {t} /\ w.to \in Waiting
  BY <1>1 DEF Fits
<1>3. (CHOOSE u \in w.rows : TRUE) = t
  BY <1>2
<1>4. Made(w) = [id |-> t, status |-> w.to] /\ Made(w) \in Card /\ w.to \in Status
  BY <1>2, <1>3 DEF Made, Card, Status
<1>5. w.to \in history'[t]
  BY <1>2, <1>4
<1> DEFINE cards == <<Made(w)>>
<1>6. cards \in Seq(Card) /\ Len(cards) = 1 /\ cards[1] = Made(w)
  BY <1>4
<1>7. Truthful(cards, history')
  BY <1>4, <1>5, <1>6 DEF Truthful
<1>8. Inserts(w) = {[task |-> t, request |-> w.request, attempt |-> w.attempt]}
  BY <1>2 DEF Inserts
<1>9. w.request \in Makers \X Nat \X Nat /\ w.attempt \in Nat
  <2>1. w.request \in (Writers \cup {"run"}) \X Nat \X Nat /\ w.attempt \in Nat
    BY <1>1 DEF Work
  <2>2. w.request[1] \in Makers
    BY <1>1 DEF Fits
  <2> QED BY <2>1, <2>2
<1> QED BY <1>6, <1>7, <1>8, <1>9

LEMMA CommitView == ASSUME ViewInv, NEW h \in Handlers, Commit(h) PROVE Onward
<1> USE DEF ViewInv
<1> DEFINE w    == work[h]
           new  == [t \in Tasks |-> IF t \in w.rows THEN w.to ELSE rows[t]]
           left == IF w.call = "start" THEN Background ELSE Idle
           next == [work EXCEPT ![h] = left]
<1>1. /\ w.stage = "found" /\ AtService /\ UNCHANGED <<dropped, faults>>
      /\ w \in Work /\ Fits(w, rows)
  BY DEF Commit, Serving
<1>2. CASE Vanished(w) /\ Returns(h, "refused")
  <2>1. TableStep /\ Heard /\ Serving'
    BY <1>2, ReturnsServes
  <2>2. StoreTyped'
    BY <1>1, <1>2 DEF Returns, ServerTyped, StoreTyped, table
  <2>3. faults' \in 0 .. MaxFaults
    BY <1>1 DEF Bounded
  <2> QED BY <1>1, <2>1, <2>2, <2>3, ServiceView
<1>3. CASE /\ ~Vanished(w) /\ Write(new, next)
           /\ made' = made \cup Inserts(w)
           /\ job'  = job \cup w.queued \cup (IF w.call = "run" THEN w.rows ELSE {})
           /\ Replies(h, "ok", IF w.call \in Makers THEN <<Made(w)>> ELSE <<>>)
           /\ UNCHANGED mode
  <2>1. w.rows \in SUBSET Tasks /\ w.queued \in SUBSET Tasks
    BY <1>1 DEF Work
  <2>2. \A t \in w.rows : w.to \in Values /\ (w.to = rows[t] \/ <<rows[t], w.to>> \in Life!Moves)
    BY <1>1, <1>3, CommitMoves
  <2>3. /\ new \in [Tasks -> Values]
        /\ \A t \in Tasks : new[t] = rows[t] \/ <<rows[t], new[t]>> \in Life!Moves
    BY <2>2 DEF Shaped
  <2>4. TableStep
    <3> HIDE DEF new, next
    <3> QED BY <1>3, <2>3, WriteStep
  <2>5. left \in Work /\ Fits(left, rows') /\ ~left.heard /\ \A v : Apart(v, left)
    BY IdleFits
  <2>6. next \in [Handlers -> Work] /\ next[h] = left /\ \A g \in Handlers : g # h => next[g] = work[g]
    BY <2>5 DEF Serving
  <2>7. work' \in [Handlers -> Work] /\ \A g \in Handlers : Alike(work'[g], next[g])
    <3> HIDE DEF new, next
    <3> QED BY <1>3, <2>6, WriteWork
  <2>8. rows' = new /\ history' = [t \in Tasks |-> history[t] \cup ({new[t]} \cap Status)]
    BY <1>3 DEF Write
  <2>9. w.call \in Makers =>
           /\ Truthful(<<Made(w)>>, history') /\ Len(<<Made(w)>>) = 1
           /\ \E t \in Tasks : Inserts(w) = {[task |-> t, request |-> w.request, attempt |-> w.attempt]}
           /\ w.request \in Makers \X Nat \X Nat /\ w.attempt \in Nat
    <3>1. history' = [t \in Tasks |-> history[t] \cup ({IF t \in w.rows THEN w.to ELSE rows[t]} \cap Status)]
      BY <2>8
    <3> HIDE DEF new, next
    <3> QED BY <1>1, <3>1, MadeTrue
  <2>10. /\ Heard
         /\ \A g \in Handlers : g # h /\ work[g].heard => ans'[work[g].call] = ans[work[g].call]
    <3>1. CASE w.call \in Makers
      <4>1. w.call \notin Fetchers
        BY <3>1 DEF Makers, Fetchers
      <4>2. GoodReply(w.call, [code |-> "ok", cards |-> <<Made(w)>>], history')
        BY <2>9, <3>1, <4>1, CardsReply
      <4> QED BY <1>3, <3>1, <4>2, AnswersOne
    <3>2. CASE w.call \notin Makers
      <4>1. GoodReply(w.call, [code |-> "ok", cards |-> <<>>], history')
        BY <3>2, WithoutCards DEF Makers
      <4> QED BY <1>3, <3>2, <4>1, AnswersOne
    <3> QED BY <3>1, <3>2
  <2>11. ASSUME NEW g \in Handlers, g # h
         PROVE  /\ Alike(work'[g], work[g]) /\ Apart(work[g], left)
                /\ Making(work[g]) => \A t \in work[g].rows : rows'[t] = rows[t]
                /\ work[g].heard => ans'[work[g].call] = ans[work[g].call]
    <3>1. Making(work[g]) => \A t \in work[g].rows : rows'[t] = rows[t]
      <4>1. work[g].rows \in SUBSET Tasks
        BY DEF Serving, Work
      <4>2. Making(work[g]) => \A t \in work[g].rows : t \notin w.rows
        BY <1>1, <2>11, OthersMake
      <4> QED BY <2>8, <4>1, <4>2
    <3> HIDE DEF new, left
    <3> QED BY <2>5, <2>6, <2>7, <2>10, <2>11, <3>1
  <2>12. Serving'
    <3>1. Alike(work'[h], left)
      BY <2>6, <2>7
    <3> HIDE DEF new, next, left, w
    <3> QED BY <2>4, <2>5, <2>7, <2>11, <3>1, OneGoesOn
  <2>13. StoreTyped'
    <3>1. job' \subseteq Tasks /\ mode' \in {"auto", "manual"} /\ dropped' = dropped
      BY <1>1, <1>3, <2>1 DEF ServerTyped, StoreTyped
    <3>2. Inserts(w) \subseteq [task : Tasks, request : Makers \X Nat \X Nat, attempt : Nat]
      <4>1. CASE w.call \in Makers
        BY <2>9, <4>1
      <4>2. CASE w.call \notin Makers
        BY <4>2 DEF Inserts
      <4> QED BY <4>1, <4>2
    <3> QED BY <1>3, <3>1, <3>2 DEF ServerTyped, StoreTyped
  <2>14. faults' \in 0 .. MaxFaults
    BY <1>1 DEF Bounded
  <2> QED BY <1>1, <2>4, <2>10, <2>12, <2>13, <2>14, ServiceView
<1> QED BY <1>2, <1>3 DEF Commit

-----------------------------------------------------------------------------
(* Connections lost between gateway and handler.                              *)

LEMMA Unconnected ==
    ASSUME ViewInv, NEW h \in Handlers, Disconnects(h)
    PROVE  /\ AtService /\ TableStep /\ StoreTyped' /\ faults' \in 0 .. MaxFaults
           /\ UNCHANGED <<rows, history, made>>
           /\ work[h] \in Work /\ Fits(work[h], rows) /\ work[h].call \in Writers /\ work[h].open
<1> USE DEF ViewInv
<1>1. /\ work[h].open /\ AtService /\ UNCHANGED <<rows, history, made, job, mode>>
      /\ dropped' = dropped \cup {work[h].request}
      /\ faults' = faults + 1 /\ faults < MaxFaults
  BY DEF Disconnects, Fault, table
<1>2. work[h] \in Work /\ Fits(work[h], rows)
  BY DEF Serving
<1>3. TableStep
  BY <1>1, TableKept
<1>4. work[h].call \in Writers /\ work[h].request \in Writers \X Nat \X Nat
  <2>1. work[h].request \in (Writers \cup {"run"}) \X Nat \X Nat
    BY <1>2 DEF Work
  <2>2. work[h].call \in Writers /\ work[h].request[1] \in Writers
    BY <1>1, <1>2 DEF Fits
  <2> QED BY <2>1, <2>2
<1>5. StoreTyped'
  BY <1>1, <1>4 DEF ServerTyped, StoreTyped
<1>6. faults' \in 0 .. MaxFaults
  BY <1>1, BoundsAssumption DEF Bounded
<1> QED BY <1>1, <1>2, <1>3, <1>4, <1>5, <1>6

LEMMA UnheardFits ==
    ASSUME NEW w \in Work
    PROVE  /\ Unheard(w) \in Work /\ ~Unheard(w).heard /\ ~Unheard(w).open
           /\ \A r : Fits(w, r) => Fits(Unheard(w), r)
           /\ \A v : Apart(v, w) => Apart(v, Unheard(w))
           /\ Making(Unheard(w)) <=> Making(w)
<1>1. /\ Unheard(w) \in Work /\ Unheard(w).heard = FALSE /\ Unheard(w).open = FALSE
      /\ Unheard(w).stage = w.stage /\ Unheard(w).call = w.call /\ Unheard(w).rows = w.rows
      /\ Unheard(w).to = w.to /\ Unheard(w).request = w.request
  BY DEF Unheard, Work
<1>2. Making(Unheard(w)) <=> Making(w)
  BY <1>1 DEF Making
<1>3. \A r : Fits(w, r) => Fits(Unheard(w), r)
  BY <1>1, <1>2 DEF Fits
<1>4. \A v : Apart(v, w) => Apart(v, Unheard(w))
  BY <1>1, <1>2 DEF Apart
<1> QED BY <1>1, <1>2, <1>3, <1>4

LEMMA GivesUpView == ASSUME ViewInv, NEW h \in Handlers, GivesUp(h) PROVE Onward
<1> USE DEF ViewInv
<1>1. /\ AtService /\ TableStep /\ StoreTyped' /\ faults' \in 0 .. MaxFaults
      /\ UNCHANGED <<rows, history, made>> /\ work[h] \in Work /\ Fits(work[h], rows)
  BY Unconnected DEF GivesUp
<1>2. PICK left \in {Idle, Unheard(work[h])} : work' = [work EXCEPT ![h] = left]
  BY DEF GivesUp
<1>3. /\ left \in Work /\ Fits(left, rows') /\ ~left.heard
      /\ \A g \in Handlers : g # h => Apart(work[g], left)
  BY <1>1, IdleFits, UnheardFits DEF Serving
<1>4. /\ Heard
      /\ \A g \in Handlers : g # h /\ work[g].heard => ans'[work[g].call] = ans[work[g].call]
  BY AnswersOne, WithoutCards DEF GivesUp
<1>5. work' \in [Handlers -> Work] /\ Alike(work'[h], left)
  BY <1>2, <1>3, AlikeItself DEF Serving
<1>6. \A g \in Handlers : g # h =>
         /\ Alike(work'[g], work[g]) /\ Apart(work[g], left)
         /\ Making(work[g]) => \A t \in work[g].rows : rows'[t] = rows[t]
         /\ work[g].heard => ans'[work[g].call] = ans[work[g].call]
  BY <1>1, <1>2, <1>3, <1>4, AlikeItself DEF Serving
<1>7. Serving'
  BY <1>1, <1>3, <1>5, <1>6, OneGoesOn
<1> QED BY <1>1, <1>4, <1>7, ServiceView

(* The request once more, as the handler k it is given to has it.             *)
Asking(w, S, k) == [w EXCEPT !.stage = "asked", !.rows = S, !.attempt = k, !.since = {}]

LEMMA AgainFits ==
    ASSUME NEW w \in Work, w.open, Fits(w, rows), NEW k \in Nat, NEW S \in SUBSET Tasks,
           w.call \in Makers => \E t \in Tasks : S = {t} /\ rows[t] = "ABSENT",
           w.call \notin Makers => S = w.rows, NEW v, v = Asking(w, S, k)
    PROVE  /\ v \in Work /\ Fits(v, rows) /\ v.call = w.call /\ v.heard = w.heard /\ v.rows = S
           /\ v.stage = "asked" /\ (w.stage # "idle" /\ S = w.rows => \A u : Apart(u, w) => Apart(u, v))
<1>1. /\ v \in Work /\ v.stage = "asked" /\ v.rows = S /\ v.call = w.call /\ v.to = w.to
      /\ v.heard = w.heard /\ v.open = w.open /\ v.request = w.request
  BY DEF Work, Asking
<1>2. w.stage # "idle"
  BY DEF Fits
<1>3. Fits(v, rows)
  BY <1>1, <1>2 DEF Fits, Making
<1>4. w.stage # "idle" /\ S = w.rows => \A u : Apart(u, w) => Apart(u, v)
  BY <1>1 DEF Apart, Making
<1> QED BY <1>1, <1>3, <1>4

LEMMA ResendView == ASSUME ViewInv, NEW h \in Handlers, Resend(h) PROVE Onward
<1> USE DEF ViewInv
<1> DEFINE w == work[h]
           Again(S, k) == [w EXCEPT !.stage = "asked", !.rows = S, !.attempt = k, !.since = {}]
<1>1. /\ AtService /\ TableStep /\ StoreTyped' /\ faults' \in 0 .. MaxFaults
      /\ UNCHANGED <<rows, history, made>> /\ ans' = ans
      /\ w \in Work /\ Fits(w, rows) /\ w.call \in Writers /\ w.open
  BY Unconnected DEF Resend
<1>2. w.stage # "idle" /\ w.rows \in SUBSET Tasks /\ w.attempt \in Nat
  BY <1>1 DEF Fits, Work
<1>3. PICK k \in w.attempt + 1 .. Attempts :
         \/ work' = [work EXCEPT ![h] = Again(w.rows, k)]
         \/ \E g \in Handlers :
               /\ work[g] = Idle /\ g = Spare
               /\ w.call \in Makers => Room
               /\ work' = [work EXCEPT
                     ![h] = Unheard(w),
                     ![g] = Again(IF w.call \in Makers THEN {Fresh} ELSE w.rows, k)]
  BY DEF Resend
<1>4. k \in Nat
  BY <1>2
<1>5. w.heard => ans[w.call] = Awaiting
  BY DEF Serving
<1>6. CASE work' = [work EXCEPT ![h] = Again(w.rows, k)]
  <2> DEFINE v == Again(w.rows, k)
  <2>1. /\ v \in Work /\ Fits(v, rows) /\ v.call = w.call /\ v.heard = w.heard
        /\ \A u : Apart(u, w) => Apart(u, v)
    <3>1. w.call \in Makers => \E t \in Tasks : w.rows = {t} /\ rows[t] = "ABSENT"
      BY <1>1, <1>2 DEF Fits, Making
    <3>2. v = Asking(w, w.rows, k)
      BY DEF Asking
    <3> HIDE DEF v, w
    <3> QED BY <1>1, <1>2, <1>4, <3>1, <3>2, AgainFits
  <2> HIDE DEF v
  <2>2. work' = [work EXCEPT ![h] = v]
    BY <1>6 DEF v
  <2>3. work' \in [Handlers -> Work] /\ Alike(work'[h], v)
    BY <2>1, <2>2, AlikeItself DEF Serving
  <2>4. \A g \in Handlers : g # h =>
           /\ Alike(work'[g], work[g]) /\ Apart(work[g], v)
           /\ Making(work[g]) => \A t \in work[g].rows : rows'[t] = rows[t]
           /\ work[g].heard => ans'[work[g].call] = ans[work[g].call]
    BY <1>1, <2>1, <2>2, AlikeItself DEF Serving
  <2>5. Fits(v, rows') /\ (v.heard => ans'[v.call] = Awaiting)
    BY <1>1, <1>5, <2>1
  <2>6. Serving'
    BY <1>1, <2>3, <2>4, <2>5, OneGoesOn
  <2> QED BY <1>1, <2>6, ServiceView DEF Heard
<1>7. ASSUME NEW g \in Handlers, work[g] = Idle, w.call \in Makers => Room,
             work' = [work EXCEPT ![h] = Unheard(w),
                                  ![g] = Again(IF w.call \in Makers THEN {Fresh} ELSE w.rows, k)]
      PROVE  Onward
  <2> DEFINE S == IF w.call \in Makers THEN {Fresh} ELSE w.rows
             v == Again(S, k)
             u == Unheard(w)
  <2>1. w.call \in Makers => /\ Fresh \in Tasks /\ rows[Fresh] = "ABSENT"
                             /\ \A f \in Handlers : Fresh \notin work[f].rows
    BY <1>7 DEF Fresh, Unused, Room
  <2>2. S \in SUBSET Tasks /\ (w.call \notin Makers => S = w.rows)
        /\ (w.call \in Makers => S = {Fresh})
    BY <1>2, <2>1
  <2>3. /\ v \in Work /\ Fits(v, rows) /\ v.call = w.call /\ v.heard = w.heard /\ v.rows = S
        /\ v.stage = "asked"
    <3>1. w.call \in Makers => \E t \in Tasks : S = {t} /\ rows[t] = "ABSENT"
      BY <2>1, <2>2
    <3>2. v = Asking(w, S, k)
      BY DEF Asking
    <3> HIDE DEF v, w, S
    <3> QED BY <1>1, <1>4, <2>2, <3>1, <3>2, AgainFits
  <2>4. g # h
    BY <1>2, <1>7 DEF Idle
  <2>5. /\ u \in Work /\ ~u.heard /\ Fits(u, rows) /\ \A x : Apart(x, w) => Apart(x, u)
        /\ (Making(u) <=> Making(w)) /\ u.rows = w.rows
    <3>1. u.rows = w.rows
      BY <1>1 DEF Unheard, Work
    <3> QED BY <1>1, <3>1, UnheardFits
  <2>6. work' = [work EXCEPT ![h] = u, ![g] = v]
    BY <1>7
  <2> HIDE DEF v, u, S
  <2>7. /\ work' \in [Handlers -> Work] /\ work'[h] = u /\ work'[g] = v
        /\ \A f \in Handlers : f \notin {g, h} => work'[f] = work[f]
    BY <2>3, <2>4, <2>5, <2>6 DEF Serving
  <2>8. ASSUME NEW f \in Handlers, f \notin {g, h} PROVE Apart(work[f], u) /\ Apart(work[f], v)
    <3>1. Apart(work[f], w)
      BY <2>8 DEF Serving
    <3>2. Making(v) => work[f].rows # v.rows
      BY <2>1, <2>2, <2>3 DEF Making
    <3> QED BY <2>3, <2>5, <3>1, <3>2 DEF Apart
  <2>9. Apart(u, v) /\ Apart(v, u)
    <3>1. Making(v) => v.rows # u.rows
      BY <2>1, <2>2, <2>3, <2>5 DEF Making
    <3> QED BY <2>5, <3>1 DEF Apart
  <2>10. Serving'
    <3> DEFINE G == {g, h}
    <3>1. \A f \in Handlers \ G :
             /\ Alike(work'[f], work[f])
             /\ Making(work[f]) => \A t \in work[f].rows : rows'[t] = rows[t]
             /\ work[f].heard => ans'[work[f].call] = ans[work[f].call]
      BY <1>1, <2>7, AlikeItself
    <3>2. \A f \in G : /\ Fits(work'[f], rows')
                       /\ work'[f].heard => ans'[work'[f].call] = Awaiting
      BY <1>1, <1>5, <2>3, <2>5, <2>7
    <3>3. \A f \in G, e \in Handlers : e # f => Apart(work'[e], work'[f])
      BY <2>7, <2>8, <2>9
    <3>4. G \in SUBSET Handlers
      OBVIOUS
    <3> HIDE DEF G
    <3> QED BY <1>1, <2>7, <3>1, <3>2, <3>3, <3>4, ServingStep
  <2> QED BY <1>1, <2>10, ServiceView DEF Heard
<1> QED BY <1>3, <1>6, <1>7

-----------------------------------------------------------------------------
(* Answers: what the page then holds, exports or announces.                   *)

\* what the page holds once the answer c is taken
Holds(c) == /\ Truthful(allTasks', history)
            /\ Len(allTasks') <= Limit + clicks
            /\ c # "dispatch" =>
                  Len(allTasks') + Owed(ans["dispatch"]) <= Limit + clicks

LEMMA RoomNow ==
    ASSUME Answers, Listed, Bounded
    PROVE  /\ Len(allTasks) \in Nat /\ Owed(ans["dispatch"]) \in Nat
           /\ clicks \in Nat /\ Limit \in Nat
           /\ Len(allTasks) + Owed(ans["dispatch"]) <= Limit + clicks
           /\ Owed(ans["dispatch"]) <= clicks
<1>1. allTasks \in Seq(Card)
  BY DEF Listed, Truthful
<1> QED BY <1>1, AnswerTyped, LenProperties, BoundsAssumption DEF Answers, Listed, Bounded

LEMMA HoldsSame ==
    ASSUME Answers, Listed, Bounded, NEW c, allTasks' = allTasks PROVE Holds(c)
  BY RoomNow DEF Holds, Listed

LEMMA HoldsLanded ==
    ASSUME Answers, Listed, Bounded, NEW c \in Fetchers, Lands(c) PROVE Holds(c)
<1>1. CASE Ok(c)
  <2>1. allTasks' = ans[c].cards
    BY <1>1 DEF Lands
  <2>2. Truthful(ans[c].cards, history) /\ Len(ans[c].cards) <= Limit
    BY DEF Answers, Calls
  <2>3. Len(ans[c].cards) \in Nat
    BY <2>2, LenProperties DEF Truthful
  <2> DEFINE p == Len(ans[c].cards)
             q == Owed(ans["dispatch"])
  <2>4. /\ p \in Nat /\ q \in Nat /\ clicks \in Nat /\ Limit \in Nat /\ p <= Limit /\ q <= clicks
    BY <2>2, <2>3, RoomNow
  <2> HIDE DEF p, q
  <2>5. p <= Limit + clicks /\ p + q <= Limit + clicks
    BY <2>4
  <2> QED BY <2>1, <2>2, <2>5 DEF Holds, p, q
<1>2. CASE ~Ok(c)
  BY <1>2, HoldsSame DEF Lands
<1> QED BY <1>1, <1>2

LEMMA HoldsDispatched ==
    ASSUME Answers, Listed, Bounded, Dispatched PROVE Holds("dispatch")
<1>1. CASE Ok("dispatch")
  <2> DEFINE new == ans["dispatch"].cards
  <2>1. allTasks' = new \o allTasks
    BY <1>1 DEF Dispatched
  <2>2. Truthful(new, history) /\ Truthful(allTasks, history)
    BY DEF Answers, Listed, Calls, Clicks
  <2>3. Len(new) + Len(allTasks) <= Limit + clicks
    <3>1. Owed(ans["dispatch"]) = Len(new)
      BY <1>1 DEF Owed, Ok
    <3>2. Len(new) \in Nat
      BY <3>1, RoomNow
    <3> HIDE DEF new
    <3> QED BY <3>1, <3>2, RoomNow
  <2> HIDE DEF new
  <2>4. new \in Seq(Card) /\ allTasks \in Seq(Card) /\ Len(new) \in Nat /\ Len(allTasks) \in Nat
    BY <2>2, LenProperties DEF Truthful
  <2>5. /\ new \o allTasks \in Seq(Card) /\ Len(new \o allTasks) = Len(new) + Len(allTasks)
        /\ \A i \in 1 .. Len(new) + Len(allTasks) :
              (new \o allTasks)[i] = IF i <= Len(new) THEN new[i] ELSE allTasks[i - Len(new)]
    BY <2>4, ConcatProperties
  <2>6. ASSUME NEW i \in 1 .. Len(new) + Len(allTasks)
        PROVE  (new \o allTasks)[i].status \in history[(new \o allTasks)[i].id]
    <3>1. CASE i <= Len(new)
      <4>1. i \in 1 .. Len(new)
        BY <2>4, <3>1
      <4> QED BY <2>2, <2>5, <3>1, <4>1 DEF Truthful
    <3>2. CASE ~(i <= Len(new))
      <4>1. i - Len(new) \in 1 .. Len(allTasks)
        BY <2>4, <3>2
      <4> QED BY <2>2, <2>5, <3>2, <4>1 DEF Truthful
    <3> QED BY <3>1, <3>2
  <2>7. Truthful(allTasks', history)
    BY <2>1, <2>5, <2>6 DEF Truthful
  <2>8. Len(allTasks') <= Limit + clicks
    BY <2>1, <2>3, <2>5
  <2> QED BY <2>7, <2>8 DEF Holds
<1>2. CASE ~Ok("dispatch")
  BY <1>2, HoldsSame DEF Dispatched
<1> QED BY <1>1, <1>2

LEMMA HandledView ==
    ASSUME ViewInv, NEW c \in Calls, Handled(c), Holds(c), PageTyped',
           exported' \subseteq Card, \A card \in exported' : card.status \in history[card.id],
           c # "seed" => demos' = demos,
           \A t \in Tasks : /\ told'[t] = "finished" => "SUCCESS" \in history[t]
                            /\ told'[t] = "failed"   => "DEAD_LETTERED" \in history[t]
    PROVE  Onward
<1> USE DEF ViewInv
<1>1. /\ ans' = [ans EXCEPT ![c] = Nothing] /\ arg' = [arg EXCEPT ![c] = None]
      /\ UNCHANGED <<rows, history, made, work, job, mode, dropped>>
      /\ UNCHANGED <<hits, expiry, clicks, faults, token>>
  BY DEF Handled, limiter, server, table, bounds
<1>2. /\ ans'[c] = Nothing /\ \A d \in Calls : d # c => ans'[d] = ans[d]
      /\ ans' \in [Calls -> [code : Codes, cards : Seq(Card)]]
  BY <1>1, NothingTyped DEF Answers
<1>3. "dispatch" \in Calls /\ "seed" \in Calls /\ "start" \in Calls /\ Fetchers \subseteq Calls
  BY DEF Calls, Clicks
<1>4. Recorded' /\ ServerTyped' /\ Bounded' /\ ToldTruth'
  BY <1>1 DEF Recorded, ServerTyped, StoreTyped, LimiterTypeOK, Bounded, ToldTruth
<1>5. Answers'
  <2>1. \A d \in Calls : Truthful(ans'[d].cards, history')
    BY <1>1, <1>2, NothingTyped DEF Answers
  <2>2. \A d \in Fetchers : Len(ans'[d].cards) <= Limit
    <3>1. Len(Nothing.cards) <= Limit
      <4>1. Len(Nothing.cards) = 0 /\ Limit \in Nat
        BY NothingTyped, BoundsAssumption
      <4> QED BY <4>1
    <3> QED BY <1>2, <1>3, <3>1 DEF Answers
  <2>3. /\ Owed(ans'["dispatch"]) <= clicks'
        /\ ans'["dispatch"].code = "ok" => Len(ans'["dispatch"].cards) = 1
    <3>1. CASE c = "dispatch"
      BY <1>1, <1>2, <3>1, NothingTyped, RoomNow
    <3>2. CASE c # "dispatch"
      BY <1>1, <1>2, <1>3, <3>2 DEF Answers, Ok
    <3> QED BY <3>1, <3>2
  <2> QED BY <1>2, <2>1, <2>2, <2>3 DEF Answers, Ok
<1>6. Listed'
  <2>1. Len(allTasks') + Owed(ans'["dispatch"]) <= Limit + clicks
    <3>1. CASE c = "dispatch"
      <4>1. Len(allTasks') \in Nat /\ Owed(ans'["dispatch"]) = 0
        BY <1>2, <3>1, NothingTyped, LenProperties DEF Holds, Truthful
      <4> QED BY <4>1 DEF Holds
    <3>2. CASE c # "dispatch"
      BY <1>2, <1>3, <3>2 DEF Holds
    <3> QED BY <3>1, <3>2
  <2> QED BY <1>1, <2>1 DEF Holds, Listed
<1>7. Pending'
  <2>1. ans'["seed"] # Nothing => demos' > 0
    BY <1>2, <1>3 DEF Pending
  <2>2. ans'["start"] # Nothing => arg'["start"] \in Runs
    BY <1>1, <1>2, <1>3 DEF Pending, PageTyped
  <2> QED BY <2>1, <2>2 DEF Pending
<1>8. TableStep
  BY <1>1, TableKept
<1>9. Serving' /\ Shaped'
  <2>1. \A d \in Calls : ans[d] = Awaiting => ans'[d] = ans[d]
    <3>1. ans[c] # Awaiting
      BY DEF Handled, Awaiting
    <3> QED BY <1>2, <3>1
  <2>2. Serving'
    BY <1>1, <1>8, <2>1, ServingKept
  <2> QED BY <1>1, <2>2 DEF Shaped
<1> QED BY <1>4, <1>5, <1>6, <1>7, <1>8, <1>9 DEF Onward

(* What a poll finds of a task, the task has been. *)
LEMMA FoundTrue ==
    ASSUME NEW t, NEW list, Truthful(list, history)
    PROVE  Found(t, list) \subseteq history[t] /\ (t \notin Tasks => Found(t, list) = {})
<1>1. DOMAIN list = 1 .. Len(list) /\ \A i \in 1 .. Len(list) : list[i].id \in Tasks
  <2>1. list \in Seq(Card)
    BY DEF Truthful
  <2>2. \A i \in 1 .. Len(list) : list[i] \in Card
    BY <2>1, ElementOfSeq
  <2> QED BY <2>1, <2>2, LenProperties DEF Card
<1> QED BY <1>1 DEF Found, Truthful

LEMMA HandlePollView == ASSUME ViewInv, HandlePoll PROVE Onward
<1> USE DEF ViewInv
<1> DEFINE outcome == CASE "SUCCESS" \in Found(polled, allTasks')       -> "finished"
                        [] "DEAD_LETTERED" \in Found(polled, allTasks') -> "failed"
                        [] OTHER                                        -> "nothing"
           over == ResultOver(outcome, attempts + 1)
<1>1. /\ Handled("poll") /\ Lands("poll")
      /\ told'     = IF outcome = "nothing" THEN told ELSE [told EXCEPT ![polled] = outcome]
      /\ polled'   = IF over THEN None ELSE polled
      /\ attempts' = IF over THEN 0 ELSE attempts + 1
      /\ UNCHANGED <<running, myMode, disabled, demos, exported>>
  BY DEF HandlePoll
<1>2. Holds("poll")
  BY <1>1, HoldsLanded DEF Fetchers
<1>3. /\ outcome \in {"nothing", "finished", "failed"}
      /\ outcome = "finished" => "SUCCESS" \in Found(polled, allTasks')
      /\ outcome = "failed"   => "DEAD_LETTERED" \in Found(polled, allTasks')
  OBVIOUS
<1>4. ~over => attempts + 1 < MaxAttempts
  <2>1. attempts \in Nat /\ MaxAttempts \in Nat
    BY PollingAssumption DEF PageTyped
  <2> HIDE DEF outcome
  <2> QED BY <2>1 DEF ResultOver
<1>5. Found(polled, allTasks') \subseteq history[polled] /\ (polled \notin Tasks => Found(polled, allTasks') = {})
  BY <1>2, FoundTrue DEF Holds
<1> HIDE DEF outcome, over
<1>6. attempts' \in 0 .. MaxAttempts /\ polled' \in Tasks \cup {None}
  BY <1>1, <1>4, PollingAssumption DEF PageTyped
<1>7. told' \in [Tasks -> {"nothing", "finished", "failed"}]
  BY <1>1, <1>3 DEF PageTyped
<1>8. PageTyped'
  <2>1. UNCHANGED <<live, polls, isProcessingQueue, filter>> /\ online' \in BOOLEAN
    BY <1>1 DEF running, Handled, Lands, PageTyped
  <2>2. arg' \in [Calls -> Forms \cup Tasks \cup Runs \cup {None}]
    BY <1>1 DEF Handled, PageTyped
  <2> QED BY <1>1, <1>6, <1>7, <2>1, <2>2 DEF PageTyped
<1>9. ASSUME NEW t \in Tasks
      PROVE  /\ told'[t] = "finished" => "SUCCESS" \in history[t]
             /\ told'[t] = "failed"   => "DEAD_LETTERED" \in history[t]
  <2>1. CASE told'[t] = told[t]
    BY <2>1 DEF ToldTruth
  <2>2. CASE t = polled /\ told'[t] = outcome
    BY <1>3, <1>5, <2>2 DEF Recorded
  <2>3. told \in [Tasks -> {"nothing", "finished", "failed"}]
    BY DEF PageTyped
  <2> QED BY <1>1, <2>1, <2>2, <2>3
<1>10. exported' \subseteq Card /\ \A card \in exported' : card.status \in history[card.id]
  BY <1>1 DEF Listed
<1> QED BY <1>1, <1>2, <1>8, <1>9, <1>10, HandledView DEF Calls, Fetchers

\* handlers that announce nothing
LEMMA QuietHandled ==
    ASSUME ViewInv, NEW c \in Calls, Handled(c), Holds(c),
           UNCHANGED <<told, exported>>, demos' = demos \/ (c = "seed" /\ demos' = demos - 1),
           polled' \in Tasks \cup {None}, attempts' \in 0 .. MaxAttempts,
           live' \subseteq Runs, polls' \in [Runs -> 0 .. MaxPolls],
           isProcessingQueue' \in BOOLEAN, online' \in BOOLEAN,
           myMode' \in {"auto", "manual"}, disabled' \subseteq disabled
    PROVE  Onward
<1> USE DEF ViewInv
<1>1. demos' \in 0 .. Demos
  <2>1. demos \in Nat /\ Demos \in Nat /\ demos <= Demos
    BY BoundsAssumption DEF PageTyped
  <2>2. c = "seed" => demos > 0
    BY DEF Pending, Handled, Nothing
  <2> QED BY <2>1, <2>2
<1>2. PageTyped'
  BY <1>1 DEF PageTyped, Handled
<1>3. exported' \subseteq Card /\ \A card \in exported' : card.status \in history[card.id]
  BY DEF Listed
<1>4. \A t \in Tasks : /\ told'[t] = "finished" => "SUCCESS" \in history[t]
                       /\ told'[t] = "failed"   => "DEAD_LETTERED" \in history[t]
  BY DEF ToldTruth
<1> QED BY <1>2, <1>3, <1>4, HandledView

LEMMA HandleView == ASSUME ViewInv, NEW c \in Calls, Handle(c) PROVE Onward
<1> USE DEF ViewInv
<1>0. /\ polled \in Tasks \cup {None} /\ attempts \in 0 .. MaxAttempts
      /\ live \subseteq Runs /\ polls \in [Runs -> 0 .. MaxPolls]
      /\ isProcessingQueue \in BOOLEAN /\ online \in BOOLEAN /\ myMode \in {"auto", "manual"}
  BY DEF PageTyped
<1>1. CASE c = "timer" /\ HandleTimer
  <2>1. Handled(c) /\ Lands(c) /\ UNCHANGED <<running, result, myMode, disabled, demos, exported>>
    BY <1>1 DEF HandleTimer
  <2>2. Holds(c) /\ online' \in BOOLEAN
    BY <1>0, <1>1, <2>1, HoldsLanded DEF Fetchers, Lands
  <2> QED BY <1>0, <2>1, <2>2, QuietHandled DEF running, result
<1>2. CASE c = "poll" /\ HandlePoll
  BY <1>2, HandlePollView
<1>3. CASE HandleFast(c)
  <2> DEFINE r == arg[c]
             n == IF polls[r] < MaxPolls THEN polls[r] + 1 ELSE MaxPolls
  <2>1. /\ c \in Fetchers /\ Handled(c) /\ Lands(c) /\ polls' = [polls EXCEPT ![r] = n]
        /\ live' \subseteq live /\ isProcessingQueue' \in {isProcessingQueue, FALSE}
        /\ UNCHANGED <<result, myMode, disabled, demos, exported>>
    BY <1>3 DEF HandleFast, Fetchers
  <2>2. Holds(c) /\ online' \in BOOLEAN
    BY <1>0, <2>1, HoldsLanded DEF Lands
  <2>3. polls' \in [Runs -> 0 .. MaxPolls]
    <3>1. r \in Runs => n \in 0 .. MaxPolls
      <4>1. r \in Runs => polls[r] \in Nat /\ polls[r] <= MaxPolls
        BY <1>0
      <4> QED BY <4>1, PollingAssumption
    <3> HIDE DEF n
    <3> QED BY <1>0, <2>1, <3>1
  <2> QED BY <1>0, <2>1, <2>2, <2>3, QuietHandled DEF result
<1>4. CASE c = "dispatch" /\ (HandleDispatch \/ HandleModalDispatch)
  <2>1. /\ Dispatched /\ Handled(c) /\ disabled' \subseteq disabled
        /\ UNCHANGED <<running, online, attempts, told, myMode, demos, exported>>
        /\ polled' = IF Ok("dispatch") THEN ans["dispatch"].cards[1].id ELSE polled
    BY <1>4 DEF HandleDispatch, HandleModalDispatch, Dispatched
  <2>2. Holds(c)
    BY <1>4, <2>1, HoldsDispatched
  <2>3. polled' \in Tasks \cup {None}
    <3>1. CASE Ok("dispatch")
      <4>1. ans["dispatch"].cards \in Seq(Card) /\ Len(ans["dispatch"].cards) = 1
        BY <3>1 DEF Answers, Calls, Clicks
      <4>2. ans["dispatch"].cards[1] \in Card
        BY <4>1, ElementOfSeq
      <4> QED BY <2>1, <3>1, <4>2 DEF Card
    <3> QED BY <1>0, <2>1, <3>1
  <2> QED BY <1>0, <2>1, <2>2, <2>3, QuietHandled DEF running
<1>5. CASE HandleCard(c) \/ HandleButton(c)
  <2>1. /\ Handled(c) /\ disabled' \subseteq disabled
        /\ UNCHANGED <<running, result, screen, myMode, demos, exported>>
    BY <1>5 DEF HandleCard, HandleButton
  <2>2. Holds(c)
    BY <2>1, HoldsSame DEF screen
  <2> QED BY <1>0, <2>1, <2>2, QuietHandled DEF running, result, screen
<1>6. CASE c = "mode" /\ HandleMode
  <2>1. /\ Handled(c) /\ disabled' \subseteq disabled /\ myMode' \in {"auto", "manual"}
        /\ UNCHANGED <<running, result, screen, demos, exported>>
    BY <1>0, <1>6 DEF HandleMode
  <2>2. Holds(c)
    BY <2>1, HoldsSame DEF screen
  <2> QED BY <1>0, <2>1, <2>2, QuietHandled DEF running, result, screen
<1>7. CASE c = "export" /\ HandleExport
  <2> DEFINE cards == IF Ok("export") THEN ans["export"].cards ELSE allTasks
  <2>1. /\ Handled(c) /\ disabled' \subseteq disabled /\ exported' = {cards[i] : i \in DOMAIN cards}
        /\ UNCHANGED <<running, result, screen, myMode, demos>>
    BY <1>7 DEF HandleExport
  <2>2. Holds(c)
    BY <2>1, HoldsSame DEF screen
  <2>3. Truthful(cards, history)
    BY DEF Answers, Listed, Calls, Clicks
  <2> HIDE DEF cards
  <2>4. exported' \subseteq Card /\ \A card \in exported' : card.status \in history[card.id]
    <3>1. cards \in Seq(Card) /\ DOMAIN cards = 1 .. Len(cards)
      BY <2>3, LenProperties DEF Truthful
    <3>2. \A i \in 1 .. Len(cards) : cards[i] \in Card
      BY <3>1, ElementOfSeq
    <3> QED BY <2>1, <2>3, <3>1, <3>2 DEF Truthful
  <2>5. PageTyped'
    BY <1>0, <2>1 DEF PageTyped, Handled, running, result, screen
  <2>6. \A t \in Tasks : /\ told'[t] = "finished" => "SUCCESS" \in history[t]
                         /\ told'[t] = "failed"   => "DEAD_LETTERED" \in history[t]
    BY <2>1 DEF ToldTruth, result
  <2> QED BY <2>1, <2>2, <2>4, <2>5, <2>6, HandledView
<1>8. CASE c = "start" /\ HandleStart
  <2>1. Handled(c) /\ UNCHANGED <<result, screen, myMode, disabled, demos, exported>>
    BY <1>8 DEF HandleStart
  <2>2. Holds(c)
    BY <2>1, HoldsSame DEF screen
  <2>3. live' \subseteq Runs /\ polls' = polls /\ isProcessingQueue' \in BOOLEAN
    <3>1. ans["start"] # Nothing
      BY <1>8, <2>1 DEF Handled, Nothing
    <3>2. arg["start"] \in Runs
      BY <3>1 DEF Pending
    <3> QED BY <1>0, <1>8, <3>2 DEF HandleStart
  <2> QED BY <1>0, <2>1, <2>2, <2>3, QuietHandled DEF result, screen
<1>9. CASE c = "seed" /\ HandleSeed
  <2>1. Handled(c) /\ demos' = demos - 1 /\ UNCHANGED <<running, result, screen, myMode, disabled, exported>>
    BY <1>9 DEF HandleSeed
  <2>2. Holds(c)
    BY <2>1, HoldsSame DEF screen
  <2> QED BY <1>0, <1>9, <2>1, <2>2, QuietHandled DEF running, result, screen
<1> QED
  BY <1>1, <1>2, <1>3, <1>4, <1>5, <1>6, <1>7, <1>8, <1>9, Zenon DEF Handle

LEMMA StepView == ViewInv /\ [Next]_vars => Onward
<1> SUFFICES ASSUME ViewInv, [Next]_vars PROVE Onward
  OBVIOUS
<1>1. CASE UNCHANGED vars
  <2>1. /\ UNCHANGED <<rows, history, work, ans, arg, allTasks, exported, told, clicks, demos>>
        /\ UNCHANGED <<made, job, mode, dropped, faults, token, hits, expiry>>
    BY <1>1 DEF vars, server, table, screen, result, bounds, limiter
  <2>2. ServerTyped' /\ PageTyped' /\ Bounded'
    BY <1>1, <2>1 DEF vars, screen, running, result, ServerTyped, StoreTyped, LimiterTypeOK,
       PageTyped, Bounded, ViewInv
  <2>3. demos' >= demos
    BY <2>1, BoundsAssumption DEF PageTyped, ViewInv
  <2> QED BY <2>1, <2>2, <2>3, AsideServes, QuietView
<1>2. ASSUME NEW c \in Calls, Proceeds(c) PROVE Onward
  BY <1>2, FiresView, HandleView DEF Proceeds
<1>3. ASSUME NEW h \in Handlers, Works(h) \/ Resend(h) \/ GivesUp(h) PROVE Onward
  BY <1>3, LookView, CommitView, ResendView, GivesUpView DEF Works
<1> QED BY <1>1, <1>2, <1>3, OperatorView, OtherView DEF Next

-----------------------------------------------------------------------------
(* The theorems.                                                              *)

LEMMA Viewed == Spec => []ViewInv
<1>1. ViewInv /\ [Next]_vars => ViewInv'
  BY StepView DEF Onward
<1> QED BY <1>1, InitView, PTL DEF Spec

(* The state of the page and of the handlers stays of its type: in particular *)
(* a list page is never longer than its limit, whatever the table holds, and  *)
(* the list the page keeps grows beyond it by at most one card a click.       *)
THEOREM Typing == Spec => []TypeOK
<1>1. ViewInv => TypeOK
  BY ViewImplies
<1> QED BY <1>1, Viewed, PTL

(* Whatever a card or the exported file says of a task, the task has been,    *)
(* in whatever order the answers of the pollers, of a dispatch and of the     *)
(* export arrive, and whichever handlers the gateway has lost or asked again. *)
THEOREM ShownWas == Spec => []ShowsWhatWas
<1>1. ViewInv => ShowsWhatWas
  BY ViewImplies
<1> QED BY <1>1, Viewed, PTL

(* The outcome the page announces for a dispatched task is that task's own.   *)
THEOREM TruthTold == Spec => []ToldTruth
<1>1. ViewInv => ToldTruth
  BY ViewImplies
<1> QED BY <1>1, Viewed, PTL

(* Whatever the page asks for, and however late a handler commits it, the     *)
(* rows move as TaskLife says: a row is inserted once, no row comes back, and *)
(* nothing is deleted while it is PENDING.                                    *)
THEOREM RowsLive == Spec => [][Life!Next]_rows
<1>1. ViewInv /\ [Next]_vars => [Life!Next]_rows
  <2>1. ASSUME TableStep PROVE Life!Next
    <3>1. Values = Life!Status
      BY DEF Values, Status, Waiting, Life!Status, Life!Missing, Life!Existing
    <3> QED BY <2>1, <3>1 DEF TableStep, Life!Next
  <2> QED BY <2>1, StepView DEF Onward
<1> QED BY <1>1, Viewed, PTL DEF Spec

=============================================================================
