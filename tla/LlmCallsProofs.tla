--------------------------- MODULE LlmCallsProofs ---------------------------
(***************************************************************************)
(* For all tasks, budgets, bounds and months: the types, the token budget, *)
(* the pauses, the pending proposals and the order of the usage reports.   *)
(***************************************************************************)
EXTENDS LlmCalls, FiniteSetTheorems, TLAPS

USE ProposalsOK, LlmOK

-----------------------------------------------------------------------------
(* Days. *)

\* Quotient and remainder of a date by the length of a month.
LEMMA Division ==
  ASSUME NEW a \in Nat, NEW p \in Nat \ {0}
  PROVE  a \div p \in Nat /\ a = p * (a \div p) + (a % p) /\ a % p \in 0..(p - 1)
  BY SMT

\* A later date is in no earlier month.
LEMMA DivisionGrows ==
  ASSUME NEW a \in Nat, NEW b \in Nat, a <= b, NEW p \in Nat \ {0}
  PROVE  a \div p <= b \div p
<1> DEFINE x == a \div p
           y == b \div p
<1>1. x \in Nat /\ a = p * x + (a % p) /\ a % p \in 0..(p - 1)
  BY Division
<1>2. y \in Nat /\ b = p * y + (b % p) /\ b % p \in 0..(p - 1)
  BY Division
<1>3. ASSUME x > y PROVE FALSE
  <2> HIDE DEF x, y
  <2>1. PICK k \in Nat : x = y + 1 + k
    <3>1. x - y - 1 \in Nat
      BY <1>1, <1>2, <1>3
    <3> QED
      BY <1>1, <1>2, <3>1
  <2>2. p * x = p * y + p + p * k
    BY <2>1, <1>1, <1>2
  <2>3. p * k \in Nat /\ p * y \in Nat /\ p * x \in Nat
    BY <2>1, <1>1, <1>2
  <2> QED
    BY <2>2, <2>3, <1>1, <1>2
<1> QED
  BY <1>1, <1>2, <1>3

\* Days and months never run back.
LEMMA Calendar ==
  ASSUME TypeOK
  PROVE  /\ Day \in Nat /\ Month \in Nat
         /\ \A c \in Tasks : asked[c] \div PeriodsPerDay \in 0..Day
         /\ now' \in Nat /\ now' >= now =>
              Day' \in Nat /\ Month' \in Nat /\ Day' >= Day /\ Month' >= Month
<1>1. now \in Nat /\ \A c \in Tasks : asked[c] \in Nat /\ asked[c] <= now
  BY DEF TypeOK
<1>2. Day \in Nat /\ Month \in Nat
  BY <1>1, Division DEF Day, Month
<1>3. ASSUME NEW c \in Tasks PROVE asked[c] \div PeriodsPerDay \in 0..Day
  <2> DEFINE a == asked[c]
  <2>1. a \in Nat /\ a <= now
    BY <1>1
  <2> HIDE DEF a
  <2>2. a \div PeriodsPerDay \in Nat /\ a \div PeriodsPerDay <= now \div PeriodsPerDay
    BY <1>1, <2>1, Division, DivisionGrows
  <2> QED
    BY <1>2, <2>2 DEF Day, a
<1>4. ASSUME now' \in Nat, now' >= now
      PROVE  Day' \in Nat /\ Month' \in Nat /\ Day' >= Day /\ Month' >= Month
  <2>1. Day' \in Nat /\ Day' >= Day
    BY <1>1, <1>4, Division, DivisionGrows DEF Day
  <2> DEFINE d == Day
             e == Day'
  <2>2. d \in Nat /\ e \in Nat /\ d <= e
    BY <1>2, <2>1
  <2>3. Month = d \div DaysPerMonth /\ Month' = e \div DaysPerMonth
    BY DEF Month
  <2>4. d \div DaysPerMonth <= e \div DaysPerMonth /\ e \div DaysPerMonth \in Nat
    <3> HIDE DEF d, e
    <3> QED
      BY <2>2, Division, DivisionGrows
  <2> QED
    BY <1>2, <2>1, <2>3, <2>4
<1> QED
  BY <1>2, <1>3, <1>4

-----------------------------------------------------------------------------
(* Proposals. *)

\* Two texts of rules make one, with the rules of both.
LEMMA DocumentsJoin ==
  ASSUME NEW s \in Seq(Rules), NEW t \in Seq(Rules)
  PROVE  /\ s \o t \in Seq(Rules)
         /\ ToSet(s \o t) = ToSet(s) \cup ToSet(t)
<1>1. s \o t \in Seq(Rules) /\ Len(s \o t) = Len(s) + Len(t)
  OBVIOUS
<1>2. ToSet(s \o t) \subseteq ToSet(s) \cup ToSet(t)
  BY <1>1 DEF ToSet
<1>3. ASSUME NEW i \in DOMAIN s PROVE i \in DOMAIN (s \o t) /\ (s \o t)[i] = s[i]
  BY <1>1
<1>4. ASSUME NEW i \in DOMAIN t
      PROVE  Len(s) + i \in DOMAIN (s \o t) /\ (s \o t)[Len(s) + i] = t[i]
  BY <1>1
<1>5. ToSet(s) \subseteq ToSet(s \o t)
  BY <1>3, Zenon DEF ToSet
<1>6. ToSet(t) \subseteq ToSet(s \o t)
  BY <1>4, Zenon DEF ToSet
<1> QED
  BY <1>1, <1>2, <1>5, <1>6

\* One more rule makes a text with that rule.
LEMMA RulesAppend ==
  ASSUME NEW s \in Seq(Rules), NEW p \in Rules
  PROVE  /\ Append(s, p) \in Seq(Rules)
         /\ ToSet(Append(s, p)) = ToSet(s) \cup {p}
  BY DEF ToSet

\* What a step may do to the proposals.
Edit ==
    \/ UNCHANGED proposals \/ Prepare \/ DieInPrepare
    \/ \E p \in Ids : Create(p) \/ Apply(p) \/ Cancel(p) \/ DieInApply(p) \/ DieInCreate(p)

\* Every edit of document and proposals keeps their types.
LEMMA EditsAreTyped ==
  ASSUME ProposalsTyped, Edit
  PROVE  ProposalsTyped'
<1> USE DEF ProposalsTyped
<1>0. Ids \subseteq Rules /\ <<>> \in Seq(Rules)
  BY DEF Rules
<1>1. document.old \in Seq(Rules) /\ document.rules \in Seq(Rules)
  BY DEF Documents
<1>2. CASE UNCHANGED proposals
  BY <1>2 DEF proposals
<1>3. Prepared \in Documents /\ Emptied \in Documents /\ Copied \in {"none", "copy", "empty"}
  BY <1>0, <1>1, DocumentsJoin DEF Prepared, Baseline, Document, Documents, Emptied, Copied
<1>4. CASE Prepare
  BY <1>3, <1>4 DEF Prepare
<1>5. CASE DieInPrepare
  BY <1>3, <1>5 DEF DieInPrepare
<1>6. ASSUME NEW p \in Ids PROVE WithRule(p) \in Documents
  BY <1>0, <1>1, RulesAppend DEF WithRule, Documents
<1>7. CASE \E p \in Ids : Create(p) \/ Apply(p) \/ Cancel(p) \/ DieInApply(p) \/ DieInCreate(p)
  BY <1>0, <1>6, <1>7 DEF Create, Apply, Cancel, DieInApply, DieInCreate, Dirs
<1> QED
  BY <1>2, <1>4, <1>5, <1>7 DEF Edit

-----------------------------------------------------------------------------
(* Type correctness. *)

Runtimes == [mode : {"normal", "paused", "backoff"}, until : Nat]
Counters == [day : 0..Day, month : 0..Month, today : Nat, total : Nat]

\* The calls in flight can be counted.
LEMMA CallsAreFinite ==
  /\ IsFiniteSet(Calling) /\ Cardinality(Calling) \in Nat
  /\ IsFiniteSet(Calling') /\ Cardinality(Calling') \in Nat
<1>1. Calling \subseteq Callers /\ Calling' \subseteq Callers
  BY DEF Calling
<1> QED
  BY <1>1, FS_Subset, FS_CardinalityType

\* What the guard writes is a state of the runtime.
LEMMA RuntimeKept ==
  ASSUME TypeOK
  PROVE  /\ Normal \in Runtimes /\ Paused \in Runtimes /\ Status \in Runtimes
         /\ \A w \in Waits : Backoff(w) \in Runtimes
         /\ \A r \in Runtimes : SetRuntime(r) => runtime' \in Runtimes /\ witnesses' \subseteq Callers
<1>1. now \in Nat /\ runtime \in Runtimes /\ witnesses \subseteq Callers
  BY DEF TypeOK, Runtimes
<1>2. Normal \in Runtimes /\ Paused \in Runtimes
  BY DEF Normal, Paused, Runtimes
<1>3. Status \in Runtimes
  BY <1>1, <1>2 DEF Status
<1>4. ASSUME NEW w \in Waits PROVE Backoff(w) \in Runtimes
  BY <1>1 DEF Backoff, Runtimes
<1>5. ASSUME NEW r \in Runtimes, SetRuntime(r)
      PROVE  runtime' \in Runtimes /\ witnesses' \subseteq Callers
  BY <1>1, <1>5 DEF SetRuntime, InFlight
<1> QED
  BY <1>2, <1>3, <1>4, <1>5

\* A counter with new numbers is a counter of the same day.
LEMMA Counted ==
  ASSUME NEW D, NEW M, NEW u \in [day : D, month : M, today : Nat, total : Nat],
         NEW a \in Nat, NEW b \in Nat
  PROVE  LET v == [u EXCEPT !.today = a, !.total = b]
         IN /\ v \in [day : D, month : M, today : Nat, total : Nat]
            /\ v.today = a /\ v.total = b /\ v.day = u.day
  OBVIOUS

\* A counter of a new day begins at zero and keeps its total.
LEMMA NewDay ==
  ASSUME NEW D, NEW M, NEW u \in [day : D, month : M, today : Nat, total : Nat], NEW d \in D
  PROVE  LET v == [u EXCEPT !.day = d, !.today = 0]
         IN /\ v \in [day : D, month : M, today : Nat, total : Nat]
            /\ v.today = 0 /\ v.total = u.total
  OBVIOUS

\* Rolling the counters to the day, and charging a call, keeps what they mean.
LEMMA UsageKept ==
  ASSUME TypeOK
  PROVE  /\ Rolled \in Counters /\ Rolled.today <= Rolled.total
         /\ Rolled.day # usage.day => Rolled.today = 0
         /\ Rolled.today \in 0..usage.today
         /\ \A n \in Nat : Charge(n) =>
              /\ usage' \in Counters /\ usage'.today <= usage'.total
              /\ usage'.today = Rolled.today + n /\ usage'.day = Rolled.day
<1>1. Day \in Nat /\ Month \in Nat
  BY Calendar
<1>2. usage \in Counters /\ usage.today <= usage.total
  BY DEF TypeOK, Counters
<1>3. /\ Rolled \in Counters /\ Rolled.today <= Rolled.total
      /\ Rolled.day # usage.day => Rolled.today = 0
      /\ Rolled.today \in 0..usage.today
  <2> DEFINE w == [usage EXCEPT !.day = Day, !.today = 0]
  <2>0. usage.today \in Nat /\ usage.total \in Nat
    BY <1>2 DEF Counters
  <2>1. NoUsage \in Counters /\ NoUsage.today = 0 /\ NoUsage.total = 0
    BY <1>1 DEF NoUsage, Counters
  <2>2. w \in Counters /\ w.today = 0 /\ w.total = usage.total
    <3>1. Day \in 0..Day
      BY <1>1
    <3> QED
      BY <1>2, <3>1, NewDay DEF Counters
  <2>3. Rolled \in {NoUsage, w, usage}
    BY DEF Rolled
  <2> HIDE DEF w
  <2> QED
    BY <1>2, <2>0, <2>1, <2>2, <2>3
<1>4. ASSUME NEW n \in Nat, Charge(n)
      PROVE  /\ usage' \in Counters /\ usage'.today <= usage'.total
             /\ usage'.today = Rolled.today + n /\ usage'.day = Rolled.day
  <2> DEFINE u == Rolled
  <2>1. u \in Counters /\ u.today <= u.total /\ u.today \in Nat /\ u.total \in Nat
    BY <1>3 DEF Counters
  <2>2. usage' = [u EXCEPT !.today = u.today + n, !.total = u.total + n]
    BY <1>4 DEF Charge
  <2> HIDE DEF u
  <2>3. u.today + n \in Nat /\ u.total + n \in Nat
    BY <2>1
  <2>4. /\ usage' \in Counters
        /\ usage'.today = u.today + n /\ usage'.total = u.total + n /\ usage'.day = u.day
    BY <1>1, <2>1, <2>2, <2>3, Counted DEF Counters
  <2> QED
    BY <2>1, <2>4 DEF u
<1> QED
  BY <1>3, <1>4

\* The history stays within numbers.
LEMMA HistoryKept ==
  ASSUME TypeOK, Observe, budget' \in Budgets
  PROVE  peak' \in Nat /\ width' \in Nat
<1>1. peak \in Nat /\ width \in Nat
  BY DEF TypeOK
<1> QED
  BY <1>1, CallsAreFinite DEF Observe, Larger

\* A call, a return or neither keeps the types of the tasks.
LEMMA TasksKept ==
  ASSUME TypeOK, NEW c \in Tasks, Call(c) \/ Return(c) \/ UNCHANGED tasks
  PROVE  /\ pc' \in [Tasks -> {"idle", "called", "queued", "syncing"}]
         /\ since' \in [News -> 0..now] /\ asked' \in [Tasks -> 0..now]
<1>1. now \in Nat /\ pc \in [Tasks -> {"idle", "called", "queued", "syncing"}]
      /\ since \in [News -> 0..now] /\ asked \in [Tasks -> 0..now]
  BY DEF TypeOK
<1>2. CASE Call(c)
  <2>1. pc' = [pc EXCEPT ![c] = "called"] /\ asked' = asked
    BY <1>2 DEF Call
  <2>2. since' = [since EXCEPT ![c] = now] \/ since' = since
    BY <1>2 DEF Call
  <2> QED
    BY <1>1, <2>1, <2>2
<1>3. CASE Return(c)
  <2>1. pc' = [pc EXCEPT ![c] = "idle"] /\ asked' = [asked EXCEPT ![c] = 0]
    BY <1>3 DEF Return
  <2>2. since' = [since EXCEPT ![c] = 0] \/ since' = since
    BY <1>3 DEF Return
  <2> QED
    BY <1>1, <2>1, <2>2
<1> QED
  BY <1>1, <1>2, <1>3 DEF tasks

TasksTyped ==
    /\ pc \in [Tasks -> {"idle", "called", "queued", "syncing"}]
    /\ since \in [News -> 0..now] /\ asked \in [Tasks -> 0..now]

SyncedTyped == synced \in [day : 0..Day, ok : BOOLEAN, total : Nat]
UsageTyped  == usage \in Counters /\ usage.today <= usage.total
RuntimeTyped == runtime \in Runtimes /\ witnesses \subseteq Callers
SystemTyped ==
    /\ up \in BOOLEAN /\ crashes \in 0..MaxCrashes
    /\ config \in [key : BOOLEAN, enabled : BOOLEAN] /\ budget \in Budgets

\* A step that does not move the clock keeps the types if it keeps these.
LEMMA Assembled ==
  ASSUME TypeOK, now' = now, Observe, Edit,
         SystemTyped', RuntimeTyped', UsageTyped', SyncedTyped', TasksTyped',
         published' \in 0..now \cup {Never}, reviewed' \subseteq Ids
  PROVE  TypeOK'
<1>1. ProposalsTyped'
  BY EditsAreTyped DEF TypeOK
<1>2. peak' \in Nat /\ width' \in Nat
  BY HistoryKept DEF SystemTyped
<1> QED
  BY <1>1, <1>2 DEF TypeOK, SystemTyped, RuntimeTyped, UsageTyped, SyncedTyped, TasksTyped,
     Runtimes, Counters

\* What does not change keeps its type.
LEMMA Unchanged ==
  ASSUME TypeOK, now' = now
  PROVE  /\ UNCHANGED <<up, crashes, config, budget>> => SystemTyped'
         /\ UNCHANGED <<runtime, witnesses>> => RuntimeTyped'
         /\ UNCHANGED usage => UsageTyped'
         /\ UNCHANGED synced => SyncedTyped'
         /\ UNCHANGED tasks => TasksTyped'
         /\ UNCHANGED published => published' \in 0..now \cup {Never}
         /\ UNCHANGED reviewed => reviewed' \subseteq Ids
         /\ usage' = Rolled => UsageTyped'
         /\ \A n \in Nat : Charge(n) => UsageTyped'
         /\ \A r \in Runtimes : SetRuntime(r) => RuntimeTyped'
         /\ \A c \in Tasks : Call(c) \/ Return(c) => TasksTyped'
<1>1. Day' = Day /\ Month' = Month
  BY DEF Day, Month
<1>2. Counters' = Counters
  BY <1>1 DEF Counters
<1>3. UNCHANGED usage => UsageTyped'
  BY <1>2 DEF UsageTyped, Counters, TypeOK
<1>4. usage' = Rolled => UsageTyped'
  BY <1>2, UsageKept DEF UsageTyped
<1>5. \A n \in Nat : Charge(n) => UsageTyped'
  BY <1>2, UsageKept DEF UsageTyped
<1>6. \A r \in Runtimes : SetRuntime(r) => RuntimeTyped'
  BY RuntimeKept DEF RuntimeTyped, Runtimes
<1>7. \A c \in Tasks : Call(c) \/ Return(c) => TasksTyped'
  BY TasksKept DEF TasksTyped
<1>8. UNCHANGED tasks => TasksTyped'
  BY DEF TasksTyped, TypeOK, tasks
<1>9. UNCHANGED synced => SyncedTyped'
  BY <1>1 DEF SyncedTyped, TypeOK
<1>10. UNCHANGED <<runtime, witnesses>> => RuntimeTyped'
  BY DEF RuntimeTyped, Runtimes, TypeOK
<1>11. UNCHANGED <<up, crashes, config, budget>> => SystemTyped'
  BY DEF SystemTyped, TypeOK
<1>12. /\ UNCHANGED published => published' \in 0..now \cup {Never}
       /\ UNCHANGED reviewed => reviewed' \subseteq Ids
  BY DEF TypeOK
<1> QED
  BY <1>3, <1>4, <1>5, <1>6, <1>7, <1>8, <1>9, <1>10, <1>11, <1>12

\* What the start of a call can do.
Asked(c) ==
    /\ pc[c] = "idle"
    /\ \/ UNCHANGED tasks /\ usage' \in {usage, Rolled}
       \/ /\ Call(c) /\ usage' = Rolled
          /\ \E n \in Estimates : ~Blocked(n)
    /\ \/ SetRuntime(Status)
       \/ SetRuntime(Paused) /\ UNCHANGED tasks
    /\ UNCHANGED tasks \/ Status.mode = "normal"
    /\ UNCHANGED <<now, config, budget, synced, published, up, crashes, reviewed, proposals>>
    /\ Observe

\* Whoever starts asks the guard and the budget first.
LEMMA StartsAsk ==
  ASSUME NEW c \in Callers, StartDecision(c) \/ StartNews(c) \/ StartReview(c)
  PROVE  Asked(c)
<1>1. ASSUME CallIfAdmitted(c)
      PROVE  \/ UNCHANGED tasks /\ usage' \in {usage, Rolled}
             \/ Call(c) /\ usage' = Rolled /\ \E n \in Estimates : ~Blocked(n)
  BY <1>1 DEF CallIfAdmitted, Blocked
<1>2. CASE StartDecision(c)
  <2> DEFINE n0(n) ==
          CASE Status.mode # "normal" -> SetRuntime(Status) /\ UNCHANGED <<tasks, usage>>
            [] Status.mode = "normal" /\ Blocked(n) ->
                  SetRuntime(Status) /\ ReadUsage /\ UNCHANGED tasks
            [] Status.mode = "normal" /\ ~Blocked(n) /\ ~config.key ->
                  SetRuntime(Paused) /\ ReadUsage /\ UNCHANGED tasks
            [] OTHER -> SetRuntime(Status) /\ ReadUsage /\ Call(c)
  <2>1. PICK n \in Estimates : n0(n)
    BY <1>2, Zenon DEF StartDecision
  <2>2. /\ pc[c] = "idle" /\ Observe
        /\ UNCHANGED <<now, config, budget, synced, published, up, crashes, reviewed, proposals>>
    BY <1>2, Zenon DEF StartDecision
  <2>3. CASE Status.mode # "normal"
    <3>1. SetRuntime(Status) /\ UNCHANGED tasks /\ usage' = usage
      BY <2>1, <2>3
    <3> QED
      BY <2>2, <3>1, Zenon DEF Asked
  <2>4. CASE Status.mode = "normal" /\ (Blocked(n) \/ ~config.key)
    <3>1. /\ SetRuntime(Status) \/ SetRuntime(Paused)
          /\ UNCHANGED tasks /\ usage' = Rolled
      BY <2>1, <2>4 DEF ReadUsage
    <3> QED
      BY <2>2, <3>1, Zenon DEF Asked
  <2>5. CASE Status.mode = "normal" /\ ~Blocked(n) /\ config.key
    <3>1. SetRuntime(Status) /\ Call(c) /\ usage' = Rolled
      BY <2>1, <2>5 DEF ReadUsage
    <3> QED
      BY <2>2, <2>5, <3>1, Zenon DEF Asked
  <2> QED
    BY <2>3, <2>4, <2>5, Zenon
<1>3. CASE StartNews(c)
  <2>1. /\ pc[c] = "idle" /\ Observe
        /\ UNCHANGED <<now, config, budget, synced, published, up, crashes, reviewed, proposals>>
    BY <1>3, Zenon DEF StartNews
  <2>2. CASE config.key /\ Status.mode = "normal" /\ now # published
    <3>1. SetRuntime(Status) /\ CallIfAdmitted(c)
      BY <1>3, <2>2 DEF StartNews
    <3> QED
      BY <1>1, <2>1, <2>2, <3>1, Zenon DEF Asked
  <2>3. CASE ~(config.key /\ Status.mode = "normal" /\ now # published)
    <3>1. /\ SetRuntime(Status) \/ SetRuntime(Paused)
          /\ UNCHANGED tasks /\ usage' = usage
      <4>1. UNCHANGED <<tasks, usage>> /\ SetRuntime(IF config.key THEN Status ELSE Paused)
        BY <1>3, <2>3, Zenon DEF StartNews
      <4> QED
        BY <4>1
    <3> QED
      BY <2>1, <3>1, Zenon DEF Asked
  <2> QED
    BY <2>2, <2>3, Zenon
<1>4. CASE StartReview(c)
  <2>1. /\ pc[c] = "idle" /\ Observe /\ SetRuntime(Status)
        /\ UNCHANGED <<now, config, budget, synced, published, up, crashes, reviewed, proposals>>
        /\ UNCHANGED <<tasks, usage>> \/ (Status.mode = "normal" /\ CallIfAdmitted(c))
    BY <1>4, Zenon DEF StartReview
  <2>2. CASE UNCHANGED <<tasks, usage>>
    <3>1. UNCHANGED tasks /\ usage' = usage
      BY <2>2
    <3> QED
      BY <2>1, <3>1, Zenon DEF Asked
  <2>3. CASE Status.mode = "normal" /\ CallIfAdmitted(c)
    BY <1>1, <2>1, <2>3, Zenon DEF Asked
  <2> QED
    BY <2>1, <2>2, <2>3, Zenon
<1> QED
  BY <1>2, <1>3, <1>4

\* The stores are empty or hold their defaults at first.
LEMMA InitTyped == Init => TypeOK
<1> SUFFICES ASSUME Init PROVE TypeOK
  OBVIOUS
<1>1. Day = 0 /\ Month = 0
  <2>1. ASSUME NEW p \in Nat \ {0} PROVE 0 \div p = 0
    BY SMT
  <2>2. Day = 0
    BY <2>1 DEF Init, Day
  <2> QED
    BY <2>1, <2>2 DEF Month
<1>2. NoUsage \in [day : 0..Day, month : 0..Month, today : Nat, total : Nat] /\ NoUsage.today <= NoUsage.total
  BY <1>1 DEF NoUsage
<1>3. ProposalsTyped
  <2>1. <<>> \in Seq(Rules) /\ OldRules \in Seq(Rules) /\ ToSet(OldRules) \subseteq Rules
    BY DEF Rules
  <2>2. /\ Document("none", <<>>, <<>>) \in Documents
        /\ Document("old", OldRules, <<>>) \in Documents
    BY <2>1 DEF Documents, Document
  <2>3. dir \in [Ids -> Dirs] /\ half \subseteq Ids /\ backup \in {"none", "copy", "empty"}
    BY DEF Init, InitProposals, Dirs
  <2>4. document \in Documents /\ approved \subseteq Rules
    BY <2>1, <2>2 DEF Init, InitProposals
  <2> QED
    BY <2>3, <2>4 DEF ProposalsTyped
<1>4. budget \in Budgets /\ budget \in Nat
  BY DEF Init
<1>5. /\ runtime \in [mode : {"normal", "paused", "backoff"}, until : Nat]
      /\ config \in [key : BOOLEAN, enabled : BOOLEAN]
      /\ synced \in [day : 0..Day, ok : BOOLEAN, total : Nat]
  BY <1>1 DEF Init, Normal
<1>6. /\ pc \in [Tasks -> {"idle", "called", "queued", "syncing"}]
      /\ since \in [News -> 0..now] /\ asked \in [Tasks -> 0..now]
  BY DEF Init
<1>7. /\ usage \in [day : 0..Day, month : 0..Month, today : Nat, total : Nat]
      /\ usage.today <= usage.total
  BY <1>2 DEF Init
<1>8. now \in 0..MaxTime /\ crashes \in 0..MaxCrashes
  BY DEF Init
<1>10. up \in BOOLEAN
  BY Zenon DEF Init
<1>9. /\ published \in 0..now \cup {Never}
      /\ peak \in Nat /\ width \in Nat /\ witnesses \subseteq Callers /\ reviewed \subseteq Ids
  <2>1. published = Never /\ peak = budget /\ width = 0 /\ witnesses = {} /\ reviewed = {}
    BY DEF Init
  <2> QED
    BY <1>4, <2>1
<1> QED
  BY <1>3, <1>4, <1>5, <1>6, <1>7, <1>8, <1>9, <1>10, Zenon DEF TypeOK

\* Every step keeps the types.
LEMMA TypesKept == TypeOK /\ [Next]_vars => TypeOK'
<1> SUFFICES ASSUME TypeOK, [Next]_vars PROVE TypeOK'
  OBVIOUS
<1> USE DEF stores
<1>1. ASSUME NEW c \in Callers, Asked(c) PROVE TypeOK'
  BY <1>1, Unchanged, Assembled, RuntimeKept DEF Asked, Edit, Tasks
<1>2. ASSUME NEW c \in Callers, CallFails(c) PROVE TypeOK'
  BY <1>2, Unchanged, Assembled, RuntimeKept DEF CallFails, Edit, Tasks
<1>3. ASSUME NEW c \in Callers, Answered(c) PROVE TypeOK'
  <2>1. TasksTyped'
    BY <1>3 DEF Answered, TasksTyped, TypeOK, Tasks
  <2>2. UsageTyped'
    BY <1>3, Unchanged DEF Answered
  <2> QED
    BY <1>3, <2>1, <2>2, Unchanged, Assembled DEF Answered, Edit
<1>4. ASSUME NEW c \in Refreshes, AskRefresh(c) PROVE TypeOK'
  <2>1. TasksTyped'
    BY <1>4 DEF AskRefresh, TasksTyped, TypeOK, Tasks
  <2> QED
    BY <1>4, <2>1, Unchanged, Assembled DEF AskRefresh, Edit
<1>5. ASSUME NEW c \in Tasks, BeginSync(c) PROVE TypeOK'
  <2>1. TasksTyped'
    BY <1>5 DEF BeginSync, TasksTyped, TypeOK
  <2> QED
    BY <1>5, <2>1, Unchanged, Assembled DEF BeginSync, Edit
<1>6. ASSUME NEW c \in Tasks, EndSync(c) PROVE TypeOK'
  <2>1. SyncedTyped'
    <3>1. Day' = Day
      BY <1>6 DEF EndSync, Day
    <3>2. Day \in Nat /\ asked[c] \div PeriodsPerDay \in 0..Day
          /\ synced \in [day : 0..Day, ok : BOOLEAN, total : Nat]
      BY Calendar DEF TypeOK
    <3>3. Report(c)
      BY <1>6 DEF EndSync
    <3>4. \E d \in 0..Day, b \in BOOLEAN, t \in Nat : synced' = [day |-> d, ok |-> b, total |-> t]
      <4>1. CASE \E n \in Reports :
                    synced' = [day |-> asked[c] \div PeriodsPerDay, ok |-> TRUE, total |-> n]
        BY <3>2, <4>1
      <4>2. CASE synced' = [day |-> Day, ok |-> FALSE,
                            total |-> IF synced.day = Day THEN synced.total ELSE 0]
        <5> DEFINE t == IF synced.day = Day THEN synced.total ELSE 0
        <5>1. Day \in 0..Day /\ t \in Nat
          BY <3>2
        <5> HIDE DEF t
        <5>2. synced' = [day |-> Day, ok |-> FALSE, total |-> t]
          BY <4>2 DEF t
        <5> QED
          BY <5>1, <5>2
      <4> QED
        BY <3>3, <4>1, <4>2 DEF Report
    <3> QED
      BY <3>1, <3>2, <3>4 DEF SyncedTyped
  <2>2. /\ now' = now /\ Observe /\ SystemTyped' /\ UsageTyped' /\ TasksTyped'
    BY <1>6, Unchanged DEF EndSync
  <2>3. Edit
    BY <1>6 DEF EndSync, Unusable, Useful, ConcludeNews, ConcludeReview, Edit
  <2>4. RuntimeTyped'
    BY <1>6, <2>2, Unchanged, RuntimeKept
    DEF EndSync, Unusable, Useful, ConcludeNews, ConcludeReview
  <2>5. published' \in 0..now \cup {Never} /\ reviewed' \subseteq Ids
    BY <1>6 DEF EndSync, Unusable, Useful, ConcludeNews, ConcludeReview, TypeOK
  <2> QED
    BY <2>1, <2>2, <2>3, <2>4, <2>5, Assembled
<1>7. ASSUME ShowStatus \/ Resume PROVE TypeOK'
  BY <1>7, Unchanged, Assembled, RuntimeKept DEF ShowStatus, Resume, ReadUsage, Edit
<1>8. ASSUME SetBudget PROVE TypeOK'
  <2>1. SystemTyped'
    BY <1>8 DEF SetBudget, SystemTyped, TypeOK
  <2> QED
    BY <1>8, <2>1, Unchanged, Assembled DEF SetBudget, Edit
<1>9. ASSUME EditProposals PROVE TypeOK'
  BY <1>9, Unchanged, Assembled DEF EditProposals, Edit
<1>10. ASSUME Tick PROVE TypeOK'
  <2>1. ProposalsTyped'
    BY <1>10, EditsAreTyped DEF Tick, Edit, TypeOK
  <2>2. peak' \in Nat /\ width' \in Nat
    BY <1>10, HistoryKept DEF Tick, TypeOK
  <2>3. now \in Nat /\ now' \in 0..MaxTime /\ now' >= now
    BY <1>10 DEF Tick, TypeOK
  <2>4. Day' \in Nat /\ Month' \in Nat /\ Day' >= Day /\ Month' >= Month
    BY <2>3, Calendar
  <2>5. Day \in Nat /\ Month \in Nat
    BY Calendar
  <2>6. usage' \in [day : 0..Day', month : 0..Month', today : Nat, total : Nat]
        /\ usage'.today <= usage'.total
        /\ synced' \in [day : 0..Day', ok : BOOLEAN, total : Nat]
    BY <1>10, <2>4, <2>5 DEF Tick, TypeOK
  <2>7. published' \in 0..now' \cup {Never} /\ since' \in [News -> 0..now'] /\ asked' \in [Tasks -> 0..now']
    BY <1>10, <2>3 DEF Tick, TypeOK, tasks
  <2> QED
    BY <1>10, <2>1, <2>2, <2>3, <2>6, <2>7 DEF Tick, TypeOK, tasks
<1>11. ASSUME Boot \/ BootDies PROVE TypeOK'
  <2>1. SystemTyped'
    <3>1. crashes \in 0..MaxCrashes /\ up \in BOOLEAN /\ budget \in Budgets
          /\ config \in [key : BOOLEAN, enabled : BOOLEAN]
      BY DEF TypeOK
    <3>2. CASE Boot
      BY <3>1, <3>2 DEF Boot, SystemTyped
    <3>3. CASE BootDies
      BY <3>1, <3>3 DEF BootDies, SystemTyped
    <3> QED
      BY <1>11, <3>2, <3>3
  <2> QED
    BY <1>11, <2>1, Unchanged, Assembled DEF Boot, BootDies, Edit
<1>12. ASSUME Die PROVE TypeOK'
  <2>1. SystemTyped'
    <3>1. crashes \in 0..MaxCrashes /\ budget \in Budgets
          /\ config \in [key : BOOLEAN, enabled : BOOLEAN]
      BY DEF TypeOK
    <3> QED
      <4>1. up' = FALSE /\ crashes < MaxCrashes /\ crashes' = crashes + 1
            /\ config' = config /\ budget' = budget
        BY <1>12 DEF Die
      <4>2. up' \in BOOLEAN
        BY <4>1, Zenon
      <4>4. crashes' \in 0..MaxCrashes
        BY <3>1, <4>1
      <4>3. config' \in [key : BOOLEAN, enabled : BOOLEAN] /\ budget' \in Budgets
        BY <3>1, <4>1
      <4> QED
        BY <4>2, <4>3, <4>4 DEF SystemTyped
  <2>3. TasksTyped'
    <3>1. now \in Nat /\ now' = now
      BY <1>12 DEF Die, TypeOK
    <3> QED
      BY <1>12, <3>1 DEF Die, TasksTyped
  <2>2. Edit /\ reviewed' \subseteq Ids
    BY <1>12 DEF Die, Edit, TypeOK
  <2> QED
    BY <1>12, <2>1, <2>2, <2>3, Unchanged, Assembled DEF Die
<1>13. ASSUME UNCHANGED vars PROVE TypeOK'
  <2>1. ProposalsTyped'
    BY <1>13, EditsAreTyped DEF vars, Edit, TypeOK
  <2> QED
    BY <1>13, <2>1 DEF vars, tasks, TypeOK, Day, Month
<1> QED
  BY <1>1, <1>2, <1>3, <1>4, <1>5, <1>6, <1>7, <1>8, <1>9, <1>10, <1>11, <1>12, <1>13, StartsAsk
  DEF Next, Callers

\* Values of every variable stay in their types: counters of today never exceed
\* those of the month, and no recorded day or period lies in the future.
THEOREM TypeInvariant == Spec => []TypeOK
  BY InitTyped, TypesKept, PTL DEF Spec

-----------------------------------------------------------------------------
(* What the steps do to the calls, the runtime state and the usage. *)

\* Every step is one of a few kinds.
LEMMA StepsOfTasks ==
  ASSUME TypeOK, Next
  PROVE  \/ \E c \in Callers : Asked(c)
         \/ \E c \in Callers : CallFails(c) \/ Answered(c)
         \/ \E c \in Refreshes : AskRefresh(c)
         \/ \E c \in Tasks : BeginSync(c) \/ EndSync(c)
         \/ ShowStatus \/ Resume \/ SetBudget \/ EditProposals \/ Tick
         \/ Boot \/ BootDies \/ Die
  BY StartsAsk DEF Next, Callers

-----------------------------------------------------------------------------
(* The budget. *)

BudgetInv ==
    /\ budget <= peak
    /\ Cardinality(Calling) <= width
    /\ BudgetOvershoot

\* Three kinds of steps: no call begins or is charged; an answer is charged; a
\* call begins, within the budget.
Spent ==
    /\ Observe /\ budget' \in Budgets
    /\ \/ Calling' \subseteq Calling /\ usage' \in {usage, Rolled}
       \/ \E c \in Calling, n \in 0..MaxUsage : Calling' = Calling \ {c} /\ Charge(n)
       \/ usage' = Rolled /\ Rolled.today <= budget'

\* A call that the budget does not block finds the day within it.
LEMMA Admitted ==
  ASSUME TypeOK, NEW n \in Estimates, ~Blocked(n)
  PROVE  Rolled.today <= budget
<1>1. Rolled.today \in Nat /\ budget \in Nat /\ n \in Nat /\ synced.total \in Nat
  BY UsageKept DEF TypeOK, Counters
<1>2. Used \in Nat /\ Used >= Rolled.today
  BY <1>1 DEF Used, Larger
<1>3. ~(Used + n > budget)
  BY DEF Blocked
<1> QED
  BY <1>1, <1>2, <1>3

\* What each kind of step does to the tokens spent and to the calls in flight.
LEMMA StepsSpend ==
  ASSUME TypeOK, Next
  PROVE  Spent
<1> USE DEF stores
<1>0. budget \in Budgets /\ pc \in [Tasks -> {"idle", "called", "queued", "syncing"}]
      /\ Callers \subseteq Tasks
  BY DEF TypeOK, Tasks
<1>1. ASSUME NEW c \in Callers, Asked(c) PROVE Spent
  <2>1. Observe /\ budget' \in Budgets /\ budget' = budget
    BY <1>0, <1>1 DEF Asked
  <2>2. CASE UNCHANGED tasks /\ usage' \in {usage, Rolled}
    BY <2>1, <2>2 DEF Spent, Calling, tasks
  <2>3. CASE Call(c) /\ usage' = Rolled /\ \E n \in Estimates : ~Blocked(n)
    BY <2>1, <2>3, Admitted DEF Spent
  <2> QED
    BY <1>1, <2>2, <2>3 DEF Asked
<1>2. ASSUME NEW c \in Callers, CallFails(c) PROVE Spent
  <2>1. Calling' \subseteq Calling
    BY <1>0, <1>2 DEF CallFails, Return, Calling
  <2> QED
    BY <1>0, <1>2, <2>1 DEF CallFails, Spent
<1>3. ASSUME NEW c \in Callers, Answered(c) PROVE Spent
  <2>1. c \in Calling /\ Calling' = Calling \ {c}
    BY <1>0, <1>3 DEF Answered, Calling
  <2>2. (\E n \in 0..MaxUsage : Charge(n)) \/ usage' = usage
    BY <1>3 DEF Answered
  <2>3. Observe /\ budget' \in Budgets
    BY <1>0, <1>3 DEF Answered
  <2> QED
    BY <2>1, <2>2, <2>3 DEF Spent
<1>4. ASSUME NEW c \in Tasks, BeginSync(c) \/ EndSync(c) PROVE Spent
  <2>1. Calling' \subseteq Calling
    BY <1>0, <1>4 DEF BeginSync, EndSync, Return, Calling
  <2> QED
    BY <1>0, <1>4, <2>1 DEF BeginSync, EndSync, Spent
<1>5. ASSUME NEW c \in Refreshes, AskRefresh(c) PROVE Spent
  <2>1. Calling' \subseteq Calling
    BY <1>0, <1>5 DEF AskRefresh, Calling, Tasks
  <2> QED
    BY <1>0, <1>5, <2>1 DEF AskRefresh, Spent
<1>6. CASE ShowStatus \/ Resume \/ SetBudget \/ EditProposals \/ Tick \/ Boot \/ BootDies
  <2>1. Calling' \subseteq Calling
    BY <1>6 DEF ShowStatus, Resume, SetBudget, EditProposals, Tick, Boot, BootDies, tasks, Calling
  <2> QED
    BY <1>0, <1>6, <2>1
    DEF ShowStatus, ReadUsage, Resume, SetBudget, EditProposals, Tick, Boot, BootDies, Spent
<1>7. CASE Die
  <2>1. Calling' \subseteq Calling
    BY <1>0, <1>7 DEF Die, Calling
  <2> QED
    BY <1>0, <1>7, <2>1 DEF Die, Spent
<1> QED
  BY <1>1, <1>2, <1>3, <1>4, <1>5, <1>6, <1>7, StepsOfTasks

\* Every step keeps the budget invariant, ...
LEMMA BudgetKept == TypeOK /\ BudgetInv /\ [Next]_vars => BudgetInv'
<1> SUFFICES ASSUME TypeOK, BudgetInv, [Next]_vars PROVE BudgetInv'
  OBVIOUS
<1> DEFINE k  == Cardinality(Calling)
           kk == Cardinality(Calling')
           t  == usage.today
           tt == usage'.today
<1>1. CASE UNCHANGED vars
  BY <1>1 DEF vars, stores, tasks, BudgetInv, BudgetOvershoot, Calling
<1>2. CASE Next
  <2>1. Spent
    BY <1>2, StepsSpend
  <2>2. k \in Nat /\ kk \in Nat
    BY CallsAreFinite
  <2>3. /\ t \in Nat /\ budget' \in Nat /\ budget \in Nat /\ peak \in Nat /\ width \in Nat
    BY <2>1 DEF Spent, TypeOK
  <2>4. /\ budget <= peak /\ k <= width
        /\ t + MaxUsage * k <= peak + MaxUsage * width
    BY DEF BudgetInv, BudgetOvershoot
  <2>5. /\ peak' \in Nat /\ width' \in Nat /\ budget' <= peak' /\ kk <= width'
        /\ usage'.day # usage.day => k <= width'
        /\ usage'.day = usage.day => peak <= peak' /\ width <= width'
    <3>1. /\ peak' = IF usage'.day # usage.day THEN budget' ELSE Larger(peak, budget')
          /\ width' = Larger(IF usage'.day # usage.day THEN k ELSE width, kk)
      BY <2>1 DEF Spent, Observe
    <3> HIDE DEF k, kk
    <3> QED
      BY <2>2, <2>3, <3>1 DEF Larger
  <2>6. Rolled.today \in 0..t /\ (Rolled.day # usage.day => Rolled.today = 0)
    BY UsageKept
  <2>7. tt + MaxUsage * kk <= peak' + MaxUsage * width'
    <3> HIDE DEF k, kk, t, tt
    <3>1. /\ MaxUsage * k \in Nat /\ MaxUsage * kk \in Nat /\ MaxUsage * width \in Nat
          /\ MaxUsage * width' \in Nat
      <4>1. \A a \in Nat : MaxUsage * a \in Nat
        OBVIOUS
      <4> QED
        BY <2>2, <2>3, <2>5, <4>1
    <3>2. ASSUME NEW a \in Nat, NEW b \in Nat, a <= b PROVE MaxUsage * a <= MaxUsage * b
      <4>1. PICK d \in Nat : b = a + d
        <5>1. b - a \in Nat /\ b = a + (b - a)
          BY <3>2
        <5> QED
          BY <5>1
      <4>2. MaxUsage * b = MaxUsage * a + MaxUsage * d /\ MaxUsage * d \in Nat
            /\ MaxUsage * a \in Nat
        BY <4>1
      <4> QED
        BY <4>2
    <3>3. MaxUsage * kk <= MaxUsage * width'
      BY <2>2, <2>5, <3>2
    <3>4. usage'.day = usage.day => MaxUsage * width <= MaxUsage * width'
      BY <2>3, <2>5, <3>2
    <3>5. usage'.day # usage.day => MaxUsage * k <= MaxUsage * width'
      BY <2>2, <2>5, <3>2
    <3>6. CASE Calling' \subseteq Calling /\ usage' \in {usage, Rolled}
      <4>1. kk <= k
        BY <3>6, CallsAreFinite, FS_Subset DEF k, kk
      <4>2. MaxUsage * kk <= MaxUsage * k
        BY <2>2, <3>2, <4>1
      <4>3. tt \in 0..t /\ (usage'.day # usage.day => tt = 0)
        BY <2>3, <2>6, <3>6 DEF t, tt
      <4>4. CASE usage'.day = usage.day
        <5> DEFINE x == MaxUsage * k
                   y == MaxUsage * kk
                   u == MaxUsage * width
                   v == MaxUsage * width'
        <5>1. /\ x \in Nat /\ y \in Nat /\ u \in Nat /\ v \in Nat
              /\ t + x <= peak + u /\ y <= x /\ u <= v
          BY <2>4, <3>1, <3>4, <4>2, <4>4
        <5>2. tt \in 0..t /\ peak <= peak' /\ peak' \in Nat /\ peak \in Nat /\ t \in Nat
          BY <2>3, <2>5, <4>3, <4>4
        <5> HIDE DEF x, y, u, v
        <5>3. tt + y <= peak' + v
          <6>1. ASSUME NEW p \in Nat, NEW q \in Nat, p <= q, NEW i \in Nat, NEW j \in 0..i
                PROVE  i + x <= p + u => j + y <= q + v
            BY <5>1, <6>1
          <6> QED
            BY <5>1, <5>2, <6>1
        <5> QED
          BY <5>3 DEF y, v
      <4>5. CASE usage'.day # usage.day
        BY <2>5, <3>1, <3>3, <4>3, <4>5
      <4> QED
        BY <4>4, <4>5
    <3>7. ASSUME NEW c \in Calling, NEW n \in 0..MaxUsage, Calling' = Calling \ {c}, Charge(n)
          PROVE  tt + MaxUsage * kk <= peak' + MaxUsage * width'
      <4>1. kk = k - 1
        BY <3>7, CallsAreFinite, FS_RemoveElement DEF k, kk
      <4>2. MaxUsage * k = MaxUsage * kk + MaxUsage
        BY <2>2, <4>1
      <4>3. n \in Nat /\ tt = Rolled.today + n /\ usage'.day = Rolled.day
        BY <3>7, UsageKept DEF tt
      <4>4. CASE usage'.day = usage.day
        <5> DEFINE x == MaxUsage * k
                   y == MaxUsage * kk
                   u == MaxUsage * width
                   v == MaxUsage * width'
        <5>1. /\ x \in Nat /\ y \in Nat /\ u \in Nat /\ v \in Nat
              /\ t + x <= peak + u /\ x = y + MaxUsage /\ u <= v
          BY <2>4, <3>1, <3>4, <4>2, <4>4
        <5>2. /\ tt = Rolled.today + n /\ n \in 0..MaxUsage /\ Rolled.today \in 0..t
              /\ peak <= peak' /\ peak' \in Nat /\ peak \in Nat /\ t \in Nat
          BY <2>3, <2>5, <2>6, <4>3, <4>4
        <5> HIDE DEF x, y, u, v
        <5>3. tt + y <= peak' + v
          BY <5>1, <5>2
        <5> QED
          BY <5>3 DEF y, v
      <4>5. CASE usage'.day # usage.day
        BY <2>3, <2>5, <2>6, <3>1, <3>5, <4>2, <4>3, <4>5
      <4> QED
        BY <4>4, <4>5
    <3>8. CASE usage' = Rolled /\ Rolled.today <= budget'
      BY <2>3, <2>5, <2>6, <3>1, <3>3, <3>8 DEF tt
    <3> QED
      BY <2>1, <3>6, <3>7, <3>8 DEF Spent
  <2> QED
    BY <2>5, <2>7 DEF BudgetInv, BudgetOvershoot
<1> QED
  BY <1>1, <1>2

\* ... which holds at first.
LEMMA BudgetInit == Init => BudgetInv
<1> SUFFICES ASSUME Init PROVE BudgetInv
  OBVIOUS
<1>1. Calling = {}
  BY DEF Init, Calling, Tasks
<1>2. Cardinality(Calling) = 0
  BY <1>1, FS_EmptySet
<1>3. budget \in Nat /\ peak = budget /\ width = 0 /\ usage.today = 0
  BY DEF Init, NoUsage
<1> QED
  BY <1>2, <1>3 DEF BudgetInv, BudgetOvershoot

\* However calls, changes of the budget, reports and the days interleave, a day
\* costs at most what as many calls as were in flight at once may add to its
\* largest budget.
THEOREM BudgetHolds == Spec => []BudgetOvershoot
<1>1. BudgetInv => BudgetOvershoot
  BY DEF BudgetInv
<1> QED
  BY <1>1, InitTyped, TypesKept, BudgetInit, BudgetKept, PTL DEF Spec

-----------------------------------------------------------------------------
(* The pauses. *)

\* Nobody calls during a pause but those who did at its begin.
PauseInv == runtime.mode = "paused" => InFlight \subseteq witnesses

\* A step leaves the runtime state alone, repeats it, or sets it; while the LLM
\* is paused only a task that returns, or the user, sets it.
LEMMA PausedSteps ==
  ASSUME TypeOK, PauseInv, Next, runtime.mode = "paused"
  PROVE  /\ runtime'.mode = "paused" => InFlight' \subseteq InFlight /\ witnesses' = witnesses
         /\ runtime'.mode # "paused" =>
               \/ Resume
               \/ \E c \in witnesses : pc[c] # "idle" /\ pc'[c] = "idle"
<1> USE DEF stores
<1>0. /\ pc \in [Tasks -> {"idle", "called", "queued", "syncing"}] /\ Callers \subseteq Tasks
      /\ Refreshes \subseteq Tasks /\ Refreshes \cap Callers = {}
      /\ Status = runtime /\ Paused.mode = "paused"
  BY DEF TypeOK, Tasks, Status, Paused
<1>1. ASSUME NEW r, SetRuntime(r), r.mode = "paused"
      PROVE  runtime'.mode = "paused" /\ witnesses' = witnesses
  BY <1>1 DEF SetRuntime
<1>2. ASSUME NEW c \in Callers, pc[c] # "idle", pc'[c] = "idle"
      PROVE  \E d \in witnesses : pc[d] # "idle" /\ pc'[d] = "idle"
  BY <1>2 DEF PauseInv, InFlight
<1>3. ASSUME NEW c \in Tasks, Return(c)
      PROVE  InFlight' \subseteq InFlight /\ pc'[c] = "idle"
  BY <1>0, <1>3 DEF Return, InFlight
<1>4. ASSUME NEW r, SetRuntime(r)
      PROVE  runtime'.mode = "paused" => witnesses' = witnesses
  BY <1>4 DEF SetRuntime
<1>5. ASSUME NEW c \in Callers, Asked(c)
      PROVE  runtime'.mode = "paused" /\ InFlight' \subseteq InFlight /\ witnesses' = witnesses
  <2>1. UNCHANGED tasks
    BY <1>0, <1>5 DEF Asked
  <2>2. SetRuntime(runtime) \/ SetRuntime(Paused)
    BY <1>0, <1>5 DEF Asked
  <2> QED
    BY <1>0, <1>1, <2>1, <2>2 DEF tasks, InFlight
<1>6. CASE \E c \in Callers : CallFails(c)
  <2>1. PICK c \in Callers : CallFails(c)
    BY <1>6
  <2>2. InFlight' \subseteq InFlight /\ pc[c] # "idle" /\ pc'[c] = "idle"
    BY <1>0, <1>3, <2>1 DEF CallFails
  <2>3. (\E r \in {Paused} \cup {Backoff(w) : w \in Waits} : SetRuntime(r))
        \/ UNCHANGED <<runtime, witnesses>>
    BY <2>1 DEF CallFails
  <2> QED
    BY <1>2, <1>4, <2>2, <2>3
<1>7. CASE \E c \in Callers : Answered(c)
  BY <1>0, <1>7 DEF Answered, InFlight
<1>8. CASE \E c \in Refreshes : AskRefresh(c)
  BY <1>0, <1>8 DEF AskRefresh, InFlight
<1>9. CASE \E c \in Tasks : BeginSync(c)
  BY <1>0, <1>9 DEF BeginSync, InFlight
<1>10. CASE \E c \in Tasks : EndSync(c)
  <2>1. PICK c \in Tasks : EndSync(c)
    BY <1>10
  <2>2. InFlight' \subseteq InFlight /\ pc[c] # "idle" /\ pc'[c] = "idle"
    BY <1>0, <1>3, <2>1 DEF EndSync
  <2>3. CASE UNCHANGED <<runtime, witnesses>>
    BY <2>2, <2>3
  <2>4. CASE c \in Callers /\ \E r \in {Normal} \cup {Backoff(w) : w \in Waits} : SetRuntime(r)
    BY <1>2, <1>4, <2>2, <2>4
  <2>5. \/ UNCHANGED <<runtime, witnesses>>
        \/ c \in Callers /\ \E r \in {Normal} \cup {Backoff(w) : w \in Waits} : SetRuntime(r)
    BY <2>1 DEF EndSync, Unusable, Useful, ConcludeNews, ConcludeReview, Callers
  <2> QED
    BY <2>3, <2>4, <2>5
<1>11. CASE ShowStatus
  <2>1. SetRuntime(runtime) /\ UNCHANGED tasks
    BY <1>0, <1>11 DEF ShowStatus
  <2> QED
    BY <1>1, <2>1 DEF tasks, InFlight
<1>12. CASE Resume
  <2>1. SetRuntime(Normal) /\ UNCHANGED tasks
    BY <1>12 DEF Resume
  <2> QED
    BY <1>4, <1>12, <2>1 DEF tasks, InFlight
<1>13. CASE SetBudget \/ EditProposals \/ Tick \/ Boot \/ BootDies
  BY <1>13 DEF SetBudget, EditProposals, Tick, Boot, BootDies, tasks, InFlight
<1>14. CASE Die
  BY <1>0, <1>14 DEF Die, InFlight
<1> QED
  BY <1>5, <1>6, <1>7, <1>8, <1>9, <1>10, <1>11, <1>12, <1>13, <1>14, StepsOfTasks

\* Every step keeps what is known of the calls in flight during a pause.
LEMMA PauseKept == TypeOK /\ PauseInv /\ [Next]_vars => PauseInv'
<1> SUFFICES ASSUME TypeOK, PauseInv, [Next]_vars, runtime'.mode = "paused"
             PROVE  InFlight' \subseteq witnesses'
  BY DEF PauseInv
<1>1. CASE UNCHANGED vars
  BY <1>1 DEF vars, stores, tasks, PauseInv, InFlight
<1>2. CASE Next /\ runtime.mode = "paused"
  BY <1>2, PausedSteps DEF PauseInv
<1>3. CASE Next /\ runtime.mode # "paused"
  <2> USE DEF stores
  <2>1. /\ pc \in [Tasks -> {"idle", "called", "queued", "syncing"}] /\ Callers \subseteq Tasks
        /\ Refreshes \subseteq Tasks /\ Refreshes \cap Callers = {}
        /\ Status.mode # "paused"
    BY <1>3 DEF TypeOK, Tasks, Status, Normal
  <2>2. ASSUME NEW r, SetRuntime(r), InFlight' \subseteq InFlight
        PROVE  InFlight' \subseteq witnesses'
    BY <1>3, <2>2 DEF SetRuntime
  <2>3. ASSUME NEW c \in Tasks, Return(c)
        PROVE  InFlight' \subseteq InFlight
    BY <2>1, <2>3 DEF Return, InFlight
  <2>4. CASE \E c \in Callers : Asked(c)
    <3>1. PICK c \in Callers : Asked(c)
      BY <2>4
    <3>2. ~SetRuntime(Status)
      BY <2>1 DEF SetRuntime
    <3>3. SetRuntime(Paused) /\ UNCHANGED tasks
      BY <3>1, <3>2 DEF Asked
    <3> QED
      BY <2>2, <3>3 DEF tasks, InFlight
  <2>5. CASE \E c \in Callers : CallFails(c)
    BY <1>3, <2>1, <2>2, <2>3, <2>5 DEF CallFails
  <2>6. CASE \E c \in Tasks : EndSync(c)
    <3>1. PICK c \in Tasks : EndSync(c)
      BY <2>6
    <3>2. \E r : SetRuntime(r)
      BY <1>3, <3>1 DEF EndSync, Unusable, Useful, ConcludeNews, ConcludeReview
    <3> QED
      BY <2>2, <2>3, <3>1, <3>2 DEF EndSync
  <2>7. CASE ShowStatus \/ Resume
    BY <2>2, <2>7 DEF ShowStatus, Resume, tasks, InFlight
  <2>8. CASE \/ \E c \in Callers : Answered(c)
             \/ \E c \in Refreshes : AskRefresh(c)
             \/ \E c \in Tasks : BeginSync(c)
             \/ SetBudget \/ EditProposals \/ Tick \/ Boot \/ BootDies \/ Die
    <3>1. runtime' = runtime
      BY <2>8
      DEF Answered, AskRefresh, BeginSync, SetBudget, EditProposals, Tick, Boot, BootDies, Die
    <3> QED
      BY <1>3, <3>1
  <2> QED
    BY <1>3, <2>4, <2>5, <2>6, <2>7, <2>8, StepsOfTasks
<1> QED
  BY <1>1, <1>2, <1>3

\* A pause ends by the user, or by a call that had begun before it, whatever
\* else is called, restarts, expires or asks for the status.
THEOREM PauseHolds == Spec => PauseLasts
<1>1. Init => PauseInv
  BY DEF Init, Normal, PauseInv
<1>2. TypeOK /\ PauseInv /\ [Next]_vars =>
        [runtime.mode = "paused" /\ runtime'.mode # "paused" =>
            \/ Resume
            \/ \E c \in witnesses : pc[c] # "idle" /\ pc'[c] = "idle"]_vars
  BY PausedSteps
<1> QED
  BY <1>1, <1>2, InitTyped, TypesKept, PauseKept, PTL DEF Spec, PauseLasts

-----------------------------------------------------------------------------
(* The reports. *)

\* One report is fetched at a time, and the kept one is no younger.
ReportInv ==
    \A c, d \in Tasks :
        pc[c] = "syncing" =>
            /\ synced.day <= asked[c] \div PeriodsPerDay
            /\ pc[d] = "syncing" => c = d

\* A step never replaces a report by one of an earlier day.
LEMMA ReportStep ==
  ASSUME TypeOK, ReportInv, Next
  PROVE  ReportInv' /\ synced'.day >= synced.day
<1> USE DEF stores
<1>0. /\ pc \in [Tasks -> {"idle", "called", "queued", "syncing"}] /\ asked \in [Tasks -> 0..now]
      /\ Callers \subseteq Tasks /\ Refreshes \subseteq Tasks
      /\ synced.day \in 0..Day /\ Day \in Nat
  BY Calendar DEF TypeOK, Tasks
<1>1. ASSUME NEW c \in Tasks, UNCHANGED synced, asked' = asked,
             \A d \in Tasks : pc'[d] = "syncing" => pc[d] = "syncing"
      PROVE  ReportInv' /\ synced'.day >= synced.day
  BY <1>0, <1>1 DEF ReportInv
<1>2. CASE \E c \in Callers : Asked(c)
  <2>1. PICK c \in Callers : Asked(c)
    BY <1>2
  <2>2. asked' = asked /\ UNCHANGED synced /\ (pc' = pc \/ pc' = [pc EXCEPT ![c] = "called"])
    BY <2>1 DEF Asked, Call, tasks
  <2> QED
    BY <1>0, <1>1, <2>2
<1>3. ASSUME NEW c \in Tasks, Return(c), UNCHANGED synced
      PROVE  ReportInv' /\ synced'.day >= synced.day
  BY <1>0, <1>3 DEF ReportInv, Return
<1>4. CASE \E c \in Callers : CallFails(c)
  BY <1>0, <1>3, <1>4 DEF CallFails
<1>5. CASE \E c \in Callers : Answered(c)
  <2>1. PICK c \in Callers : Answered(c)
    BY <1>5
  <2>2. asked' = asked /\ UNCHANGED synced /\ pc' = [pc EXCEPT ![c] = "queued"]
    BY <2>1 DEF Answered
  <2> QED
    BY <1>0, <1>1, <2>2
<1>6. CASE \E c \in Refreshes : AskRefresh(c)
  <2>1. PICK c \in Refreshes : AskRefresh(c)
    BY <1>6
  <2>2. asked' = asked /\ UNCHANGED synced /\ pc' = [pc EXCEPT ![c] = "queued"]
    BY <2>1 DEF AskRefresh
  <2> QED
    BY <1>0, <1>1, <2>2
<1>7. CASE \E c \in Tasks : BeginSync(c)
  <2>1. PICK c \in Tasks : BeginSync(c)
    BY <1>7
  <2>2. /\ \A d \in Tasks : pc[d] # "syncing"
        /\ pc' = [pc EXCEPT ![c] = "syncing"] /\ asked' = [asked EXCEPT ![c] = now]
        /\ synced' = synced
    BY <2>1 DEF BeginSync
  <2>3. asked'[c] = now /\ \A d \in Tasks : pc'[d] = "syncing" => d = c
    BY <1>0, <2>2
  <2>4. synced'.day <= asked'[c] \div PeriodsPerDay
    BY <1>0, <2>2, <2>3 DEF Day
  <2> QED
    BY <1>0, <2>2, <2>3, <2>4 DEF ReportInv
<1>8. CASE \E c \in Tasks : EndSync(c)
  <2>1. PICK c \in Tasks : EndSync(c)
    BY <1>8
  <2>2. pc[c] = "syncing" /\ Return(c) /\ Report(c)
    BY <2>1 DEF EndSync
  <2>3. \A d \in Tasks : pc'[d] # "syncing"
    BY <1>0, <2>2 DEF Return, ReportInv
  <2>4. synced'.day = asked[c] \div PeriodsPerDay \/ synced'.day = Day
    BY <2>2 DEF Report
  <2>5. synced.day <= asked[c] \div PeriodsPerDay
    BY <2>2 DEF ReportInv
  <2> QED
    BY <1>0, <2>3, <2>4, <2>5 DEF ReportInv
<1>9. CASE ShowStatus \/ Resume \/ SetBudget \/ EditProposals \/ Tick \/ Boot \/ BootDies
  <2>1. asked' = asked /\ pc' = pc /\ UNCHANGED synced
    BY <1>9 DEF ShowStatus, Resume, SetBudget, EditProposals, Tick, Boot, BootDies, tasks
  <2> QED
    BY <1>0, <2>1 DEF ReportInv
<1>10. CASE Die
  <2>1. UNCHANGED synced /\ \A c \in Tasks : pc'[c] # "syncing"
    BY <1>10 DEF Die
  <2> QED
    BY <1>0, <2>1 DEF ReportInv
<1> QED
  BY <1>2, <1>4, <1>5, <1>6, <1>7, <1>8, <1>9, <1>10, StepsOfTasks

\* The usage kept for a day is never replaced by that of the day before,
\* however many requests overlap and however late their answers come.
THEOREM ReportsHold == Spec => ReportsInOrder
<1>1. Init => ReportInv
  BY DEF Init, ReportInv
<1>2. TypeOK /\ ReportInv /\ [Next]_vars => ReportInv'
  BY ReportStep DEF vars, stores, tasks, ReportInv
<1>3. TypeOK /\ ReportInv /\ [Next]_vars => [synced'.day >= synced.day]_vars
  BY ReportStep
<1> QED
  BY <1>1, <1>2, <1>3, InitTyped, TypesKept, PTL DEF Spec, ReportsInOrder

-----------------------------------------------------------------------------
(* The proposals of the reviews. *)

Filed     == Pending \cap reviewed
Reviewing == InFlight \cap Reviews

FiledInv ==
    /\ \A p \in reviewed : dir[p] # "none"
    /\ PendingAreFew

\* A step files nothing, or begins reviews while nothing is pending, or ends a
\* review that files one proposal.
Filing ==
    \/ Filed' \subseteq Filed /\ Reviewing' \subseteq Reviewing
    \/ Filed' = {}
    \/ \E p \in Ids, c \in Reviewing :
          Filed' \subseteq Filed \cup {p} /\ Reviewing' \subseteq Reviewing \ {c}

FiledStays == \A p \in reviewed' : dir'[p] # "none"

\* A step files at most one proposal, for a review that it ends.
LEMMA StepsFile ==
  ASSUME TypeOK, FiledInv, Next
  PROVE  FiledStays /\ Filing
<1> USE DEF stores
<1>0. /\ pc \in [Tasks -> {"idle", "called", "queued", "syncing"}] /\ dir \in [Ids -> Dirs]
      /\ Callers \subseteq Tasks /\ Refreshes \subseteq Tasks /\ Refreshes \cap Reviews = {}
      /\ Decisions \cap Reviews = {} /\ News \cap Reviews = {} /\ Reviews \subseteq Callers
      /\ reviewed \subseteq Ids
  BY DEF TypeOK, ProposalsTyped, Tasks, Callers
<1>1. ASSUME dir' = dir, reviewed' = reviewed
      PROVE  FiledStays /\ Filed' = Filed
  BY <1>1 DEF FiledStays, FiledInv, Filed, Pending
<1>2. ASSUME NEW c \in Tasks, Return(c)
      PROVE  Reviewing' \subseteq Reviewing \ {c}
  BY <1>0, <1>2 DEF Return, Reviewing, InFlight
<1>3. CASE \E c \in Decisions \cup News : StartDecision(c) \/ StartNews(c)
  <2>1. PICK c \in Decisions \cup News : StartDecision(c) \/ StartNews(c)
    BY <1>3
  <2>2. Asked(c)
    BY <2>1, StartsAsk DEF Callers
  <2>3. dir' = dir /\ reviewed' = reviewed /\ (pc' = pc \/ pc' = [pc EXCEPT ![c] = "called"])
    BY <2>2 DEF Asked, Call, tasks, proposals
  <2>4. Reviewing' \subseteq Reviewing
    BY <1>0, <2>3 DEF Reviewing, InFlight
  <2> QED
    BY <1>1, <2>3, <2>4 DEF Filing
<1>4. CASE \E c \in Reviews : StartReview(c)
  <2>1. PICK c \in Reviews : StartReview(c)
    BY <1>4
  <2>2. dir' = dir /\ reviewed' = reviewed /\ Pending = {}
    BY <2>1 DEF StartReview, proposals
  <2> QED
    BY <1>1, <2>2 DEF Filed, Filing
<1>5. CASE \E c \in Callers : CallFails(c)
  BY <1>0, <1>1, <1>2, <1>5 DEF CallFails, proposals, Filing
<1>6. CASE \E c \in Callers : Answered(c)
  <2>1. Reviewing' \subseteq Reviewing
    BY <1>0, <1>6 DEF Answered, Reviewing, InFlight
  <2> QED
    BY <1>1, <1>6, <2>1 DEF Answered, proposals, Filing
<1>7. CASE \E c \in Refreshes : AskRefresh(c)
  <2>1. Reviewing' \subseteq Reviewing
    BY <1>0, <1>7 DEF AskRefresh, Reviewing, InFlight
  <2> QED
    BY <1>1, <1>7, <2>1 DEF AskRefresh, proposals, Filing
<1>8. CASE \E c \in Tasks : BeginSync(c)
  <2>1. Reviewing' \subseteq Reviewing
    BY <1>0, <1>8 DEF BeginSync, Reviewing, InFlight
  <2> QED
    BY <1>1, <1>8, <2>1 DEF BeginSync, proposals, Filing
<1>9. CASE \E c \in Tasks : EndSync(c)
  <2>1. PICK c \in Tasks : EndSync(c)
    BY <1>9
  <2>2. pc[c] = "syncing" /\ Reviewing' \subseteq Reviewing \ {c}
    BY <1>2, <2>1 DEF EndSync
  <2>3. CASE dir' = dir /\ reviewed' = reviewed
    BY <1>1, <2>2, <2>3 DEF Filing
  <2>4. CASE c \in Reviews /\ \E p \in Ids : Create(p) /\ reviewed' = reviewed \cup {p}
    <3>1. PICK p \in Ids : Create(p) /\ reviewed' = reviewed \cup {p}
      BY <2>4
    <3>2. c \in Reviewing
      BY <1>0, <2>2, <2>4 DEF Reviewing, InFlight
    <3>3. FiledStays /\ Filed' \subseteq Filed \cup {p}
      BY <1>0, <3>1 DEF Create, FiledStays, FiledInv, Filed, Pending, Dirs
    <3> QED
      BY <2>2, <3>2, <3>3 DEF Filing
  <2> QED
    BY <2>1, <2>3, <2>4
    DEF EndSync, Unusable, Useful, ConcludeNews, ConcludeReview, proposals
<1>10. CASE EditProposals
  <2>1. Reviewing' \subseteq Reviewing /\ reviewed' = reviewed
    BY <1>10 DEF EditProposals, tasks, Reviewing, InFlight
  <2>2. PICK p \in Ids : Create(p) \/ Apply(p) \/ Cancel(p)
    BY <1>10 DEF EditProposals
  <2>3. FiledStays /\ Filed' \subseteq Filed
    BY <1>0, <2>1, <2>2
    DEF Create, Apply, Cancel, FiledStays, FiledInv, Filed, Pending, Dirs
  <2> QED
    BY <2>1, <2>3 DEF Filing
<1>11. CASE ShowStatus \/ Resume \/ SetBudget \/ Tick \/ Boot \/ BootDies
  <2>1. dir' = dir /\ reviewed' = reviewed /\ pc' = pc
    BY <1>11 DEF ShowStatus, Resume, SetBudget, Tick, Boot, BootDies, Prepare, DieInPrepare,
                 tasks, proposals
  <2> QED
    BY <1>1, <2>1 DEF Filing, Reviewing, InFlight
<1>12. CASE Die
  <2>1. Reviewing' = {}
    BY <1>0, <1>12 DEF Die, Reviewing, InFlight
  <2>2. CASE UNCHANGED <<proposals, reviewed>>
    BY <1>1, <2>1, <2>2 DEF proposals, Filing
  <2>3. CASE \E p \in Ids : (DieInApply(p) \/ DieInCreate(p)) /\ UNCHANGED reviewed
    <3>1. FiledStays /\ Filed' \subseteq Filed
      BY <1>0, <2>3 DEF DieInApply, DieInCreate, FiledStays, FiledInv, Filed, Pending, Dirs
    <3> QED
      BY <2>1, <3>1 DEF Filing
  <2>4. CASE \E p \in Ids : /\ DieInCreate(p) /\ reviewed' = reviewed \cup {p}
                            /\ \E c \in Reviews : pc[c] = "syncing"
    <3>1. PICK p \in Ids : DieInCreate(p) /\ reviewed' = reviewed \cup {p}
      BY <2>4
    <3>2. PICK c \in Reviews : pc[c] = "syncing"
      BY <2>4
    <3>3. FiledStays /\ Filed' \subseteq Filed \cup {p}
      BY <1>0, <3>1 DEF DieInCreate, FiledStays, FiledInv, Filed, Pending, Dirs
    <3>4. c \in Reviewing
      BY <1>0, <3>2 DEF Reviewing, InFlight
    <3> QED
      BY <2>1, <3>3, <3>4 DEF Filing
  <2> QED
    BY <1>12, <2>2, <2>3, <2>4 DEF Die
<1> QED
  BY <1>3, <1>4, <1>5, <1>6, <1>7, <1>8, <1>9, <1>10, <1>11, <1>12 DEF Next

\* Filed proposals and running reviews can be counted.
LEMMA ReviewsAreFinite ==
  ASSUME TypeOK
  PROVE  /\ IsFiniteSet(Filed) /\ IsFiniteSet(Reviewing) /\ IsFiniteSet(Reviews)
         /\ Cardinality(Filed) \in Nat /\ Cardinality(Reviewing) \in Nat
         /\ Cardinality(Reviews) \in Nat
<1>1. Filed \subseteq Ids /\ Reviewing \subseteq Callers /\ Reviews \subseteq Callers
  BY DEF Filed, Pending, Reviewing, Callers
<1> QED
  BY <1>1, FS_Subset, FS_CardinalityType

\* Every step keeps the count of filed proposals and reviews.
LEMMA FiledKept == TypeOK /\ FiledInv /\ [Next]_vars => FiledInv'
<1> SUFFICES ASSUME TypeOK, FiledInv, [Next]_vars PROVE FiledInv'
  OBVIOUS
<1> DEFINE f  == Cardinality(Filed)
           r  == Cardinality(Reviewing)
           ff == Cardinality(Filed')
           rr == Cardinality(Reviewing')
           n  == Cardinality(Reviews)
<1>1. CASE UNCHANGED vars
  BY <1>1 DEF vars, tasks, proposals, FiledInv, PendingAreFew, Pending, InFlight
<1>2. CASE Next
  <2>1. FiledStays /\ Filing
    BY <1>2, StepsFile
  <2>2. f \in Nat /\ r \in Nat /\ n \in Nat /\ f + r <= n
    BY ReviewsAreFinite DEF FiledInv, PendingAreFew, Filed, Reviewing
  <2>3. Reviewing' \subseteq Reviews
    BY DEF Reviewing
  <2>4. rr \in Nat /\ rr <= n
    BY <2>3, ReviewsAreFinite, FS_Subset, FS_CardinalityType
  <2>5. ff + rr <= n
    <3>1. CASE Filed' \subseteq Filed /\ Reviewing' \subseteq Reviewing
      <4>1. ff \in Nat /\ ff <= f /\ rr <= r
        BY <3>1, ReviewsAreFinite, FS_Subset, FS_CardinalityType
      <4> HIDE DEF f, r, ff, rr, n
      <4> QED
        BY <2>2, <2>4, <4>1
    <3>2. CASE Filed' = {}
      <4>1. ff = 0
        BY <3>2, FS_EmptySet
      <4> HIDE DEF f, r, ff, rr, n
      <4> QED
        BY <2>2, <2>4, <4>1
    <3>3. ASSUME NEW p \in Ids, NEW c \in Reviewing,
                 Filed' \subseteq Filed \cup {p}, Reviewing' \subseteq Reviewing \ {c}
          PROVE  ff + rr <= n
      <4>1. /\ IsFiniteSet(Filed \cup {p}) /\ Cardinality(Filed \cup {p}) \in Nat
            /\ Cardinality(Filed \cup {p}) <= f + 1
        <5>1. /\ IsFiniteSet(Filed \cup {p})
              /\ \/ Cardinality(Filed \cup {p}) = f
                 \/ Cardinality(Filed \cup {p}) = f + 1
          BY ReviewsAreFinite, FS_AddElement
        <5> HIDE DEF f
        <5> QED
          BY <2>2, <5>1
      <4>2. IsFiniteSet(Reviewing \ {c}) /\ Cardinality(Reviewing \ {c}) = r - 1
        BY ReviewsAreFinite, FS_RemoveElement
      <4>3. ff \in Nat /\ ff <= f + 1
        <5>1. ff \in Nat /\ ff <= Cardinality(Filed \cup {p})
          BY <3>3, <4>1, FS_Subset, FS_CardinalityType
        <5> HIDE DEF f, ff
        <5> QED
          BY <2>2, <4>1, <5>1
      <4>4. rr <= r - 1
        BY <3>3, <4>2, FS_Subset
      <4> HIDE DEF f, r, ff, rr, n
      <4> QED
        BY <2>2, <2>4, <4>3, <4>4
    <3> QED
      BY <2>1, <3>1, <3>2, <3>3 DEF Filing
  <2>6. \A p \in reviewed' : dir'[p] # "none"
    BY <2>1 DEF FiledStays
  <2> QED
    BY <2>5, <2>6 DEF FiledInv, PendingAreFew, Filed, Reviewing
<1> QED
  BY <1>1, <1>2

\* Reviews never pile up more proposals that wait for the user than there are
\* reviews at once, whatever the user, the clock and crashes do in between.
THEOREM ReviewsPause == Spec => []PendingAreFew
<1>1. Init => FiledInv
  <2> SUFFICES ASSUME Init PROVE FiledInv
    OBVIOUS
  <2>1. reviewed = {} /\ Filed = {} /\ Reviewing = {}
    BY DEF Init, Filed, Reviewing, InFlight, Tasks, Callers
  <2>2. Cardinality(Filed) = 0 /\ Cardinality(Reviewing) = 0
    BY <2>1, FS_EmptySet
  <2>3. Cardinality(Reviews) \in Nat
    <3>1. Reviews \subseteq Callers
      BY DEF Callers
    <3> QED
      BY <3>1, FS_Subset, FS_CardinalityType
  <2> QED
    BY <2>1, <2>2, <2>3 DEF FiledInv, PendingAreFew, Filed, Reviewing
<1>2. FiledInv => PendingAreFew
  BY DEF FiledInv
<1> QED
  BY <1>1, <1>2, InitTyped, TypesKept, FiledKept, PTL DEF Spec

-----------------------------------------------------------------------------
(* The document of the algorithm. *)

\* The part of a step that writes the proposals; they are written by the user
\* and the reviews once the service has prepared the document.
Written ==
    \/ UNCHANGED proposals /\ (up' => up)
    \/ Prepare
    \/ DieInPrepare /\ ~up'
    \/ /\ up /\ \E p \in Ids : Create(p) \/ Apply(p) \/ Cancel(p) \/ DieInApply(p) \/ DieInCreate(p)

\* Nothing runs while the process is down.
DownInv == ~up => \A c \in Tasks : pc[c] = "idle"

\* Document and proposals change while the process serves, or in its preparation.
LEMMA StepsRun ==
  ASSUME TypeOK, DownInv, Next
  PROVE  DownInv' /\ Written
<1> USE DEF stores
<1>0. /\ pc \in [Tasks -> {"idle", "called", "queued", "syncing"}]
      /\ Callers \subseteq Tasks /\ Refreshes \subseteq Tasks
  BY DEF TypeOK, Tasks
<1>1. ASSUME up, up' = up, UNCHANGED proposals
      PROVE  DownInv' /\ Written
  BY <1>1, Zenon DEF DownInv, Written
<1>2. CASE \E c \in Callers : StartDecision(c) \/ StartNews(c) \/ StartReview(c)
  <2>1. up
    BY <1>2, Zenon DEF StartDecision, StartNews, StartReview
  <2>2. up' = up /\ UNCHANGED proposals
    BY <1>2, StartsAsk DEF Asked
  <2> QED
    BY <1>1, <2>1, <2>2
<1>3. CASE \E c \in Callers : CallFails(c) \/ Answered(c)
  <2>1. PICK c \in Callers : CallFails(c) \/ Answered(c)
    BY <1>3
  <2>2. pc[c] # "idle" /\ up' = up /\ UNCHANGED proposals
    BY <2>1 DEF CallFails, Answered
  <2> QED
    BY <1>0, <1>1, <2>2 DEF DownInv
<1>4. CASE \E c \in Refreshes : AskRefresh(c)
  <2>1. up /\ up' = up /\ UNCHANGED proposals
    BY <1>4, Zenon DEF AskRefresh
  <2> QED
    BY <1>1, <2>1
<1>5. CASE \E c \in Tasks : BeginSync(c)
  <2>1. PICK c \in Tasks : BeginSync(c)
    BY <1>5
  <2>2. pc[c] # "idle" /\ up' = up /\ UNCHANGED proposals
    BY <2>1 DEF BeginSync
  <2> QED
    BY <1>0, <1>1, <2>2 DEF DownInv
<1>6. CASE \E c \in Tasks : EndSync(c)
  <2>1. PICK c \in Tasks : EndSync(c)
    BY <1>6
  <2>2. pc[c] # "idle" /\ up' = up
    BY <2>1 DEF EndSync
  <2>3. up
    BY <2>2 DEF DownInv
  <2>4. DownInv'
    BY <2>2, <2>3, Zenon DEF DownInv
  <2>5. UNCHANGED proposals \/ \E p \in Ids : Create(p)
    BY <2>1 DEF EndSync, Unusable, Useful, ConcludeNews, ConcludeReview
  <2> QED
    BY <2>2, <2>3, <2>4, <2>5, Zenon DEF Written
<1>7. CASE ShowStatus \/ Resume \/ SetBudget
  <2>1. up /\ up' = up /\ UNCHANGED proposals
    BY <1>7, Zenon DEF ShowStatus, Resume, SetBudget
  <2> QED
    BY <1>1, <2>1
<1>8. CASE EditProposals
  BY <1>8, Zenon DEF EditProposals, DownInv, Written
<1>9. CASE Tick
  BY <1>9, Zenon DEF Tick, tasks, DownInv, Written
<1>10. CASE Boot
  BY <1>10, Zenon DEF Boot, DownInv, Written
<1>11. CASE BootDies
  BY <1>11, Zenon DEF BootDies, tasks, DownInv, Written
<1>12. CASE Die
  <2>1. up' = FALSE /\ up /\ \A c \in Tasks : pc'[c] = "idle"
    BY <1>12 DEF Die
  <2> QED
    BY <1>12, <2>1, Zenon DEF Die, DownInv, Written
<1> QED
  BY <1>2, <1>3, <1>4, <1>5, <1>6, <1>7, <1>8, <1>9, <1>10, <1>11, <1>12 DEF Next, Callers

Kept(r) ==
    \/ r \in ToSet(Section)
    \/ /\ r \in ToSet(OldRules)
       /\ backup = "copy" \/ (backup = "empty" /\ document.form = "empty")

DocumentInv ==
    /\ up => document.form \in {"new", "empty"}
    /\ document.form = "none" => approved = {} /\ document.old = <<>> /\ document.rules = <<>>
    /\ document.form = "old" => approved \subseteq ToSet(OldRules)
    /\ NothingApprovedIsLost
    /\ \A p \in Ids \ half : p \in ToSet(Section) => dir[p] = "applied"
    /\ InForceOnce

\* Applying a proposal adds its rule to the section and nothing else.
LEMMA RuleAdded ==
  ASSUME ProposalsTyped, NEW p \in Ids, document' = WithRule(p)
  PROVE  /\ Section' = Append(Section, p) /\ Section \in Seq(Rules)
         /\ ToSet(Section') = ToSet(Section) \cup {p}
         /\ document'.form = document.form
<1>1. document.old \in Seq(Rules) /\ document.rules \in Seq(Rules) /\ p \in Rules
  BY DEF ProposalsTyped, Documents, Rules
<1>2. document'.old = document.old /\ document'.rules = Append(document.rules, p)
      /\ document'.form = document.form
  BY DEF WithRule, ProposalsTyped, Documents
<1>3. ASSUME NEW s \in Seq(Rules), NEW t \in Seq(Rules)
      PROVE  s \o Append(t, p) = Append(s \o t, p)
  BY <1>1
<1>4. Section' = Append(Section, p)
  BY <1>1, <1>2, <1>3 DEF Section
<1>5. Section \in Seq(Rules)
  BY <1>1, DocumentsJoin DEF Section
<1> QED
  BY <1>1, <1>2, <1>4, <1>5, RulesAppend

\* A text that has a rule at most once still does after another rule is added.
LEMMA OnceMore ==
  ASSUME NEW s \in Seq(Rules), NEW p, NEW q \in Ids, q \in ToSet(s) => p # q,
         \A i, j \in DOMAIN s : s[i] = q /\ s[j] = q => i = j
  PROVE  \A i, j \in DOMAIN Append(s, p) :
            Append(s, p)[i] = q /\ Append(s, p)[j] = q => i = j
<1>1. \A i \in DOMAIN s : s[i] = q => q # p
  BY DEF ToSet
<1> QED
  BY <1>1

\* Every edit keeps what the document can look like, ...
LEMMA DocumentKept ==
  ASSUME ProposalsTyped, DocumentInv, Written
  PROVE  DocumentInv'
<1>0. /\ document.old \in Seq(Rules) /\ document.rules \in Seq(Rules)
      /\ dir \in [Ids -> Dirs] /\ Ids \cap ToSet(OldRules) = {} /\ half \subseteq Ids
      /\ document.form \in {"none", "old", "new", "empty"} /\ backup \in {"none", "copy", "empty"}
      /\ Section \in Seq(Rules)
  BY DocumentsJoin DEF ProposalsTyped, Documents, Section
<1>1. ASSUME document' = document, backup' = backup, approved' = approved, half' = half,
             up' => document.form \in {"new", "empty"},
             \A p \in Ids : dir[p] = "applied" => dir'[p] = "applied",
             \A p \in Ids : dir'[p] = "cancelled" => dir[p] # "applied"
      PROVE  DocumentInv'
  <2>1. Section' = Section
    BY <1>1 DEF Section
  <2>2. NothingApprovedIsLost'
    BY <1>1, <2>1 DEF DocumentInv, NothingApprovedIsLost
  <2>3. \A p \in Ids \ half' : p \in ToSet(Section') => dir'[p] = "applied"
    BY <1>1, <2>1 DEF DocumentInv
  <2>4. InForceOnce'
    BY <1>1, <2>1 DEF DocumentInv, InForceOnce
  <2> QED
    BY <1>1, <2>2, <2>3, <2>4 DEF DocumentInv
<1>2. CASE UNCHANGED proposals /\ (up' => up)
  BY <1>1, <1>2 DEF proposals, DocumentInv
<1>3. CASE Prepare
  <2>1. /\ document' = Prepared /\ backup' = Copied
        /\ dir' = dir /\ approved' = approved /\ half' = half
    BY <1>3 DEF Prepare
  <2>2. Section' = Section /\ document'.form \in {"new", "empty"}
        /\ (document'.form = "empty") = (document.form = "empty")
    <3>1. CASE document.form = "none"
      <4>1. document' = Baseline /\ document.old = <<>> /\ document.rules = <<>>
        BY <2>1, <3>1 DEF Prepared, DocumentInv
      <4> QED
        BY <3>1, <4>1 DEF Baseline, Document, Section
    <3>2. CASE document.form = "old"
      <4>1. document'.form = "new" /\ document'.old = Section /\ document'.rules = <<>>
        BY <2>1, <3>2 DEF Prepared, Document, Section
      <4>2. Section \o <<>> = Section
        BY <1>0
      <4> QED
        BY <3>2, <4>1, <4>2 DEF Section
    <3>3. CASE document.form \in {"new", "empty"}
      BY <1>0, <2>1, <3>3 DEF Prepared, Section
    <3> QED
      BY <1>0, <3>1, <3>2, <3>3
  <2>3. backup = "copy" \/ (backup = "empty" /\ document.form = "empty") => backup' = backup
    BY <2>1 DEF Copied
  <2>4. NothingApprovedIsLost'
    <3> SUFFICES ASSUME NEW r \in approved PROVE Kept(r)'
      BY <2>1 DEF NothingApprovedIsLost, Kept
    <3>1. Kept(r)
      BY DEF DocumentInv, NothingApprovedIsLost, Kept
    <3> QED
      BY <2>2, <2>3, <3>1 DEF Kept
  <2>5. \A p \in Ids \ half' : p \in ToSet(Section') => dir'[p] = "applied"
    BY <2>1, <2>2 DEF DocumentInv
  <2>6. InForceOnce'
    BY <2>1, <2>2 DEF DocumentInv, InForceOnce
  <2> QED
    BY <2>2, <2>4, <2>5, <2>6 DEF DocumentInv
<1>4. CASE DieInPrepare /\ ~up'
  <2>1. /\ dir' = dir /\ approved' = approved /\ half' = half
        /\ document.form \in {"none", "old"}
    BY <1>4 DEF DieInPrepare
  <2>2. CASE document.form = "old" /\ backup = "none" /\ backup' = "empty" /\ UNCHANGED document
    <3>1. Section' = Section
      BY <2>2 DEF Section
    <3>2. NothingApprovedIsLost'
      <4> SUFFICES ASSUME NEW r \in approved PROVE r \in ToSet(Section')
        BY <2>1 DEF NothingApprovedIsLost
      <4> QED
        BY <2>2, <3>1 DEF DocumentInv, NothingApprovedIsLost
    <3>3. InForceOnce'
      BY <2>1, <3>1 DEF DocumentInv, InForceOnce
    <3> QED
      BY <1>4, <2>1, <2>2, <3>1, <3>2, <3>3 DEF DocumentInv
  <2>3. CASE backup' = Copied /\ document' = Emptied
    <3>1. Section' = <<>> /\ ToSet(Section') = {} /\ document'.form = "empty"
      <4>1. document'.old = <<>> /\ document'.rules = <<>> /\ document'.form = "empty"
        BY <2>3 DEF Emptied, Document
      <4>2. Section' = <<>>
        BY <4>1 DEF Section
      <4> QED
        BY <4>1, <4>2 DEF ToSet
    <3>2. document.form = "old" => backup' = "copy" \/ backup' = "empty"
      BY <1>0, <2>3 DEF Copied
    <3>3. NothingApprovedIsLost'
      BY <2>1, <3>1, <3>2 DEF DocumentInv, NothingApprovedIsLost
    <3>4. InForceOnce'
      BY <3>1 DEF InForceOnce
    <3> QED
      BY <1>4, <2>1, <3>1, <3>3, <3>4 DEF DocumentInv
  <2> QED
    BY <1>4, <2>2, <2>3 DEF DieInPrepare
<1>5. ASSUME up, NEW p \in Ids, Create(p) \/ DieInCreate(p) \/ Cancel(p)
      PROVE  DocumentInv'
  <2>1. /\ document' = document /\ backup' = backup /\ approved' = approved /\ half' = half
        /\ dir[p] # "applied" /\ \E d \in Dirs : dir' = [dir EXCEPT ![p] = d]
    BY <1>5 DEF Create, DieInCreate, Cancel, Pending, Dirs
  <2>2. /\ \A q \in Ids : dir[q] = "applied" => dir'[q] = "applied"
        /\ \A q \in Ids : dir'[q] = "cancelled" => dir[q] # "applied"
    BY <1>0, <2>1
  <2>3. document.form \in {"new", "empty"}
    BY <1>5 DEF DocumentInv
  <2> QED
    BY <1>1, <2>1, <2>2, <2>3
<1>6. ASSUME up, NEW p \in Ids, Apply(p) \/ DieInApply(p)
      PROVE  DocumentInv'
  <2>1. /\ dir[p] = "pending" /\ document' = WithRule(p) /\ approved' = approved \cup {p}
        /\ backup' = backup
        /\ \/ dir' = [dir EXCEPT ![p] = "applied"] /\ half' = half
           \/ dir' = dir /\ half' = half \cup {p}
    BY <1>6 DEF Apply, DieInApply
  <2>2. /\ Section' = Append(Section, p) /\ ToSet(Section') = ToSet(Section) \cup {p}
        /\ document'.form = document.form
    BY <2>1, RuleAdded
  <2>3. document'.form \in {"new", "empty"}
    BY <1>6, <2>2 DEF DocumentInv
  <2>4. NothingApprovedIsLost'
    <3> SUFFICES ASSUME NEW r \in approved \cup {p} PROVE Kept(r)'
      BY <2>1 DEF NothingApprovedIsLost, Kept
    <3>1. CASE r = p
      BY <2>2, <3>1 DEF Kept
    <3>2. CASE r \in approved
      BY <2>1, <2>2, <3>2 DEF DocumentInv, NothingApprovedIsLost, Kept
    <3> QED
      BY <3>1, <3>2
  <2>5. ASSUME NEW q \in Ids \ half', q \in ToSet(Section')
        PROVE  dir'[q] = "applied"
    BY <1>0, <2>1, <2>2, <2>5 DEF DocumentInv
  <2>6. ASSUME NEW q \in Ids \ half'
        PROVE  q \in ToSet(Section) => p # q
    BY <2>1, <2>6 DEF DocumentInv
  <2>7. InForceOnce'
    <3> SUFFICES ASSUME NEW q \in Ids \ half'
                 PROVE  /\ dir'[q] = "cancelled" => q \notin ToSet(Section')
                        /\ \A i, j \in DOMAIN Section' :
                              Section'[i] = q /\ Section'[j] = q => i = j
      BY DEF InForceOnce
    <3>1. q \in Ids \ half
      BY <2>1
    <3>2. \A i, j \in DOMAIN Section : Section[i] = q /\ Section[j] = q => i = j
      BY <3>1 DEF DocumentInv, InForceOnce
    <3>3. \A i, j \in DOMAIN Section' : Section'[i] = q /\ Section'[j] = q => i = j
      BY <1>0, <2>2, <2>6, <3>2, OnceMore
    <3> QED
      BY <2>5, <3>3
  <2> QED
    BY <2>3, <2>4, <2>5, <2>7 DEF DocumentInv
<1> QED
  BY <1>2, <1>3, <1>4, <1>5, <1>6 DEF Written

\* ... as it does at first, ...
LEMMA DocumentInit == Init => DocumentInv
<1> SUFFICES ASSUME Init PROVE DocumentInv
  OBVIOUS
<1>1. ~up /\ backup = "none" /\ half = {} /\ OldRules \in Seq(ToSet(OldRules))
      /\ Ids \cap ToSet(OldRules) = {}
  BY DEF Init, InitProposals
<1>2. CASE document = Document("none", <<>>, <<>>) /\ approved = {}
  <2>1. document.form = "none" /\ Section = <<>> /\ ToSet(Section) = {}
        /\ document.old = <<>> /\ document.rules = <<>>
    BY <1>2 DEF Document, Section, ToSet
  <2> QED
    BY <1>1, <1>2, <2>1 DEF DocumentInv, NothingApprovedIsLost, InForceOnce
<1>3. CASE document = Document("old", OldRules, <<>>) /\ approved = ToSet(OldRules)
  <2>1. document.form = "old" /\ Section = OldRules
    BY <1>1, <1>3 DEF Document, Section
  <2>2. \A p \in Ids : p \notin ToSet(Section) /\ \A i \in DOMAIN Section : Section[i] # p
    BY <1>1, <2>1 DEF ToSet
  <2> QED
    BY <1>1, <1>3, <2>1, <2>2 DEF DocumentInv, NothingApprovedIsLost, InForceOnce
<1> QED
  BY <1>2, <1>3 DEF Init, InitProposals

\* ... and so does every step.
LEMMA DocumentInduction ==
  TypeOK /\ DownInv /\ DocumentInv /\ [Next]_vars => DownInv' /\ DocumentInv'
<1> SUFFICES ASSUME TypeOK, DownInv, DocumentInv, [Next]_vars PROVE DownInv' /\ DocumentInv'
  OBVIOUS
<1>1. CASE UNCHANGED vars
  <2>1. DownInv' /\ Written
    BY <1>1 DEF vars, tasks, DownInv, Written
  <2> QED
    BY <2>1, DocumentKept DEF TypeOK
<1>2. CASE Next
  BY <1>2, StepsRun, DocumentKept DEF TypeOK
<1> QED
  BY <1>1, <1>2

\* No rule the user has approved is lost by a migration, a review, an edit or one
\* crash in the middle of a write.
THEOREM ApprovedIsKept == Spec => []NothingApprovedIsLost
<1>1. Init => DownInv
  BY DEF Init, DownInv
<1>2. DocumentInv => NothingApprovedIsLost
  BY DEF DocumentInv
<1> QED
  BY <1>1, <1>2, InitTyped, TypesKept, DocumentInit, DocumentInduction, PTL DEF Spec

\* A proposal is in the document at most once and never after it was cancelled,
\* unless a crash had cut its application short.
THEOREM AppliedOnce == Spec => []InForceOnce
<1>1. Init => DownInv
  BY DEF Init, DownInv
<1>2. DocumentInv => InForceOnce
  BY DEF DocumentInv
<1> QED
  BY <1>1, <1>2, InitTyped, TypesKept, DocumentInit, DocumentInduction, PTL DEF Spec

\* The rule approved last is among those the prompt has room for.
THEOREM LatestIsAsked == Spec => []LatestRuleIsAsked
<1>1. ASSUME NEW s \in Seq(Rules), s # <<>>
      PROVE  s[Len(s)] \in ToSet(EndOf(s))
  <2> DEFINE n == Len(s)
             m == IF n <= ContextRules THEN 1 ELSE n - ContextRules + 1
  <2>1. n \in Nat /\ n >= 1 /\ ContextRules \in Nat /\ ContextRules >= 1
    BY <1>1
  <2>2. m \in 1..n
    BY <2>1
  <2>3. EndOf(s) = SubSeq(s, m, n)
    BY DEF EndOf
  <2> HIDE DEF m
  <2>4. n - m + 1 \in DOMAIN SubSeq(s, m, n) /\ SubSeq(s, m, n)[n - m + 1] = s[n]
    BY <2>1, <2>2
  <2> QED
    BY <2>3, <2>4 DEF ToSet
<1>2. ASSUME NEW s \in Seq(Rules), NEW t \in Seq(Rules), t # <<>>
      PROVE  s \o t # <<>> /\ (s \o t)[Len(s \o t)] = t[Len(t)]
  BY <1>2
<1>3. TypeOK => LatestRuleIsAsked
  <2> SUFFICES ASSUME TypeOK, document.form = "new", document.rules # <<>>
               PROVE  Last(document.rules) \in Context
    BY DEF LatestRuleIsAsked
  <2>1. document.old \in Seq(Rules) /\ document.rules \in Seq(Rules)
    BY DEF TypeOK, ProposalsTyped, Documents
  <2>2. Section \in Seq(Rules) /\ Section # <<>> /\ Section[Len(Section)] = Last(document.rules)
    BY <1>2, <2>1, DocumentsJoin DEF Section, Last
  <2> QED
    BY <1>1, <2>2 DEF Context
<1> QED
  BY <1>3, TypeInvariant, PTL
=============================================================================
