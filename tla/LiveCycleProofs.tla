--------------------------- MODULE LiveCycleProofs ---------------------------
(***************************************************************************)
(* For all instruments, markets and limits: a live cycle decides what is   *)
(* held, records what the brokers accepted and orders nothing unfit.       *)
(***************************************************************************)
EXTENDS LiveCycle, FiniteSetTheorems, FunctionTheorems, TLAPS

USE CycleOK DEF Instruments, Markets

Fetching == at \in {"account", "select", "snapshot"}

Types == TypeOK /\ IsFiniteSet(items) /\ \A m \in Markets : positions[m] \subseteq Of(m)

\* Nothing comes of decisions before the LLM has answered.
NothingDone == Fetching \/ at = "ask" => items = {} /\ orders = NoOrders

\* The markets come one after the other.
InTurn ==
    Fetching =>
        /\ market = "crypto" => open = {} /\ offered = {} /\ complete = {}
        /\ market = "stock" => open \subseteq Coins /\ complete \subseteq {"crypto"}

\* What a selection holds.
WellSelected ==
    at = "snapshot" =>
        /\ selected \subseteq Of(market)
        /\ Cardinality(positions[market]) <= Limit => positions[market] \subseteq selected
        /\ market = "crypto" => selected \cap Unfit \subseteq positions["crypto"]

HeldIsOffered ==
    \A m \in complete :
        Cardinality(positions[m]) <= Limit => positions[m] \cap open \subseteq offered

OfferedIsFit == \A s \in offered \cap Unfit : s \in Coins /\ s \in positions["crypto"]
OrderedWasOffered == \A s \in Instruments : orders[s] # "none" => s \in offered

\* Each offered instrument has its decision, to go or done; the items agree with
\* what the brokers accepted.
HalfDone ==
    at = "orders" =>
        /\ {d.symbol : d \in left} \cup {i.symbol : i \in items} = offered
        /\ \A d \in left, i \in items : d.symbol # i.symbol
        /\ \A d \in left, b \in left : d.symbol = b.symbol => d = b
        /\ \A d \in left : orders[d.symbol] = "none"
        /\ \A s \in Instruments :
              orders[s] = "accepted" <=> [symbol |-> s, status |-> "SUBMITTED"] \in items

CycleInv ==
    /\ Types /\ NothingDone /\ InTurn /\ WellSelected
    /\ HeldIsOffered /\ OfferedIsFit /\ OrderedWasOffered
    /\ HalfDone /\ HoldingsAreDecided /\ LogIsTrue

-----------------------------------------------------------------------------
(* Lemmas. *)

\* As many submitted items as accepted orders.
LEMMA SameCount ==
  ASSUME IsFiniteSet(items), items \subseteq Items,
         \A s \in Instruments :
            orders[s] = "accepted" <=> [symbol |-> s, status |-> "SUBMITTED"] \in items
  PROVE  LET accepted == {s \in Instruments : orders[s] = "accepted"}
             submitted == {i \in items : i.status = "SUBMITTED"}
         IN  /\ {i.symbol : i \in submitted} = accepted
             /\ WithStatus("SUBMITTED") = Cardinality(accepted)
<1> DEFINE accepted == {s \in Instruments : orders[s] = "accepted"}
           submitted == {i \in items : i.status = "SUBMITTED"}
           f == [i \in submitted |-> i.symbol]
<1>1. \A i \in submitted : i \in Items /\ i = [symbol |-> i.symbol, status |-> "SUBMITTED"]
  BY DEF Items
<1>2. \A i \in submitted : i.symbol \in accepted
  BY <1>1 DEF Items
<1>3. \A s \in accepted : \E i \in submitted : i.symbol = s
  <2>1. TAKE s \in accepted
  <2> DEFINE i == [symbol |-> s, status |-> "SUBMITTED"]
  <2>2. i \in items /\ i.status = "SUBMITTED" /\ i.symbol = s
    OBVIOUS
  <2> QED
    BY <2>2
<1>4. f \in [submitted -> accepted]
  BY <1>2
<1>5. \A i, j \in submitted : f[i] = f[j] => i = j
  BY <1>1
<1>6. \A s \in accepted : \E i \in submitted : f[i] = s
  BY <1>3
<1>7. f \in Bijection(submitted, accepted)
  <2> HIDE DEF f, submitted, accepted
  <2> QED
    BY <1>4, <1>5, <1>6, Fun_IsBij
<1>8. ExistsBijection(submitted, accepted)
  BY <1>7, Fun_ExistsBij, Zenon
<1>9. IsFiniteSet(submitted)
  BY FS_Subset
<1>10. Cardinality(accepted) = Cardinality(submitted)
  BY <1>8, <1>9, FS_Bijection
<1>11. {i.symbol : i \in submitted} = accepted
  BY <1>2, <1>3
<1> QED
  BY <1>10, <1>11 DEF WithStatus

\* What the telemetry counts are numbers.
LEMMA CountsAreNatural ==
  ASSUME IsFiniteSet(items)
  PROVE  Telemetry \in [decisions : Nat, orders : Nat, blocked : Nat]
<1>1. Cardinality(items) \in Nat
  BY FS_CardinalityType
<1>2. ASSUME NEW status PROVE WithStatus(status) \in Nat
  <2>1. {i \in items : i.status = status} \in SUBSET items
    OBVIOUS
  <2> QED
    BY <2>1, FS_Subset, FS_CardinalityType DEF WithStatus
<1> QED
  BY <1>1, <1>2 DEF Telemetry

\* What is required is chosen if the limit allows; the rest is ranked.
LEMMA RequiredIsChosen ==
  ASSUME NEW required, NEW ranked, IsFiniteSet(required),
         NEW chosen \in FillRequired(required, ranked)
  PROVE  /\ chosen \subseteq required \cup ranked
         /\ Cardinality(required) <= Limit => required \subseteq chosen
<1>1. PICK T \in Taking(Limit, required) :
         chosen \in {T \cup U : U \in Taking(Limit - Cardinality(T), ranked \ T)}
  BY DEF FillRequired
<1>2. PICK U \in Taking(Limit - Cardinality(T), ranked \ T) : chosen = T \cup U
  BY <1>1
<1>3. T \subseteq required /\ U \subseteq ranked
  BY DEF Taking
<1>4. Cardinality(T) = Smaller(Limit, Cardinality(required))
  BY DEF Taking
<1>5. Cardinality(required) \in Nat
  BY FS_CardinalityType
<1>6. ASSUME Cardinality(required) <= Limit PROVE T = required
  <2>1. Cardinality(T) = Cardinality(required)
    BY <1>4, <1>5, <1>6 DEF Smaller
  <2> QED
    BY <1>3, <2>1, FS_Subset
<1> QED
  BY <1>2, <1>3, <1>6

\* What is done of a decision agrees with what became of its order.
LEMMA DoneKeeps ==
  ASSUME CycleInv, at = "orders", at' = "orders", NEW d \in left,
         NEW status \in {"NO_ORDER", "BLOCK", "SUBMITTED"}, Done(d, status),
         NEW outcome \in {"none", "accepted", "unknown"},
         outcome = "accepted" <=> status = "SUBMITTED",
         orders' = [orders EXCEPT ![d.symbol] = outcome],
         UNCHANGED <<files, market, views>>
  PROVE  CycleInv'
<1> USE DEF CycleInv, Fetching, files, views
<1> DEFINE item == [symbol |-> d.symbol, status |-> status]
<1>1. /\ d.symbol \in Instruments /\ left \subseteq Decisions /\ items \subseteq Items
      /\ orders \in [Instruments -> {"none", "accepted", "unknown"}]
  BY DEF Types, TypeOK, Decisions
<1>2. left' = left \ {d} /\ items' = items \cup {item}
  BY DEF Done
<1>3. item \in Items /\ item.symbol = d.symbol /\ item.status = status
  BY <1>1 DEF Items
<1>4. IsFiniteSet(items')
  BY <1>2, FS_AddElement DEF Types
<1>5. Types'
  <2> HIDE DEF item
  <2> QED
    BY <1>1, <1>2, <1>3, <1>4 DEF Types, TypeOK, Places, Of
<1>6. d.symbol \in offered
  BY DEF HalfDone
<1>7. HalfDone'
  <2> USE DEF HalfDone
  <2>1. {b.symbol : b \in left'} \cup {i.symbol : i \in items'} = offered'
    <3> HIDE DEF item
    <3> QED
      BY <1>2, <1>3
  <2>2. \A b \in left', i \in items' : b.symbol # i.symbol
    <3> HIDE DEF item
    <3> QED
      BY <1>2, <1>3
  <2>3. \A b, c \in left' : b.symbol = c.symbol => b = c
    BY <1>2
  <2>4. ASSUME NEW b \in left' PROVE orders'[b.symbol] = "none"
    <3>1. b \in left /\ b.symbol # d.symbol /\ b.symbol \in Instruments
      BY <1>1, <1>2 DEF Decisions
    <3> QED
      BY <1>1, <3>1
  <2>5. ASSUME NEW s \in Instruments
        PROVE  orders'[s] = "accepted" <=> [symbol |-> s, status |-> "SUBMITTED"] \in items'
    <3> DEFINE mine == [symbol |-> s, status |-> "SUBMITTED"]
    <3>1. CASE s = d.symbol
      <4>1. mine \notin items
        <5>1. mine.symbol = d.symbol
          BY <3>1
        <5> QED
          BY <5>1
      <4>2. mine = item <=> status = "SUBMITTED"
        BY <3>1
      <4>3. orders'[s] = outcome
        BY <1>1, <3>1
      <4> QED
        BY <1>2, <4>1, <4>2, <4>3
    <3>2. CASE s # d.symbol
      <4>1. mine # item
        BY <3>2
      <4>2. orders'[s] = orders[s]
        BY <1>1, <3>2
      <4> QED
        BY <1>2, <4>1, <4>2
    <3> QED
      BY <3>1, <3>2
  <2> QED
    BY <2>1, <2>2, <2>3, <2>4, <2>5
<1>8. OrderedWasOffered'
  BY <1>1, <1>6 DEF OrderedWasOffered
<1>9. (NothingDone /\ InTurn /\ WellSelected /\ HeldIsOffered /\ OfferedIsFit)'
  BY DEF NothingDone, InTurn, WellSelected, HeldIsOffered, OfferedIsFit
<1>10. (HoldingsAreDecided /\ LogIsTrue)'
  BY DEF HoldingsAreDecided, LogIsTrue
<1> QED
  BY <1>5, <1>7, <1>8, <1>9, <1>10

-----------------------------------------------------------------------------
(* The initial states and the steps. *)

\* The invariant holds before the run begins, ...
LEMMA InitInv == Init => CycleInv
<1> SUFFICES ASSUME Init PROVE CycleInv
  OBVIOUS
<1> USE DEF Init
<1>1. NoPositions \in [Markets -> SUBSET Instruments] /\ \A m \in Markets : NoPositions[m] = {}
  BY DEF NoPositions
<1>2. Types
  BY <1>1, FS_EmptySet DEF Types, TypeOK, NoEntry, NoOrders, Places, Of
<1>3. NothingDone /\ InTurn /\ WellSelected /\ HeldIsOffered /\ OfferedIsFit /\ HalfDone
  BY DEF NothingDone, InTurn, WellSelected, HeldIsOffered, OfferedIsFit, HalfDone, Fetching
<1>4. OrderedWasOffered /\ HoldingsAreDecided /\ LogIsTrue
  BY DEF OrderedWasOffered, NoOrders, HoldingsAreDecided, LogIsTrue, NoEntry
<1> QED
  BY <1>2, <1>3, <1>4 DEF CycleInv

\* ... every step keeps it, ...
LEMMA StepInv == CycleInv /\ [Next]_vars => CycleInv'
<1> SUFFICES ASSUME CycleInv, [Next]_vars PROVE CycleInv'
  OBVIOUS
<1> USE DEF CycleInv, Fetching, files, views, results
<1>1. CASE Start
  <2> USE <1>1 DEF Start
  <2>1. NoPositions \in [Markets -> SUBSET Instruments] /\ \A m \in Markets : NoPositions[m] = {}
    BY DEF NoPositions
  <2>2. Types'
    BY <2>1, FS_EmptySet DEF Types, TypeOK, NoOrders, Places, Of
  <2>3. (NothingDone /\ InTurn /\ WellSelected /\ HeldIsOffered /\ OfferedIsFit /\ HalfDone)'
    BY DEF NothingDone, InTurn, WellSelected, HeldIsOffered, OfferedIsFit, HalfDone
  <2>4. (OrderedWasOffered /\ HoldingsAreDecided /\ LogIsTrue)'
    BY DEF OrderedWasOffered, NoOrders, HoldingsAreDecided, LogIsTrue
  <2> QED
    BY <2>2, <2>3, <2>4
<1>2. CASE PassMarket
  <2> USE DEF PassMarket, Proceed
  <2>1. Types'
    BY <1>2 DEF Types, TypeOK, Places, Of
  <2>2. (NothingDone /\ WellSelected /\ HalfDone)'
    BY <1>2 DEF NothingDone, WellSelected, HalfDone
  <2>3. InTurn'
    BY <1>2 DEF InTurn, Types, TypeOK
  <2>4. (HeldIsOffered /\ OfferedIsFit /\ OrderedWasOffered /\ HoldingsAreDecided /\ LogIsTrue)'
    BY <1>2 DEF HeldIsOffered, OfferedIsFit, OrderedWasOffered, HoldingsAreDecided, LogIsTrue
  <2> QED
    BY <2>1, <2>2, <2>3, <2>4
<1>3. CASE ReadAccount
  <2> USE <1>3 DEF ReadAccount
  <2>1. PICK held \in SUBSET Of(market) : positions' = [positions EXCEPT ![market] = held]
    OBVIOUS
  <2>2. /\ market \in Markets /\ positions \in [Markets -> SUBSET Instruments]
        /\ Of(market) \subseteq Instruments
    BY DEF Types, TypeOK, Of
  <2>3. Types'
    BY <2>1, <2>2 DEF Types, TypeOK, Places, Of
  <2>4. (NothingDone /\ InTurn /\ WellSelected /\ HalfDone)'
    BY DEF NothingDone, InTurn, WellSelected, HalfDone
  <2>5. market \notin complete /\ complete \subseteq Markets
    BY <2>2 DEF InTurn, Types, TypeOK
  <2>6. HeldIsOffered'
    BY <2>1, <2>2, <2>5 DEF HeldIsOffered
  <2>7. OfferedIsFit'
    BY <2>1, <2>2 DEF OfferedIsFit, InTurn
  <2>8. (OrderedWasOffered /\ HoldingsAreDecided /\ LogIsTrue)'
    BY DEF OrderedWasOffered, HoldingsAreDecided, LogIsTrue
  <2> QED
    BY <2>3, <2>4, <2>6, <2>7, <2>8
<1>4. CASE Select
  <2> USE DEF Select
  <2>0. PICK ranked \in Rankings(market) :
          \E chosen \in FillRequired(positions[market], ranked) :
             /\ selected' = chosen
             /\ universe' = [universe EXCEPT ![market] = [mode |-> "auto", symbols |-> chosen]]
             /\ IF chosen = {} THEN UNCHANGED offered /\ Proceed(offered)
                ELSE at' = "snapshot" /\ UNCHANGED <<market, offered>>
    BY <1>4
  <2>1. PICK chosen \in FillRequired(positions[market], ranked) :
          /\ selected' = chosen
          /\ universe' = [universe EXCEPT ![market] = [mode |-> "auto", symbols |-> chosen]]
          /\ IF chosen = {} THEN UNCHANGED offered /\ Proceed(offered)
             ELSE at' = "snapshot" /\ UNCHANGED <<market, offered>>
    BY <2>0
  <2>2. /\ market \in Markets /\ positions[market] \subseteq Of(market)
        /\ Of(market) \subseteq Instruments /\ IsFiniteSet(positions[market])
    <3>1. market \in Markets /\ positions[market] \subseteq Of(market)
      BY DEF Types, TypeOK
    <3>2. IsFiniteSet(Of(market)) /\ Of(market) \subseteq Instruments
      BY DEF Of
    <3> QED
      BY <3>1, <3>2, FS_Subset
  <2>3. ranked \subseteq Of(market) /\ (market = "crypto" => ranked \cap Unfit = {})
    BY <2>2 DEF Rankings, Of
  <2>4. /\ chosen \subseteq positions[market] \cup ranked
        /\ Cardinality(positions[market]) <= Limit => positions[market] \subseteq chosen
    BY <2>2, RequiredIsChosen
  <2>5. UNCHANGED <<log, metrics, positions, complete, open, offered, results>>
    BY <1>4, <2>1
  <2>6. Types'
    BY <1>4, <2>1, <2>2, <2>3, <2>4, <2>5 DEF Types, TypeOK, Places, Of, Proceed
  <2>7. WellSelected'
    BY <1>4, <2>1, <2>2, <2>3, <2>4, <2>5 DEF WellSelected, Proceed
  <2>8. (NothingDone /\ HalfDone)'
    BY <1>4, <2>1, <2>5 DEF NothingDone, HalfDone, Proceed
  <2>9. InTurn'
    BY <1>4, <2>1, <2>2, <2>5 DEF InTurn, Proceed
  <2>10. (HeldIsOffered /\ OfferedIsFit /\ OrderedWasOffered /\ HoldingsAreDecided)'
    BY <2>5 DEF HeldIsOffered, OfferedIsFit, OrderedWasOffered, HoldingsAreDecided
  <2>11. LogIsTrue'
    BY <2>1, <2>5 DEF LogIsTrue, Proceed
  <2> QED
    BY <2>6, <2>7, <2>8, <2>9, <2>10, <2>11
<1>5. CASE Snapshot
  <2> USE DEF Snapshot
  <2>1. PICK tradable \in Tradable(market) :
          /\ open' = open \cup tradable
          /\ offered' = offered \cup (selected \cap tradable)
          /\ complete' = IF selected \cap tradable = {} THEN complete
                         ELSE complete \cup {market}
    BY <1>5
  <2>2. /\ at = "snapshot" /\ market \in Markets /\ Proceed(offered')
        /\ UNCHANGED <<files, positions, selected, results>>
    BY <1>5 DEF Types, TypeOK
  <2>3. tradable \subseteq Of(market) /\ (market = "stock" => tradable \cap Unfit = {})
    BY <2>2 DEF Tradable, Of
  <2>4. \A m \in Markets : positions[m] \subseteq Of(m)
    BY DEF Types
  <2>5. Types'
    BY <2>1, <2>2, <2>3 DEF Types, TypeOK, Places, Of, Proceed
  <2>6. (NothingDone /\ WellSelected /\ HalfDone)'
    BY <2>2 DEF NothingDone, WellSelected, HalfDone, Proceed
  <2>7. InTurn'
    BY <2>1, <2>2, <2>3 DEF InTurn, Of, Proceed
  <2>8. HeldIsOffered'
    <3> SUFFICES ASSUME NEW m \in complete', Cardinality(positions[m]) <= Limit
                 PROVE  positions[m] \cap open' \subseteq offered'
      BY <2>2 DEF HeldIsOffered
    <3>1. CASE m = market
      <4>1. positions[m] \subseteq selected /\ positions[m] \cap open = {}
        BY <2>2, <2>4, <3>1 DEF WellSelected, InTurn, Of
      <4> QED
        BY <2>1, <4>1
    <3>2. CASE m # market
      <4>1. m \in complete /\ m \in Markets
        BY <2>1, <3>2 DEF Types, TypeOK
      <4>2. positions[m] \cap tradable = {}
        BY <2>2, <2>3, <2>4, <3>2, <4>1 DEF Of
      <4> QED
        BY <2>1, <4>1, <4>2 DEF HeldIsOffered
    <3> QED
      BY <3>1, <3>2
  <2>9. OfferedIsFit'
    BY <2>1, <2>2, <2>3 DEF OfferedIsFit, WellSelected, Of
  <2>10. (OrderedWasOffered /\ HoldingsAreDecided)'
    BY <2>1, <2>2 DEF OrderedWasOffered, HoldingsAreDecided
  <2>11. LogIsTrue'
    BY <2>2 DEF LogIsTrue, Proceed
  <2> QED
    BY <2>5, <2>6, <2>7, <2>8, <2>9, <2>10, <2>11
<1>6. CASE Ask
  <2>1. PICK reply \in Replies : Covers(reply) /\ left' = reply
    BY <1>6 DEF Ask
  <2>2. at = "ask" /\ at' = "orders" /\ UNCHANGED <<files, market, views, items, orders>>
    BY <1>6 DEF Ask
  <2>3. reply \subseteq Decisions
    BY DEF Replies, Decisions, Types, TypeOK
  <2>4. Types'
    BY <2>1, <2>2, <2>3 DEF Types, TypeOK, Places, Of
  <2>5. items = {} /\ orders = NoOrders /\ \A s \in Instruments : orders[s] = "none"
    BY <2>2 DEF NothingDone, NoOrders
  <2>6. HalfDone'
    BY <2>1, <2>2, <2>3, <2>5 DEF HalfDone, Covers, Decisions
  <2>7. (NothingDone /\ InTurn /\ WellSelected /\ HeldIsOffered /\ OfferedIsFit)'
    BY <2>2 DEF NothingDone, InTurn, WellSelected, HeldIsOffered, OfferedIsFit
  <2>8. (OrderedWasOffered /\ HoldingsAreDecided /\ LogIsTrue)'
    BY <2>2 DEF OrderedWasOffered, HoldingsAreDecided, LogIsTrue
  <2> QED
    BY <2>4, <2>6, <2>7, <2>8
<1>7. CASE Unavailable \/ Crash
  <2> USE DEF Unavailable, Crash
  <2>1. Types'
    BY <1>7 DEF Types, TypeOK, Places, Of
  <2>2. (NothingDone /\ InTurn /\ WellSelected /\ HeldIsOffered /\ OfferedIsFit /\ HalfDone)'
    BY <1>7 DEF NothingDone, InTurn, WellSelected, HeldIsOffered, OfferedIsFit, HalfDone
  <2>3. (OrderedWasOffered /\ HoldingsAreDecided /\ LogIsTrue)'
    BY <1>7 DEF OrderedWasOffered, HoldingsAreDecided, LogIsTrue
  <2> QED
    BY <2>1, <2>2, <2>3
<1>8. ASSUME NEW d \in left, Pass(d) PROVE CycleInv'
  <2>1. PICK status \in {"NO_ORDER", "BLOCK"} : Done(d, status)
    BY <1>8 DEF Pass
  <2>2. at = "orders" /\ at' = "orders" /\ UNCHANGED <<files, market, views, orders>>
    BY <1>8 DEF Pass
  <2>3. orders' = [orders EXCEPT ![d.symbol] = "none"]
    BY <2>2 DEF HalfDone, Types, TypeOK
  <2> QED
    BY <2>1, <2>2, <2>3, DoneKeeps
<1>9. ASSUME NEW d \in left, Order(d) PROVE CycleInv'
  <2>1. PICK outcome \in {"none", "accepted", "unknown"} :
          /\ orders' = [orders EXCEPT ![d.symbol] = outcome]
          /\ Done(d, Status(outcome))
    BY <1>9 DEF Order
  <2>2. at = "orders" /\ at' = "orders" /\ UNCHANGED <<files, market, views>>
    BY <1>9 DEF Order
  <2>3. /\ Status(outcome) \in {"BLOCK", "SUBMITTED"}
        /\ outcome = "accepted" <=> Status(outcome) = "SUBMITTED"
    BY DEF Status
  <2> QED
    BY <2>1, <2>2, <2>3, DoneKeeps
<1>10. ASSUME NEW d \in left, Abort(d) PROVE CycleInv'
  <2>1. PICK outcome \in {"none", "accepted", "unknown"} :
          orders' = [orders EXCEPT ![d.symbol] = outcome]
    BY <1>10 DEF Abort
  <2>2. /\ at = "orders" /\ at' = "failed"
        /\ UNCHANGED <<files, market, views, left, items>>
    BY <1>10 DEF Abort
  <2>3. Types'
    BY <2>1, <2>2 DEF Types, TypeOK, Places, Of
  <2>4. OrderedWasOffered'
    BY <2>1, <2>2 DEF OrderedWasOffered, HalfDone, Types, TypeOK
  <2>5. (NothingDone /\ InTurn /\ WellSelected /\ HeldIsOffered /\ OfferedIsFit /\ HalfDone)'
    BY <2>2 DEF NothingDone, InTurn, WellSelected, HeldIsOffered, OfferedIsFit, HalfDone
  <2>6. (HoldingsAreDecided /\ LogIsTrue)'
    BY <2>2 DEF HoldingsAreDecided, LogIsTrue
  <2> QED
    BY <2>3, <2>4, <2>5, <2>6
<1>11. CASE Record \/ RecordFails
  <2>1. /\ at = "orders" /\ left = {} /\ at' \in {"completed", "failed"}
        /\ log' \in {log, Entry} /\ metrics' \in {metrics, Telemetry}
        /\ at' = "completed" => log' = Entry /\ metrics' = Telemetry
        /\ UNCHANGED <<universe, market, views, results>>
    BY <1>11 DEF Record, RecordFails
  <2>2. Entry \in [items : SUBSET Items, positions : [Markets -> SUBSET Instruments],
                   complete : SUBSET Markets, open : SUBSET Instruments]
    BY DEF Entry, Types, TypeOK
  <2>3. Telemetry \in [decisions : Nat, orders : Nat, blocked : Nat]
    BY CountsAreNatural DEF Types
  <2>4. Types'
    BY <2>1, <2>2, <2>3 DEF Types, TypeOK, Places, Of
  <2>5. (NothingDone /\ InTurn /\ WellSelected /\ HalfDone)'
    BY <2>1 DEF NothingDone, InTurn, WellSelected, HalfDone
  <2>6. (HeldIsOffered /\ OfferedIsFit /\ OrderedWasOffered)'
    BY <2>1 DEF HeldIsOffered, OfferedIsFit, OrderedWasOffered
  <2>7. HoldingsAreDecided'
    <3>1. CASE log' = log
      BY <3>1 DEF HoldingsAreDecided
    <3>2. CASE log' = Entry
      <4>1. {i.symbol : i \in items} = offered
        BY <2>1 DEF HalfDone
      <4> QED
        BY <3>2, <4>1 DEF HoldingsAreDecided, Entry, HeldIsOffered
    <3> QED
      BY <2>1, <3>1, <3>2
  <2>8. LogIsTrue'
    <3> SUFFICES ASSUME at' = "completed"
                 PROVE  LET accepted == {s \in Instruments : orders[s] = "accepted"}
                        IN  /\ {i.symbol : i \in {j \in log'.items : j.status = "SUBMITTED"}}
                                  = accepted
                            /\ metrics'.orders = Cardinality(accepted)
      BY <2>1 DEF LogIsTrue
    <3>1. log'.items = items /\ metrics'.orders = WithStatus("SUBMITTED")
      BY <2>1 DEF Entry, Telemetry
    <3>2. IsFiniteSet(items) /\ items \subseteq Items
      BY DEF Types, TypeOK
    <3>3. \A s \in Instruments :
             orders[s] = "accepted" <=> [symbol |-> s, status |-> "SUBMITTED"] \in items
      BY <2>1 DEF HalfDone
    <3> QED
      BY <3>1, <3>2, <3>3, SameCount
  <2> QED
    BY <2>4, <2>5, <2>6, <2>7, <2>8
<1>12. CASE Choose
  <2>1. PICK m \in Markets : \E symbols \in SUBSET Of(m) :
           universe' = [universe EXCEPT ![m] = [mode |-> "manual", symbols |-> symbols]]
    BY <1>12 DEF Choose
  <2>2. UNCHANGED <<log, metrics, at, market, views, results>>
    BY <1>12 DEF Choose
  <2>3. Types'
    BY <2>1, <2>2 DEF Types, TypeOK, Of
  <2>4. (NothingDone /\ InTurn /\ WellSelected /\ HeldIsOffered /\ OfferedIsFit /\ HalfDone)'
    BY <2>2 DEF NothingDone, InTurn, WellSelected, HeldIsOffered, OfferedIsFit, HalfDone
  <2>5. (OrderedWasOffered /\ HoldingsAreDecided /\ LogIsTrue)'
    BY <2>2 DEF OrderedWasOffered, HoldingsAreDecided, LogIsTrue
  <2> QED
    BY <2>3, <2>4, <2>5
<1>13. CASE UNCHANGED vars
  <2> USE DEF vars
  <2>1. (Types /\ NothingDone /\ InTurn /\ WellSelected /\ HeldIsOffered)'
    BY <1>13 DEF Types, TypeOK, NothingDone, InTurn, WellSelected, HeldIsOffered
  <2>2. (OfferedIsFit /\ OrderedWasOffered /\ HalfDone /\ HoldingsAreDecided /\ LogIsTrue)'
    BY <1>13 DEF OfferedIsFit, OrderedWasOffered, HalfDone, HoldingsAreDecided, LogIsTrue
  <2> QED
    BY <2>1, <2>2
<1> QED
  BY <1>1, <1>2, <1>3, <1>4, <1>5, <1>6, <1>7, <1>8, <1>9, <1>10, <1>11, <1>12, <1>13
  DEF Next, Step

\* ... and so it holds at every point of a run.
LEMMA AlwaysCycleInv == Spec => []CycleInv
  BY InitInv, StepInv, PTL DEF Spec

-----------------------------------------------------------------------------
(* Theorems. *)

\* The state of a cycle has its type.
THEOREM TypeInvariant == Spec => []TypeOK
<1>1. CycleInv => TypeOK
  BY DEF CycleInv, Types
<1> QED
  BY <1>1, AlwaysCycleInv, PTL

\* Whatever the limit and the ranking: a recorded cycle has a decision on each
\* instrument that was held and traded, as long as the limit holds them all
\* (required_markets of the selectors, _fill_required, coverage of the reply).
THEOREM HoldingsAlwaysDecided == Spec => []HoldingsAreDecided
<1>1. CycleInv => HoldingsAreDecided
  BY DEF CycleInv
<1> QED
  BY <1>1, AlwaysCycleInv, PTL

\* Whatever orders fail: decision file and telemetry of a completed run show as
\* submitted just what the brokers accepted (LiveAutoCycleService.run,
\* append_live_execution_cycle).
THEOREM LogAlwaysTrue == Spec => []LogIsTrue
<1>1. CycleInv => LogIsTrue
  BY DEF CycleInv
<1> QED
  BY <1>1, AlwaysCycleInv, PTL

\* Whatever is selected: no order for a suspended stock, and one for a coin under
\* warning only if it was held (eligible of the selectors, market_open).
THEOREM OrdersAlwaysFit == Spec => []OrdersAreFit
<1>1. CycleInv => OrdersAreFit
  BY DEF CycleInv, OrdersAreFit, OrderedWasOffered, OfferedIsFit
<1> QED
  BY <1>1, AlwaysCycleInv, PTL
=============================================================================
