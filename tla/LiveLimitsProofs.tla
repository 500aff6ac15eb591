-------------------------- MODULE LiveLimitsProofs --------------------------
(***************************************************************************)
(* The limits on orders per day, on open positions, on the cash reserve    *)
(* and on the share of a position hold for all limits, symbols, orders,    *)
(* days and crashes.                                                       *)
(***************************************************************************)
EXTENDS LiveLimits, FiniteSetTheorems, WellFoundedInduction, TLAPS

USE PolicyOK, LimitsOK

Requests == [symbol : Symbols, side : {"BUY", "SELL"}, quantity : Nat]
Sending == pc \in {"preflight", "answer"}

\* The orders that were counted when the order i was judged.
CountedBefore(i) ==
    {j \in 1..(i - 1) : Counted(j) /\ journal[j].day = journal[i].day
     /\ BrokerOf(journal[j].symbol) = BrokerOf(journal[i].symbol)}

\* DailyOrdersAreLimited is not inductive: while an order is on its way to the
\* broker it is counted at one step and not at another.  What stays is that
\* there was room for it when it was judged.
Types ==
    /\ journal \in Seq(Records) /\ day \in Nat
    /\ pc # "idle" => request \in Requests
    /\ Sending => journal # <<>>

RoomForMine ==
    Sending /\ journal[Mine].side = "BUY" => Cardinality(CountedBefore(Mine)) < MaxDailyOrders

DailyInv == Types /\ RoomForMine /\ DailyOrdersAreLimited

-----------------------------------------------------------------------------
\* The counts are of finite sets.
LEMMA CountedAreFinite ==
  ASSUME NEW i \in Int
  PROVE  /\ IsFiniteSet(CountedUpTo(i)) /\ Cardinality(CountedUpTo(i)) \in Nat
         /\ IsFiniteSet(CountedBefore(i)) /\ Cardinality(CountedBefore(i)) \in Nat
<1>1. IsFiniteSet(1..i) /\ IsFiniteSet(1..(i - 1))
  BY FS_Interval
<1>2. CountedUpTo(i) \subseteq 1..i /\ CountedBefore(i) \subseteq 1..(i - 1)
  BY DEF CountedUpTo, CountedBefore
<1> QED
  BY <1>1, <1>2, FS_Subset, FS_CardinalityType

\* A part of a finite set counts no more than the set.
LEMMA SmallerCount ==
  ASSUME NEW A, NEW B, A \subseteq B, IsFiniteSet(B)
  PROVE  /\ Cardinality(A) \in Nat /\ Cardinality(B) \in Nat
         /\ Cardinality(A) <= Cardinality(B)
  BY FS_Subset, FS_CardinalityType

\* A BUY that passes Risk Guard finds the daily limit not reached.
LEMMA PassingBuyHasRoom ==
  ASSUME NEW open \in BOOLEAN, Passes(Intent(open), FALSE), request.side = "BUY",
         OrdersToday \in Nat
  PROVE  OrdersToday < MaxDailyOrders
<1> DEFINE q == Intent(open)
<1>1. q.action = "BUY" /\ q.buys = OrdersToday
  BY DEF Intent
<1>2. ~LockedOut(q)
  <2> HIDE DEF q
  <2>1. LockedOut(q) => Evaluate(q, FALSE).status = "BLOCK"
    BY <1>1 DEF Evaluate, Result
  <2>2. Evaluate(q, FALSE).status \in {"ALLOW", "REDUCE"}
    BY DEF Passes, q
  <2> QED
    BY <2>1, <2>2
<1>3. ~(q.buys >= MaxDailyOrders)
  <2> HIDE DEF q
  <2> QED
    BY <1>2 DEF LockedOut
<1> QED
  BY <1>1, <1>3

\* It finds a place for its symbol, or a holding to add to.
LEMMA PassingBuyHasPlace ==
  ASSUME Passes(Intent(TRUE), FALSE), request.side = "BUY"
  PROVE  ~(snap.quantity <= 0 /\ OpenPositions >= MaxOpenPositions)
<1> DEFINE q == Intent(TRUE)
<1>1. /\ q.action = "BUY" /\ q.positionQuantity = snap.quantity
      /\ q.openPositions = OpenPositions
  BY DEF Intent
<1>2. Passes(q, FALSE)
  OBVIOUS
<1> HIDE DEF q
<1>3. LockedOut(q) => Evaluate(q, FALSE).status = "BLOCK"
  BY <1>1 DEF Evaluate, Result
<1>4. ~LockedOut(q)
  BY <1>2, <1>3 DEF Passes
<1> QED
  BY <1>1, <1>4 DEF LockedOut

\* What SetStatus leaves alone.
LEMMA StatusChange ==
  ASSUME journal \in Seq(Records), NEW k \in Ids, NEW st \in Statuses, SetStatus(k, st)
  PROVE  /\ journal' \in Seq(Records) /\ Len(journal') = Len(journal) /\ Ids' = Ids
         /\ journal'[k].status = st
         /\ \A j \in Ids :
              /\ journal'[j].day = journal[j].day /\ journal'[j].side = journal[j].side
              /\ journal'[j].symbol = journal[j].symbol
              /\ journal'[j].quantity = journal[j].quantity
              /\ j # k => journal'[j] = journal[j] /\ Counted(j)' = Counted(j)
<1>1. journal' = [journal EXCEPT ![k].status = st]
  BY DEF SetStatus
<1>2. k \in 1..Len(journal) /\ journal[k] \in Records
  BY DEF Ids
<1>3. [journal[k] EXCEPT !.status = st] \in Records
  BY <1>2 DEF Records
<1>4. /\ journal' \in Seq(Records) /\ Len(journal') = Len(journal) /\ Ids' = Ids
      /\ journal'[k] = [journal[k] EXCEPT !.status = st]
      /\ \A j \in Ids : j # k => journal'[j] = journal[j]
  BY <1>1, <1>2, <1>3 DEF Ids
<1>5. /\ journal'[k].status = st /\ journal'[k].day = journal[k].day
      /\ journal'[k].side = journal[k].side /\ journal'[k].symbol = journal[k].symbol
      /\ journal'[k].quantity = journal[k].quantity
  BY <1>2, <1>4 DEF Records
<1> QED
  BY <1>4, <1>5 DEF Counted, IsUnresolved

\* A status that counts replaces one that counts, or does not count: nothing is
\* added to any count.
LEMMA NothingAdded ==
  ASSUME Types, NEW k \in Ids, NEW st \in Statuses, SetStatus(k, st),
         Counted(k)' => Counted(k)
  PROVE  \A i \in Ids : /\ CountedUpTo(i)' \subseteq CountedUpTo(i)
                        /\ CountedBefore(i)' \subseteq CountedBefore(i)
                        /\ Counted(i)' => Counted(i)
<1>1. \A i \in Ids : Counted(i)' => Counted(i)
  BY StatusChange DEF Types
<1> SUFFICES ASSUME NEW i \in Ids
             PROVE  /\ CountedUpTo(i)' \subseteq CountedUpTo(i)
                    /\ CountedBefore(i)' \subseteq CountedBefore(i)
  BY <1>1
<1>2. \A j \in 1..i : j \in Ids
  BY DEF Ids, Types
<1>3. \A j \in 1..(i - 1) : j \in 1..i
  BY DEF Ids, Types
<1> QED
  BY <1>1, <1>2, <1>3, StatusChange DEF CountedUpTo, CountedBefore, Types

\* Whatever becomes of the last order keeps the limit, if there was room for it.
LEMMA LastOrderFits ==
  ASSUME Types, DailyOrdersAreLimited, journal # <<>>,
         NEW st \in Statuses, SetStatus(Mine, st),
         journal[Mine].side = "BUY" => Cardinality(CountedBefore(Mine)) < MaxDailyOrders
  PROVE  /\ Mine' = Mine /\ Mine \in Ids
         /\ CountedBefore(Mine)' = CountedBefore(Mine)
         /\ DailyOrdersAreLimited'
<1>1. Mine \in Ids /\ Mine \in Nat
  BY DEF Mine, Ids, Types
<1>2. Mine' = Mine
  BY <1>1, StatusChange DEF Mine, Types
<1>3. \A j \in 1..(Mine - 1) : j \in Ids /\ j # Mine
  BY <1>1 DEF Mine, Ids, Types
<1>4. CountedBefore(Mine)' = CountedBefore(Mine)
  BY <1>1, <1>2, <1>3, StatusChange DEF CountedBefore, Types
<1>5. ASSUME NEW i \in Ids', journal'[i].side = "BUY", Counted(i)'
      PROVE  Cardinality(CountedUpTo(i)') <= MaxDailyOrders
  <2>1. i \in Ids /\ journal[i].side = "BUY"
    BY <1>1, <1>5, StatusChange DEF Types
  <2>2. CASE i = Mine
    <3>1. CountedUpTo(i)' \subseteq CountedBefore(Mine) \cup {Mine}
      <4>1. \A j \in 1..Mine : j \in 1..(Mine - 1) \/ j = Mine
        BY <1>1
      <4> QED
        BY <4>1, <1>1, <1>3, <2>2, StatusChange DEF CountedUpTo, CountedBefore, Types
    <3>2. Mine \notin CountedBefore(Mine)
      BY <1>1 DEF CountedBefore
    <3>3. IsFiniteSet(CountedBefore(Mine)) /\ Cardinality(CountedBefore(Mine)) \in Nat
      BY <1>1, CountedAreFinite
    <3>4. /\ IsFiniteSet(CountedBefore(Mine) \cup {Mine})
          /\ Cardinality(CountedBefore(Mine) \cup {Mine})
               = Cardinality(CountedBefore(Mine)) + 1
      BY <3>2, <3>3, FS_AddElement
    <3>5. Cardinality(CountedUpTo(i)') <= Cardinality(CountedBefore(Mine)) + 1
      BY <3>1, <3>4, FS_Subset
    <3>6. Cardinality(CountedUpTo(i)') \in Nat
      BY <3>1, <3>4, FS_Subset, FS_CardinalityType
    <3> QED
      BY <2>1, <2>2, <3>3, <3>5, <3>6
  <2>3. CASE i # Mine
    <3>1. \A j \in 1..i : j \in Ids /\ j # Mine
      BY <2>1, <2>3 DEF Mine, Ids, Types
    <3>2. CountedUpTo(i)' = CountedUpTo(i)
      BY <1>1, <2>1, <3>1, StatusChange DEF CountedUpTo, Types
    <3>3. Counted(i)
      BY <1>1, <1>5, <2>1, <2>3, StatusChange DEF Types
    <3> QED
      BY <2>1, <3>2, <3>3 DEF DailyOrdersAreLimited
  <2> QED
    BY <2>2, <2>3
<1> QED
  BY <1>1, <1>2, <1>4, <1>5 DEF DailyOrdersAreLimited

\* A new record is not counted yet.
LEMMA NewOrder ==
  ASSUME Types, DailyOrdersAreLimited, request \in Requests,
         NEW st \in {"CREATED", "REJECTED"}, NEW n \in Nat, Create(st, n)
  PROVE  /\ journal' \in Seq(Records) /\ journal' # <<>>
         /\ Mine' = Len(journal) + 1
         /\ journal'[Mine'].side = request.side
         /\ DailyOrdersAreLimited'
         /\ CountedBefore(Mine)' =
              {i \in Ids : Counted(i) /\ journal[i].day = day
                 /\ BrokerOf(journal[i].symbol) = BrokerOf(request.symbol)}
<1> DEFINE r == [status |-> st, symbol |-> request.symbol, side |-> request.side,
                 quantity |-> n, day |-> day]
<1>1. r \in Records
  BY DEF Types, Requests, Records, Statuses
<1>2. journal' = Append(journal, r)
  BY DEF Create
<1> HIDE DEF r
<1>3. /\ journal' \in Seq(Records) /\ Len(journal') = Len(journal) + 1
      /\ \A j \in 1..Len(journal) : journal'[j] = journal[j]
      /\ journal'[Len(journal) + 1] = r
  BY <1>1, <1>2 DEF Types
<1>4. Mine' = Len(journal) + 1 /\ journal' # <<>>
  BY <1>3 DEF Mine
<1>5. \A j \in 1..Len(journal) : Counted(j)' = Counted(j)
  BY <1>3 DEF Counted, IsUnresolved
<1>6. \A j : j = Len(journal) + 1 => ~Counted(j)'
  BY <1>3 DEF Counted, IsUnresolved, r
<1>7. DailyOrdersAreLimited'
  <2> SUFFICES ASSUME NEW i \in Ids', journal'[i].side = "BUY", Counted(i)'
               PROVE  Cardinality(CountedUpTo(i)') <= MaxDailyOrders
    BY DEF DailyOrdersAreLimited
  <2>1. i \in 1..Len(journal)
    BY <1>3, <1>6 DEF Ids, Types
  <2>2. \A j \in 1..i : j \in 1..Len(journal)
    BY <2>1 DEF Types
  <2>3. CountedUpTo(i)' = CountedUpTo(i)
    BY <1>3, <1>5, <2>1, <2>2 DEF CountedUpTo
  <2> QED
    BY <1>3, <1>5, <2>1, <2>3 DEF DailyOrdersAreLimited, Ids, Types
<1>8. (Len(journal) + 1) - 1 = Len(journal)
  BY DEF Types
<1>9. Ids = 1..Len(journal)
  BY DEF Ids, Types
<1>10. /\ journal'[Mine'].side = request.side /\ journal'[Mine'].day = day
       /\ journal'[Mine'].symbol = request.symbol
  BY <1>3, <1>4 DEF r
<1>11. CountedBefore(Mine)' = {j \in 1..(Mine' - 1) :
          Counted(j)' /\ journal'[j].day = journal'[Mine'].day
          /\ BrokerOf(journal'[j].symbol) = BrokerOf(journal'[Mine'].symbol)}
  BY DEF CountedBefore
<1> QED
  BY <1>3, <1>4, <1>5, <1>7, <1>8, <1>9, <1>10, <1>11

-----------------------------------------------------------------------------
\* The steps that leave the journal alone.
LEMMA JournalUnchanged ==
  ASSUME DailyInv, UNCHANGED journal, day' \in Nat,
         pc' # "idle" => request' \in Requests,
         Sending' => Sending
  PROVE  DailyInv'
<1>1. Types'
  BY DEF DailyInv, Types
<1>2. RoomForMine'
  BY DEF DailyInv, RoomForMine, CountedBefore, Counted, IsUnresolved, Mine
<1>3. DailyOrdersAreLimited'
  BY DEF DailyInv, DailyOrdersAreLimited, CountedUpTo, Counted, IsUnresolved, Ids
<1> QED
  BY <1>1, <1>2, <1>3 DEF DailyInv

\* The steps that set the status of the order on its way.
LEMMA MineChanges ==
  ASSUME DailyInv, Sending, NEW st \in Statuses, SetStatus(Mine, st),
         day' = day, pc' # "idle" => request' = request
  PROVE  DailyInv'
<1>1. /\ Mine' = Mine /\ Mine \in Ids
      /\ CountedBefore(Mine)' = CountedBefore(Mine)
      /\ DailyOrdersAreLimited'
  BY LastOrderFits DEF DailyInv, Types, RoomForMine
<1>2. journal' \in Seq(Records) /\ Len(journal') = Len(journal)
      /\ journal'[Mine].side = journal[Mine].side
  BY <1>1, StatusChange DEF DailyInv, Types
<1>3. Types'
  BY <1>2 DEF DailyInv, Types, Sending
<1>4. RoomForMine'
  BY <1>1, <1>2 DEF DailyInv, RoomForMine
<1> QED
  BY <1>1, <1>3, <1>4 DEF DailyInv

\* A reconciliation adds no order to a count.
LEMMA ReconcileStep ==
  ASSUME DailyInv, NEW i \in Ids, Reconcile(i)
  PROVE  DailyInv'
<1>1. SetStatus(i, Reconciled(i)) /\ Counted(i) /\ UNCHANGED <<day, pc, request>>
  BY DEF Reconcile, Counted, Task
<1>2. Reconciled(i) \in Statuses
  BY DEF Reconciled, Statuses, Reconcile, IsUnresolved
<1>3. /\ journal' \in Seq(Records) /\ Len(journal') = Len(journal) /\ Ids' = Ids
      /\ \A j \in Ids : journal'[j].side = journal[j].side
  BY <1>1, <1>2, StatusChange DEF DailyInv, Types
<1>4. \A j \in Ids : Counted(j)' => Counted(j)
  BY <1>1, <1>2, NothingAdded DEF DailyInv
<1>5. Types'
  BY <1>1, <1>3 DEF DailyInv, Types, Sending
<1>6. RoomForMine'
  <2> SUFFICES ASSUME Sending', journal'[Mine'].side = "BUY"
               PROVE  Cardinality(CountedBefore(Mine)') < MaxDailyOrders
    BY DEF RoomForMine
  <2>1. Sending /\ Mine' = Mine /\ Mine \in Ids /\ Mine \in Int
    BY <1>1, <1>3 DEF DailyInv, Types, Sending, Mine, Ids
  <2>2. Cardinality(CountedBefore(Mine)) < MaxDailyOrders
    BY <1>3, <2>1 DEF DailyInv, RoomForMine
  <2>3. CountedBefore(Mine)' \subseteq CountedBefore(Mine)
    <3> SUFFICES ASSUME NEW k \in Ids, k = Mine, Mine' = k
                 PROVE  CountedBefore(k)' \subseteq CountedBefore(k)
      BY <2>1 DEF CountedBefore
    <3> QED
      BY <1>1, <1>2, NothingAdded DEF DailyInv
  <2>4. IsFiniteSet(CountedBefore(Mine))
    BY <2>1, CountedAreFinite
  <2>5. /\ Cardinality(CountedBefore(Mine)') <= Cardinality(CountedBefore(Mine))
        /\ Cardinality(CountedBefore(Mine)') \in Nat
        /\ Cardinality(CountedBefore(Mine)) \in Nat
    BY <2>3, <2>4, SmallerCount
  <2> QED
    BY <2>2, <2>5
<1>7. DailyOrdersAreLimited'
  <2> SUFFICES ASSUME NEW j \in Ids', journal'[j].side = "BUY", Counted(j)'
               PROVE  Cardinality(CountedUpTo(j)') <= MaxDailyOrders
    BY DEF DailyOrdersAreLimited
  <2>0. j \in Ids /\ journal[j].side = "BUY" /\ Counted(j)
    BY <1>3, <1>4
  <2>1. Cardinality(CountedUpTo(j)) <= MaxDailyOrders
    BY <2>0 DEF DailyInv, DailyOrdersAreLimited
  <2>2. j \in Int
    BY <2>0 DEF DailyInv, Types, Ids
  <2>3. /\ Cardinality(CountedUpTo(j)') <= Cardinality(CountedUpTo(j))
        /\ Cardinality(CountedUpTo(j)') \in Nat
        /\ Cardinality(CountedUpTo(j)) \in Nat
    <3>1. CountedUpTo(j)' \subseteq CountedUpTo(j)
      BY <1>1, <1>2, <2>0, NothingAdded DEF DailyInv
    <3>2. IsFiniteSet(CountedUpTo(j))
      BY <2>2, CountedAreFinite
    <3> QED
      BY <3>1, <3>2, SmallerCount
  <2> QED
    BY <2>1, <2>3
<1> QED
  BY <1>5, <1>6, <1>7 DEF DailyInv

\* Risk Guard finds room for the order it allows.
LEMMA RiskAllowsStep ==
  ASSUME DailyInv, RiskAllows
  PROVE  DailyInv'
<1>1. PICK n \in 1..request.quantity : Create("CREATED", n)
  BY DEF RiskAllows
<1>2. /\ pc' = "preflight" /\ UNCHANGED <<day, request>> /\ request \in Requests
      /\ Passes(Intent(TRUE), FALSE)
  BY DEF RiskAllows, Collected, DailyInv, Types
<1>3. n \in Nat
  BY <1>2 DEF Requests
<1>4. /\ journal' \in Seq(Records) /\ journal' # <<>>
      /\ journal'[Mine'].side = request.side
      /\ DailyOrdersAreLimited'
      /\ CountedBefore(Mine)' =
           {i \in Ids : Counted(i) /\ journal[i].day = day
              /\ BrokerOf(journal[i].symbol) = BrokerOf(request.symbol)}
  BY <1>1, <1>2, <1>3, NewOrder DEF DailyInv
<1>5. OrdersToday = Cardinality(CountedBefore(Mine)')
  BY <1>4 DEF OrdersToday
<1>6. OrdersToday \in Nat
  <2>1. IsFiniteSet(Ids)
    BY FS_Interval DEF Ids, DailyInv, Types
  <2> QED
    BY <2>1, FS_Subset, FS_CardinalityType DEF OrdersToday
<1>7. RoomForMine'
  BY <1>2, <1>4, <1>5, <1>6, PassingBuyHasRoom DEF RoomForMine
<1>8. Types'
  BY <1>2, <1>4 DEF DailyInv, Types
<1> QED
  BY <1>4, <1>7, <1>8 DEF DailyInv

\* A blocked order is recorded and does not count.
LEMMA RiskBlocksStep ==
  ASSUME DailyInv, RiskBlocks
  PROVE  DailyInv'
<1>1. request \in Requests /\ UNCHANGED day /\ pc' = "idle"
      /\ Create("REJECTED", request.quantity)
  BY DEF RiskBlocks, Collected, Leave, DailyInv, Types
<1>2. request.quantity \in Nat
  BY <1>1 DEF Requests
<1>3. journal' \in Seq(Records) /\ DailyOrdersAreLimited'
  BY <1>1, <1>2, NewOrder DEF DailyInv
<1> QED
  BY <1>1, <1>3 DEF DailyInv, Types, RoomForMine, Sending

\* A crash leaves the record as it is, or as one of the writes that were under
\* way made it.
LEMMA CrashStep ==
  ASSUME DailyInv, Crash
  PROVE  DailyInv'
<1>1. pc' = "idle" /\ UNCHANGED day
  BY DEF Crash, Leave
<1>2. CASE UNCHANGED journal
  BY <1>1, <1>2, JournalUnchanged DEF Sending, DailyInv, Types
<1>3. CASE journal' # journal
  <2>1. Sending /\ \E st \in {"PREFLIGHTED", "SUBMITTING"} : SetStatus(Mine, st)
    BY <1>3 DEF Crash, Sending, SetStatus
  <2> QED
    BY <1>1, <2>1, MineChanges DEF Statuses
<1> QED
  BY <1>2, <1>3

-----------------------------------------------------------------------------
\* DailyInv is inductive.
LEMMA InvStep ==
  ASSUME DailyInv, [Next]_vars
  PROVE  DailyInv'
<1> USE DEF Sending
<1>1. CASE Ask
  <2>1. request' \in Requests
    BY <1>1 DEF Ask, Requests
  <2> QED
    BY <1>1, <2>1, JournalUnchanged DEF Ask, DailyInv, Types
<1>2. CASE ReadBalances \/ ReadHoldings \/ ReadPower \/ ReadQuotes
           \/ CountUpbit \/ CountHoldings
  BY <1>2, JournalUnchanged DEF ReadBalances, ReadHoldings, ReadPower, ReadQuotes,
     CountUpbit, CountHoldings, Working, DailyInv, Types
<1>3. CASE SnapshotFails \/ SymbolIsBusy
  BY <1>3, JournalUnchanged DEF SnapshotFails, SymbolIsBusy, Collected, Leave, DailyInv, Types
<1>4. CASE \E b \in Brokers : ReadPortfolio(b)
  BY <1>4, JournalUnchanged DEF ReadPortfolio, Working, DailyInv, Types
<1>5. CASE RiskBlocks
  BY <1>5, RiskBlocksStep
<1>6. CASE RiskAllows
  BY <1>6, RiskAllowsStep
<1>7. CASE PreflightRefused
  BY <1>7, MineChanges DEF PreflightRefused, Leave, Statuses
<1>8. CASE PreflightPasses
  BY <1>8, MineChanges DEF PreflightPasses, Statuses
<1>9. CASE Accepted \/ Refused \/ Ambiguous
  BY <1>9, MineChanges DEF Accepted, Refused, Ambiguous, Answered, Leave, Statuses
<1>10. CASE Crash
  BY <1>10, CrashStep
<1>11. CASE \E i \in Ids : BrokerAccepts(i) \/ BrokerRefuses(i)
              \/ \E n \in 0..journal[i].quantity : BrokerCloses(i, n)
  BY <1>11, JournalUnchanged DEF BrokerAccepts, BrokerRefuses, BrokerCloses, Task,
     DailyInv, Types
<1>12. CASE \E i \in Ids : Reconcile(i)
  BY <1>12, ReconcileStep
<1>13. CASE NextDay
  BY <1>13, JournalUnchanged DEF NextDay, Task, DailyInv, Types
<1>14. CASE UNCHANGED vars
  BY <1>14, JournalUnchanged DEF vars, DailyInv, Types
<1> QED
  BY <1>1, <1>2, <1>3, <1>4, <1>5, <1>6, <1>7, <1>8, <1>9, <1>10, <1>11, <1>12,
     <1>13, <1>14 DEF Next

\* The daily limit of orders to each broker: crashes, unknown outcomes, answers
\* that overtake a reconciliation and a midnight lose no order from the count.
THEOREM DailyLimit == Spec => []DailyOrdersAreLimited
<1>1. Init => DailyInv
  <2> SUFFICES ASSUME Init PROVE DailyInv
    OBVIOUS
  <2>1. Types
    BY DEF Init, Types, Sending
  <2>2. RoomForMine
    BY DEF Init, RoomForMine, Sending
  <2>3. DailyOrdersAreLimited
    BY DEF Init, DailyOrdersAreLimited, Ids
  <2> QED
    BY <2>1, <2>2, <2>3 DEF DailyInv
<1>2. DailyInv /\ [Next]_vars => DailyInv'
  BY InvStep
<1>3. DailyInv => DailyOrdersAreLimited
  BY DEF DailyInv
<1> QED
  BY <1>1, <1>2, <1>3, PTL DEF Spec

-----------------------------------------------------------------------------
(* The limit on symbols that are held or on their way. *)

Fields == {"cash", "equity", "quantity", "value", "seen"}
OrderStates == {"none", "coming", "open", "closed", "refused"}

Positions == {s \in Symbols : held[s] > 0} \cup {journal[i].symbol : i \in LiveBuys}

\* A BUY was judged on an unsound snapshot, or the accounts were over the limit
\* before the first order.
Excused == unsound \/ Cardinality(Owned) > MaxOpenPositions

\* There is room for what is held, what is on its way, and more.
Room(more) == Excused \/ Cardinality(Positions \cup more) <= MaxOpenPositions

OpenTypes ==
    /\ Types
    /\ order \in Seq(OrderStates) /\ Len(order) = Len(journal)
    /\ held \in [Symbols -> Int]
    /\ DOMAIN snap = Fields /\ snap.seen \subseteq Symbols /\ snap.quantity \in Int

\* The broker works on no order that the journal is done with.
LiveIsPending ==
    /\ \A i \in Ids : order[i] \in {"coming", "open"} => IsUnresolved(i)
    /\ pc = "preflight" => order[Mine] = "none"

\* A BUY that filled since the snapshot began is still pending, or was missed.
LateIsKnown ==
    Collecting => \A i \in late : /\ i \in Ids /\ journal[i].side = "BUY"
                                  /\ IsUnresolved(i) \/ i \in missed

\* What is held was seen, or has been bought since.
Known(s) == held[s] > 0 => s \in snap.seen \/ \E i \in late : journal[i].symbol = s

HeldIsKnown ==
    /\ pc \in {"countHoldings", "countPower"} => \A s \in Coins : Known(s)
    /\ pc = "countPower" => \A s \in Stocks : Known(s)

\* OpenPositionsAreLimited is not inductive: a BUY of a symbol that was held when
\* the account was read needs no further room, even if it is sold meanwhile, and
\* the room that Risk Guard found has to last until the order is sent.
RoomLasts ==
    /\ Room({})
    /\ Collecting /\ snap.quantity > 0 => Room({request.symbol})
    /\ pc = "preflight" /\ journal[Mine].side = "BUY" => Room({journal[Mine].symbol})

OpenInv == OpenTypes /\ LiveIsPending /\ LateIsKnown /\ HeldIsKnown /\ RoomLasts

\* Sets of symbols are finite, and a part of one has no more symbols.
LEMMA FewerFit ==
  ASSUME NEW A, NEW B, A \subseteq B, B \subseteq Symbols
  PROVE  /\ IsFiniteSet(A) /\ IsFiniteSet(B)
         /\ Cardinality(A) \in Nat /\ Cardinality(B) \in Nat
         /\ Cardinality(A) <= Cardinality(B)
<1>1. IsFiniteSet(Symbols)
  BY FS_Union DEF Symbols
<1>2. IsFiniteSet(B)
  BY <1>1, FS_Subset
<1> QED
  BY <1>2, FS_Subset, FS_CardinalityType

\* Positions and records are of symbols of the accounts.
LEMMA PositionsAreSymbols ==
  ASSUME OpenTypes
  PROVE  /\ Positions \subseteq Symbols
         /\ \A i \in Ids : journal[i] \in Records /\ journal[i].symbol \in Symbols
         /\ Ids = 1..Len(journal)
<1>1. Ids = 1..Len(journal)
  BY DEF OpenTypes, Types, Ids
<1>2. \A i \in Ids : journal[i] \in Records
  BY <1>1 DEF OpenTypes, Types
<1>3. \A i \in Ids : journal[i].symbol \in Symbols
  BY <1>2 DEF Records
<1> QED
  BY <1>1, <1>2, <1>3 DEF Positions, LiveBuys

\* Room that there was remains, if nothing is added.
LEMMA RoomRemains ==
  ASSUME OpenTypes, NEW more \in SUBSET Symbols, NEW P, NEW rest, NEW bad,
         Room(more), Excused => bad, P \cup rest \subseteq Positions \cup more
  PROVE  bad \/ Cardinality(P \cup rest) <= MaxOpenPositions
<1>1. Positions \cup more \subseteq Symbols
  BY PositionsAreSymbols
<1>2. /\ Cardinality(P \cup rest) \in Nat /\ Cardinality(Positions \cup more) \in Nat
      /\ Cardinality(P \cup rest) <= Cardinality(Positions \cup more)
  BY <1>1, FewerFit
<1>3. CASE Excused
  BY <1>3
<1>4. CASE ~Excused
  BY <1>2, <1>4 DEF Room
<1> QED
  BY <1>3, <1>4

\* A step that leaves journal, orders and holdings alone.
LEMMA SamePositions ==
  ASSUME UNCHANGED <<journal, order, held>>
  PROVE  Positions' = Positions /\ Ids' = Ids /\ Mine' = Mine
  BY DEF Positions, LiveBuys, Ids, Mine

\* The steps of the snapshot: nothing happens to orders and accounts.
LEMMA ReadKeeps ==
  ASSUME OpenInv, UNCHANGED <<journal, order, held, unsound>>, day' \in Nat,
         pc' \in Snapshots \cup {"idle"},
         pc' # "idle" => request' \in Requests,
         DOMAIN snap' = Fields, snap'.seen \subseteq Symbols, snap'.quantity \in Int,
         \/ ~Collecting'
         \/ /\ late' = {} /\ pc' \in {"power", "quotes"}
            /\ snap'.quantity > 0 => held[request.symbol] > 0 /\ request' = request
            /\ request.symbol \in Symbols
         \/ /\ Collecting /\ UNCHANGED <<late, missed, request>>
            /\ snap'.quantity = snap.quantity
            /\ request.symbol \in Symbols
            /\ HeldIsKnown'
  PROVE  OpenInv'
<1> USE DEF OpenInv
<1>1. Positions' = Positions /\ Ids' = Ids /\ Mine' = Mine
  BY SamePositions
<1>2. pc' # "preflight" /\ pc' # "answer" /\ ~Sending'
  BY DEF Snapshots, Sending
<1>3. OpenTypes'
  BY <1>2 DEF OpenTypes, Types
<1>4. LiveIsPending'
  BY <1>1, <1>2 DEF LiveIsPending, IsUnresolved
<1>5. Room({})'
  BY <1>1 DEF RoomLasts, Room, Excused
<1>6. CASE ~Collecting'
  <2>1. pc' \notin {"countHoldings", "countPower"}
    BY <1>6 DEF Collecting, Snapshots
  <2> QED
    BY <1>2, <1>3, <1>4, <1>5, <1>6, <2>1 DEF LateIsKnown, HeldIsKnown, RoomLasts
<1>7. CASE /\ late' = {} /\ pc' \in {"power", "quotes"}
           /\ snap'.quantity > 0 => held[request.symbol] > 0 /\ request' = request
           /\ request.symbol \in Symbols
  <2>1. LateIsKnown' /\ HeldIsKnown'
    BY <1>7 DEF LateIsKnown, HeldIsKnown
  <2>2. snap'.quantity > 0 => Room({request.symbol})'
    <3> SUFFICES ASSUME snap'.quantity > 0 PROVE Room({request.symbol})'
      OBVIOUS
    <3>1. request.symbol \in Positions /\ request' = request
      BY <1>7 DEF Positions
    <3>2. Positions' \cup {request'.symbol} = Positions \cup {}
      BY <1>1, <3>1
    <3> QED
      BY <3>2 DEF RoomLasts, Room, Excused
  <2> QED
    BY <1>2, <1>3, <1>4, <1>5, <2>1, <2>2 DEF RoomLasts
<1>8. CASE /\ Collecting /\ UNCHANGED <<late, missed, request>>
           /\ snap'.quantity = snap.quantity
           /\ HeldIsKnown'
  <2>1. LateIsKnown'
    BY <1>1, <1>8 DEF LateIsKnown, IsUnresolved
  <2>2. Collecting' /\ snap'.quantity > 0 => Room({request.symbol})'
    BY <1>1, <1>8 DEF RoomLasts, Room, Excused
  <2> QED
    BY <1>2, <1>3, <1>4, <1>5, <1>8, <2>1, <2>2 DEF RoomLasts
<1> QED
  BY <1>6, <1>7, <1>8

\* The steps of the snapshot, and those that only touch the calendar and baselines.
LEMMA ReadStep ==
  ASSUME OpenInv,
         \/ Ask \/ ReadBalances \/ ReadHoldings \/ ReadPower \/ ReadQuotes
         \/ CountUpbit \/ CountHoldings \/ SnapshotFails \/ SymbolIsBusy
         \/ (\E b \in Brokers : ReadPortfolio(b)) \/ NextDay
  PROVE  OpenInv'
<1>a. Ask => request' \in Requests
  BY DEF Ask, Requests
<1> USE DEF OpenInv, OpenTypes, Types, Collecting, Snapshots, broker, history, Working, Task
<1>0. pc # "idle" => request.symbol \in Symbols
  BY DEF Requests
<1>1. CASE Ask
  BY <1>a, <1>1, ReadKeeps DEF Ask
<1>2. CASE ReadBalances \/ ReadHoldings
  <2>1. /\ DOMAIN snap' = Fields /\ snap'.seen = {} /\ snap'.quantity = held[request.symbol]
    BY <1>2 DEF ReadBalances, ReadHoldings, NoSnapshot, Fields
  <2> QED
    BY <1>0, <1>2, <2>1, ReadKeeps DEF ReadBalances, ReadHoldings
<1>3. CASE ReadPower \/ ReadQuotes
  <2>1. /\ DOMAIN snap' = Fields /\ snap'.seen = snap.seen /\ snap'.quantity = snap.quantity
    BY <1>3 DEF ReadPower, ReadQuotes, Fields
  <2>2. HeldIsKnown'
    BY <1>3 DEF ReadPower, ReadQuotes, HeldIsKnown
  <2> QED
    BY <1>0, <1>3, <2>1, <2>2, ReadKeeps DEF ReadPower, ReadQuotes
<1>4. CASE CountUpbit
  <2>1. /\ DOMAIN snap' = Fields /\ snap'.seen = HeldAt("upbit") /\ snap'.quantity = snap.quantity
    BY <1>4 DEF CountUpbit, Fields
  <2>2. \A s \in Coins : held[s] > 0 => s \in HeldAt("upbit")
    BY DEF HeldAt, SymbolsOf
  <2>3. HeldIsKnown' /\ snap'.seen \subseteq Symbols
    BY <1>4, <2>1, <2>2 DEF CountUpbit, HeldIsKnown, Known, HeldAt, SymbolsOf, Symbols
  <2> QED
    BY <1>0, <1>4, <2>1, <2>3, ReadKeeps DEF CountUpbit
<1>5. CASE CountHoldings
  <2>1. /\ DOMAIN snap' = Fields /\ snap'.seen = snap.seen \cup HeldAt("toss")
        /\ snap'.quantity = snap.quantity
    BY <1>5 DEF CountHoldings, Fields
  <2>2. \A s \in Stocks : held[s] > 0 => s \in HeldAt("toss")
    BY DEF HeldAt, SymbolsOf
  <2>3. HeldIsKnown' /\ snap'.seen \subseteq Symbols
    BY <1>5, <2>1, <2>2 DEF CountHoldings, HeldIsKnown, Known, HeldAt, SymbolsOf, Symbols
  <2> QED
    BY <1>0, <1>5, <2>1, <2>3, ReadKeeps DEF CountHoldings
<1>6. CASE SnapshotFails \/ SymbolIsBusy
  <2>1. DOMAIN snap' = Fields /\ snap'.seen = {} /\ snap'.quantity = 0
    BY <1>6 DEF SnapshotFails, SymbolIsBusy, Leave, NoSnapshot, Fields
  <2> QED
    BY <1>6, <2>1, ReadKeeps DEF SnapshotFails, SymbolIsBusy, Collected, Leave
<1>7. CASE (\E b \in Brokers : ReadPortfolio(b)) \/ NextDay
  <2>1. /\ UNCHANGED <<journal, order, held, pc, request, snap, late, missed, unsound>>
        /\ day' \in Nat
    BY <1>7 DEF ReadPortfolio, NextDay
  <2>2. Positions' = Positions /\ Ids' = Ids /\ Mine' = Mine
    BY <2>1, SamePositions
  <2> QED
    BY <2>1, <2>2 DEF LiveIsPending, IsUnresolved, LateIsKnown, HeldIsKnown, Known, RoomLasts,
       Room, Excused, Sending
<1> QED
  BY <1>1, <1>2, <1>3, <1>4, <1>5, <1>6, <1>7

-----------------------------------------------------------------------------
(* The steps of the lock holder that write the journal. *)

\* A new record is nobody's order yet.
LEMMA NewIsNothing ==
  ASSUME OpenInv, request \in Requests, NEW st \in {"CREATED", "REJECTED"}, NEW n \in Nat,
         Create(st, n), UNCHANGED held
  PROVE  /\ journal' \in Seq(Records) /\ order' \in Seq(OrderStates)
         /\ Len(order') = Len(journal') /\ Len(journal') = Len(journal) + 1
         /\ journal' # <<>> /\ Ids' = 1..(Len(journal) + 1)
         /\ Positions' = Positions
         /\ \A i \in Ids' : order'[i] \in {"coming", "open"} => IsUnresolved(i)'
         /\ order'[Mine'] = "none" /\ journal'[Mine'].side = request.side
         /\ journal'[Mine'].symbol = request.symbol
<1> USE DEF OpenInv, OpenTypes, Types
<1> DEFINE r == [status |-> st, symbol |-> request.symbol, side |-> request.side,
                 quantity |-> n, day |-> day]
<1>1. r \in Records /\ r.symbol = request.symbol /\ r.side = request.side
  BY DEF Requests, Records, Statuses
<1>2. journal' = Append(journal, r) /\ order' = Append(order, "none")
  BY DEF Create
<1> HIDE DEF r
<1>3. /\ journal' \in Seq(Records) /\ Len(journal') = Len(journal) + 1
      /\ \A j \in 1..Len(journal) : journal'[j] = journal[j]
      /\ journal'[Len(journal) + 1] = r
  BY <1>1, <1>2
<1>4. /\ order' \in Seq(OrderStates) /\ Len(order') = Len(order) + 1
      /\ \A j \in 1..Len(journal) : order'[j] = order[j]
      /\ order'[Len(journal) + 1] = "none"
  BY <1>2 DEF OrderStates
<1>5. /\ Ids = 1..Len(journal) /\ Ids' = 1..(Len(journal) + 1)
      /\ Mine' = Len(journal) + 1 /\ journal' # <<>>
  BY <1>3 DEF Ids, Mine
<1>6. \A i \in Ids' : i \in Ids \/ i = Len(journal) + 1
  BY <1>5
<1>7. LiveBuys' = LiveBuys
  BY <1>3, <1>4, <1>5, <1>6 DEF LiveBuys
<1>8. \A i \in LiveBuys : journal'[i].symbol = journal[i].symbol
  BY <1>3, <1>5 DEF LiveBuys
<1>9. Positions' = Positions
  BY <1>7, <1>8 DEF Positions
<1>10. \A i \in Ids' : order'[i] \in {"coming", "open"} => IsUnresolved(i)'
  BY <1>3, <1>4, <1>5, <1>6 DEF LiveIsPending, IsUnresolved
<1> QED
  BY <1>1, <1>3, <1>4, <1>5, <1>9, <1>10

\* When the lock is released, or the order is sent, only its room counts.
LEMMA RiskStep ==
  ASSUME OpenInv, RiskBlocks \/ RiskAllows
  PROVE  OpenInv'
<1> USE DEF OpenInv, OpenTypes
<1>1. /\ request \in Requests /\ UNCHANGED <<held, day>> /\ pc = "countPower"
      /\ request.symbol \in Symbols /\ Collecting
  BY DEF RiskBlocks, RiskAllows, Collected, Types, Requests, Collecting, Snapshots
<1>2. CASE RiskBlocks
  <2>1. /\ Create("REJECTED", request.quantity) /\ request.quantity \in Nat
        /\ pc' = "idle" /\ unsound' = unsound /\ DOMAIN snap' = Fields /\ snap'.seen = {}
        /\ snap'.quantity = 0
    BY <1>1, <1>2 DEF RiskBlocks, Leave, NoSnapshot, Fields, Requests
  <2>2. /\ journal' \in Seq(Records) /\ order' \in Seq(OrderStates)
        /\ Len(order') = Len(journal') /\ journal' # <<>> /\ Positions' = Positions
        /\ \A i \in Ids' : order'[i] \in {"coming", "open"} => IsUnresolved(i)'
    BY <1>1, <2>1, NewIsNothing
  <2>3. OpenTypes'
    BY <1>1, <2>1, <2>2 DEF Types, Sending
  <2>4. ~Collecting'
    BY <2>1 DEF Collecting, Snapshots
  <2>5. Room({})'
    BY <2>1, <2>2 DEF RoomLasts, Room, Excused
  <2> QED
    BY <2>1, <2>2, <2>3, <2>4, <2>5 DEF LiveIsPending, LateIsKnown, HeldIsKnown, RoomLasts
<1>3. CASE RiskAllows
  <2>1. PICK n \in 1..request.quantity : Create("CREATED", n)
    BY <1>3 DEF RiskAllows
  <2>2. /\ Passes(Intent(TRUE), FALSE) /\ pc' = "preflight"
        /\ UNCHANGED <<request, snap>>
        /\ unsound' = (unsound \/ (request.side = "BUY" /\ (missed # {} \/ torn)))
    BY <1>3 DEF RiskAllows
  <2>3. n \in Nat
    BY <1>1 DEF Requests
  <2>4. /\ journal' \in Seq(Records) /\ order' \in Seq(OrderStates)
        /\ Len(order') = Len(journal') /\ journal' # <<>> /\ Positions' = Positions
        /\ \A i \in Ids' : order'[i] \in {"coming", "open"} => IsUnresolved(i)'
        /\ order'[Mine'] = "none" /\ journal'[Mine'].side = request.side
        /\ journal'[Mine'].symbol = request.symbol
    BY <1>1, <2>1, <2>3, NewIsNothing
  <2>5. OpenTypes'
    BY <1>1, <2>2, <2>4 DEF Types
  <2>6. ~Collecting' /\ pc' \notin {"countHoldings", "countPower"}
    BY <2>2 DEF Collecting, Snapshots
  <2>7. Room({})'
    BY <2>2, <2>4 DEF RoomLasts, Room, Excused
  <2>8. ASSUME request.side = "BUY" PROVE Room({request.symbol})'
    <3>1. CASE Excused \/ missed # {}
      BY <2>2, <2>8, <3>1 DEF Room, Excused
    <3>2. CASE ~Excused /\ missed = {}
      <4> DEFINE Counts == snap.seen \cup {journal[i].symbol : i \in PendingBuys}
      <4>1. Positions \subseteq Counts
        <5>1. \A s \in Symbols : held[s] > 0 => s \in Counts
          <6>1. \A s \in Symbols : Known(s)
            BY <1>1 DEF HeldIsKnown, Symbols
          <6>2. \A i \in late : i \in PendingBuys
            BY <1>1, <3>2 DEF LateIsKnown, PendingBuys
          <6> QED
            BY <6>1, <6>2 DEF Known
        <5>2. LiveBuys \subseteq PendingBuys
          BY DEF LiveBuys, PendingBuys, LiveIsPending
        <5> QED
          BY <5>1, <5>2 DEF Positions
      <4>2. Counts \subseteq Symbols
        BY PositionsAreSymbols DEF PendingBuys
      <4>3. /\ OpenPositions = Cardinality(Counts) /\ OpenPositions \in Nat
            /\ IsFiniteSet(Positions) /\ Cardinality(Positions) \in Nat
            /\ Cardinality(Positions) <= OpenPositions
        BY <4>1, <4>2, FewerFit DEF OpenPositions
      <4>4. ~(snap.quantity <= 0 /\ OpenPositions >= MaxOpenPositions)
        BY <2>2, <2>8, PassingBuyHasPlace
      <4>5. CASE request.symbol \in Positions
        <5>1. Positions \cup {request.symbol} = Positions \cup {}
          BY <4>5
        <5> QED
          BY <2>2, <2>4, <5>1 DEF RoomLasts, Room, Excused
      <4>6. CASE request.symbol \notin Positions /\ snap.quantity > 0
        BY <1>1, <2>2, <2>4, <4>6 DEF RoomLasts, Room, Excused
      <4>7. CASE request.symbol \notin Positions /\ OpenPositions < MaxOpenPositions
        <5>1. Cardinality(Positions \cup {request.symbol}) = Cardinality(Positions) + 1
          BY <4>3, <4>7, FS_AddElement
        <5>2. Cardinality(Positions \cup {request.symbol}) <= MaxOpenPositions
          BY <4>3, <4>7, <5>1
        <5> QED
          BY <2>2, <2>4, <5>2 DEF Room
      <4>8. snap.quantity \in Int
        BY DEF OpenTypes
      <4>9. snap.quantity > 0 \/ OpenPositions < MaxOpenPositions
        BY <4>3, <4>4, <4>8
      <4> QED
        BY <4>5, <4>6, <4>7, <4>9
    <3> QED
      BY <3>1, <3>2
  <2>9. RoomLasts'
    BY <2>2, <2>4, <2>6, <2>7, <2>8 DEF RoomLasts
  <2> QED
    BY <2>2, <2>4, <2>5, <2>6, <2>9 DEF LiveIsPending, LateIsKnown, HeldIsKnown
<1> QED
  BY <1>2, <1>3

-----------------------------------------------------------------------------
(* Orders on their way. *)

\* A status that is written, with orders and holdings changing or not: if all that
\* the broker still works on was that, or is the order just sent, nothing is added.
LEMMA StatusKeeps ==
  ASSUME OpenInv, NEW k \in Ids, NEW st \in Statuses, SetStatus(k, st),
         UNCHANGED <<order, held, day, unsound>>,
         order[k] \in {"coming", "open"} => st \in {"SUBMITTING", "SUBMITTED", "UNKNOWN"},
         pc' = "idle", DOMAIN snap' = Fields, snap'.seen = {}, snap'.quantity = 0
  PROVE  OpenInv'
<1> USE DEF OpenInv, OpenTypes
<1>1. /\ journal' \in Seq(Records) /\ Len(journal') = Len(journal) /\ Ids' = Ids
      /\ journal'[k].status = st
      /\ \A j \in Ids : /\ journal'[j].side = journal[j].side
                        /\ journal'[j].symbol = journal[j].symbol
                        /\ j # k => journal'[j] = journal[j]
  BY StatusChange DEF Types
<1>2. OpenTypes'
  BY <1>1 DEF Types, Sending
<1>3. Positions' = Positions
  BY <1>1 DEF Positions, LiveBuys
<1>4. LiveIsPending'
  BY <1>1 DEF LiveIsPending, IsUnresolved
<1>5. Room({})'
  BY <1>3 DEF RoomLasts, Room, Excused
<1> QED
  BY <1>2, <1>4, <1>5 DEF LateIsKnown, HeldIsKnown, RoomLasts, Collecting, Snapshots

\* The holder of the lock records an outcome or dies.
LEMMA HolderStep ==
  ASSUME OpenInv, PreflightRefused \/ Accepted \/ Refused \/ Ambiguous \/ Crash
  PROVE  OpenInv'
<1>1. /\ pc' = "idle" /\ DOMAIN snap' = Fields /\ snap'.seen = {} /\ snap'.quantity = 0
      /\ UNCHANGED <<order, held, day, unsound>>
  BY DEF PreflightRefused, Accepted, Refused, Ambiguous, Crash, Answered, Leave, NoSnapshot,
     Fields, broker
<1>2. Sending => Mine \in Ids
  BY DEF OpenInv, OpenTypes, Types, Mine, Ids
<1>3. CASE PreflightRefused
  <2>1. Mine \in Ids /\ order[Mine] = "none" /\ SetStatus(Mine, "REJECTED")
    BY <1>2, <1>3 DEF PreflightRefused, Sending, OpenInv, LiveIsPending
  <2> QED
    BY <1>1, <2>1, StatusKeeps DEF Statuses
<1>4. CASE Accepted \/ Refused \/ Ambiguous
  <2>1. /\ Mine \in Ids
        /\ \/ SetStatus(Mine, "SUBMITTED") \/ SetStatus(Mine, "UNKNOWN")
           \/ order[Mine] = "refused" /\ SetStatus(Mine, "REJECTED")
    BY <1>2, <1>4 DEF Accepted, Refused, Ambiguous, Answered, Sending
  <2> QED
    BY <1>1, <2>1, StatusKeeps DEF Statuses
<1>5. CASE Crash
  <2>1. CASE journal' # journal
    <3>1. /\ Mine \in Ids /\ order[Mine] = "none"
          /\ SetStatus(Mine, "PREFLIGHTED") \/ SetStatus(Mine, "SUBMITTING")
      BY <1>2, <1>5, <2>1 DEF Crash, Sending, SetStatus, OpenInv, LiveIsPending
    <3> QED
      BY <1>1, <3>1, StatusKeeps DEF Statuses
  <2>2. CASE journal' = journal
    <3>1. pc' \in Snapshots \cup {"idle"} /\ ~Collecting'
      BY <1>1 DEF Collecting, Snapshots
    <3> QED
      BY <1>1, <2>2, <3>1, ReadKeeps DEF OpenInv, OpenTypes, Types
  <2> QED
    BY <2>1, <2>2
<1> QED
  BY <1>3, <1>4, <1>5

\* The order is sent: it takes the room that was found for it.
LEMMA SentKeeps ==
  ASSUME OpenInv, PreflightPasses
  PROVE  OpenInv'
<1> USE DEF OpenInv, OpenTypes
<1>1. /\ Mine \in Ids /\ Ids = 1..Len(journal) /\ Mine = Len(journal)
  BY DEF PreflightPasses, Sending, Types, Mine, Ids
<1>2. /\ pc = "preflight" /\ pc' = "answer" /\ SetStatus(Mine, "SUBMITTING")
      /\ order' = [order EXCEPT ![Mine] = "coming"]
      /\ UNCHANGED <<held, day, request, snap, late, missed, unsound>>
  BY DEF PreflightPasses, history
<1>3. /\ journal' \in Seq(Records) /\ Len(journal') = Len(journal) /\ Ids' = Ids
      /\ journal'[Mine].status = "SUBMITTING"
      /\ \A j \in Ids : /\ journal'[j].side = journal[j].side
                        /\ journal'[j].symbol = journal[j].symbol
                        /\ j # Mine => journal'[j] = journal[j]
  BY <1>1, <1>2, StatusChange DEF Types, Statuses
<1>4. /\ order' \in Seq(OrderStates) /\ Len(order') = Len(order)
      /\ order'[Mine] = "coming" /\ \A j \in Ids : j # Mine => order'[j] = order[j]
  BY <1>1, <1>2 DEF OrderStates
<1>5. OpenTypes'
  BY <1>1, <1>2, <1>3, <1>4 DEF Types, Sending
<1>6. LiveIsPending'
  BY <1>2, <1>3, <1>4 DEF LiveIsPending, IsUnresolved
<1>7. Room({})'
  <2>1. CASE journal[Mine].side = "BUY"
    <3>1. Positions' \cup {} \subseteq Positions \cup {journal[Mine].symbol}
      BY <1>1, <1>2, <1>3, <1>4 DEF Positions, LiveBuys
    <3>2. Room({journal[Mine].symbol}) /\ {journal[Mine].symbol} \in SUBSET Symbols
      BY <1>1, <1>2, <2>1, PositionsAreSymbols DEF RoomLasts
    <3>3. Excused' \/ Cardinality(Positions' \cup {}) <= MaxOpenPositions
      BY <1>2, <3>1, <3>2, RoomRemains DEF Excused
    <3> QED
      BY <3>3 DEF Room
  <2>2. CASE journal[Mine].side # "BUY"
    <3>1. Positions' \cup {} \subseteq Positions \cup {}
      BY <1>1, <1>2, <1>3, <1>4, <2>2 DEF Positions, LiveBuys
    <3>2. Room({}) /\ {} \in SUBSET Symbols
      BY DEF RoomLasts
    <3>3. Excused' \/ Cardinality(Positions' \cup {}) <= MaxOpenPositions
      BY <1>2, <3>1, <3>2, RoomRemains DEF Excused
    <3> QED
      BY <3>3 DEF Room
  <2> QED
    BY <2>1, <2>2
<1>8. ~Collecting' /\ pc' \notin {"countHoldings", "countPower"}
  BY <1>2 DEF Collecting, Snapshots
<1> QED
  BY <1>2, <1>5, <1>6, <1>7, <1>8 DEF LateIsKnown, HeldIsKnown, RoomLasts

\* Less on the way and held, and more known: nothing is lost.
LEMMA OthersKeep ==
  ASSUME OpenInv, journal' \in Seq(Records), Len(journal') = Len(journal),
         \A j \in Ids : /\ journal'[j].side = journal[j].side
                        /\ journal'[j].symbol = journal[j].symbol,
         order' \in Seq(OrderStates), Len(order') = Len(order), held' \in [Symbols -> Int],
         UNCHANGED <<day, pc, request, snap, unsound>>,
         Positions' \subseteq Positions,
         LiveIsPending', LateIsKnown', HeldIsKnown'
  PROVE  OpenInv'
<1> USE DEF OpenInv, OpenTypes
<1>1. Ids' = Ids /\ Mine' = Mine
  BY PositionsAreSymbols DEF Ids, Mine, Types
<1>2. OpenTypes'
  BY DEF Types, Sending
<1>3. ASSUME NEW more \in SUBSET Symbols, Room(more)
      PROVE  Excused' \/ Cardinality(Positions' \cup more) <= MaxOpenPositions
  <2>1. Positions' \cup more \subseteq Positions \cup more
    OBVIOUS
  <2> QED
    BY <1>3, <2>1, RoomRemains DEF Excused
<1>4. Room({})'
  BY <1>3 DEF RoomLasts, Room, Excused
<1>5. Collecting' /\ snap'.quantity > 0 => Room({request.symbol})'
  <2>1. Collecting => request.symbol \in Symbols
    BY DEF Types, Requests, Collecting, Snapshots
  <2> QED
    BY <1>3, <2>1 DEF RoomLasts, Room, Collecting
<1>6. pc' = "preflight" /\ journal'[Mine'].side = "BUY" => Room({journal[Mine].symbol})'
  <2>1. pc = "preflight" => Mine \in Ids
    BY DEF Types, Sending, Mine, Ids
  <2>2. pc = "preflight" => journal[Mine].symbol \in Symbols
    BY <2>1, PositionsAreSymbols
  <2> QED
    BY <1>1, <1>3, <2>1, <2>2 DEF RoomLasts, Room, Excused
<1> QED
  BY <1>2, <1>4, <1>5, <1>6 DEF RoomLasts

\* The broker accepts, refuses or closes an order.
LEMMA BrokerStep ==
  ASSUME OpenInv, NEW i \in Ids,
         \/ BrokerAccepts(i) \/ BrokerRefuses(i)
         \/ \E n \in 0..journal[i].quantity : BrokerCloses(i, n)
  PROVE  OpenInv'
<1> USE DEF OpenInv, OpenTypes, Types
<1>0. Ids = 1..Len(journal) /\ Ids = 1..Len(order) /\ journal[i] \in Records
      /\ journal[i].symbol \in Symbols /\ journal[i].quantity \in Nat
  BY PositionsAreSymbols DEF Records
<1>1. PICK st \in {"open", "refused", "closed"} :
         /\ order' = [order EXCEPT ![i] = st]
         /\ order[i] \in {"coming", "open"}
         /\ st = "open" => held' = held
  BY DEF BrokerAccepts, BrokerRefuses, BrokerCloses
<1>2. /\ order' \in Seq(OrderStates) /\ Len(order') = Len(order)
      /\ order'[i] = st /\ \A j \in Ids : j # i => order'[j] = order[j]
  BY <1>0, <1>1 DEF OrderStates
<1>3. UNCHANGED <<journal, day, pc, request, snap, missed, unsound>>
  BY DEF BrokerAccepts, BrokerRefuses, BrokerCloses, Task, history
<1>4. LiveBuys' \subseteq LiveBuys
  BY <1>0, <1>1, <1>2, <1>3 DEF LiveBuys, Ids
<1>5. LiveIsPending'
  BY <1>0, <1>1, <1>2, <1>3 DEF LiveIsPending, IsUnresolved, Mine, Ids
<1>6. CASE BrokerAccepts(i) \/ BrokerRefuses(i)
  <2>1. held' = held /\ late' = late
    BY <1>6 DEF BrokerAccepts, BrokerRefuses, history
  <2>2. Positions' \subseteq Positions
    BY <1>3, <1>4, <2>1 DEF Positions
  <2>3. LateIsKnown' /\ HeldIsKnown'
    BY <1>3, <2>1 DEF LateIsKnown, HeldIsKnown, Known, IsUnresolved, Collecting, Ids
  <2> QED
    BY <1>2, <1>3, <1>5, <2>1, <2>2, <2>3, OthersKeep
<1>7. ASSUME NEW n \in 0..journal[i].quantity, BrokerCloses(i, n) PROVE OpenInv'
  <2> DEFINE s == journal[i].symbol
  <2>1. /\ n \in Nat /\ held' = [held EXCEPT ![s] = IF journal[i].side = "BUY" THEN @ + n ELSE @ - n]
        /\ late' = IF journal[i].side = "BUY" /\ n > 0 /\ Collecting THEN late \cup {i} ELSE late
    BY <1>0, <1>7 DEF BrokerCloses
  <2>2. /\ held' \in [Symbols -> Int]
        /\ \A r \in Symbols : held'[r] > 0 =>
              held[r] > 0 \/ (r = s /\ journal[i].side = "BUY" /\ n > 0)
    BY <1>0, <2>1
  <2>3. Positions' \subseteq Positions
    <3>1. journal[i].side = "BUY" => i \in LiveBuys
      BY <1>1 DEF LiveBuys
    <3>2. journal[i].side = "BUY" => s \in Positions
      BY <3>1 DEF Positions
    <3>3. \A r \in Symbols : held'[r] > 0 => r \in Positions
      BY <2>2, <3>2 DEF Positions
    <3> QED
      BY <1>3, <1>4, <3>3 DEF Positions
  <2>4. LateIsKnown'
    <3>1. IsUnresolved(i)
      BY <1>1 DEF LiveIsPending
    <3> QED
      BY <1>3, <2>1, <3>1 DEF LateIsKnown, IsUnresolved, Collecting, Ids
  <2>5. ASSUME NEW r \in Symbols, Collecting, Known(r) PROVE Known(r)'
    BY <1>3, <2>1, <2>2, <2>5 DEF Known
  <2>6. HeldIsKnown'
    BY <1>3, <2>5 DEF HeldIsKnown, Collecting, Snapshots, Symbols
  <2> QED
    BY <1>2, <1>3, <1>5, <2>2, <2>3, <2>4, <2>6, OthersKeep
<1> QED
  BY <1>6, <1>7

\* A reconciliation takes no order from the broker's hands.
LEMMA ReconcileKeeps ==
  ASSUME OpenInv, NEW i \in Ids, Reconcile(i)
  PROVE  OpenInv'
<1> USE DEF OpenInv, OpenTypes, Types
<1>1. /\ SetStatus(i, Reconciled(i)) /\ IsUnresolved(i) /\ Reconciled(i) # journal[i].status
      /\ UNCHANGED <<order, held, day, pc, request, snap, late, unsound>>
      /\ missed' = IF Collecting THEN missed \cup ({i} \cap late) ELSE missed
  BY DEF Reconcile, broker, Task
<1>2. Reconciled(i) \in Statuses
  BY <1>1 DEF Reconciled, Statuses, IsUnresolved
<1>3. /\ journal' \in Seq(Records) /\ Len(journal') = Len(journal) /\ Ids' = Ids
      /\ journal'[i].status = Reconciled(i)
      /\ \A j \in Ids : /\ journal'[j].side = journal[j].side
                        /\ journal'[j].symbol = journal[j].symbol
                        /\ j # i => journal'[j] = journal[j]
  BY <1>1, <1>2, StatusChange
<1>4. Positions' \subseteq Positions
  BY <1>1, <1>3 DEF Positions, LiveBuys
<1>5. order[i] \in {"coming", "open"} => Reconciled(i) = "SUBMITTED"
  BY <1>1 DEF Reconciled
<1>6. LiveIsPending'
  BY <1>1, <1>3, <1>5 DEF LiveIsPending, IsUnresolved, Mine
<1>7. LateIsKnown'
  BY <1>1, <1>3 DEF LateIsKnown, IsUnresolved, Collecting
<1>8. HeldIsKnown'
  <2>1. Collecting => \A j \in late : journal'[j].symbol = journal[j].symbol
    BY <1>3 DEF LateIsKnown
  <2>2. ASSUME NEW r \in Symbols, Collecting, Known(r) PROVE Known(r)'
    BY <1>1, <2>1, <2>2 DEF Known
  <2> QED
    BY <1>1, <2>2 DEF HeldIsKnown, Collecting, Snapshots, Symbols
<1> QED
  BY <1>1, <1>3, <1>4, <1>6, <1>7, <1>8, OthersKeep

-----------------------------------------------------------------------------
\* OpenInv is inductive.
LEMMA OpenStep ==
  ASSUME OpenInv, [Next]_vars
  PROVE  OpenInv'
<1>1. CASE UNCHANGED vars
  <2>1. /\ UNCHANGED <<journal, order, held, day, pc, request, snap, late, missed, unsound>>
    BY <1>1 DEF vars, broker, history
  <2>2. Positions' = Positions /\ Ids' = Ids /\ Mine' = Mine
    BY <2>1, SamePositions
  <2> QED
    BY <2>1, <2>2 DEF OpenInv, OpenTypes, Types, LiveIsPending, IsUnresolved, LateIsKnown,
       HeldIsKnown, Known, RoomLasts, Room, Excused, Sending, Collecting
<1>2. CASE \E i \in Ids : \/ BrokerAccepts(i) \/ BrokerRefuses(i)
                          \/ \E n \in 0..journal[i].quantity : BrokerCloses(i, n)
                          \/ Reconcile(i)
  BY <1>2, BrokerStep, ReconcileKeeps
<1> QED
  BY <1>1, <1>2, ReadStep, RiskStep, HolderStep, SentKeeps DEF Next

\* OpenInv holds in every state, with nothing assumed of the first.
LEMMA OpenAlways == Spec => []OpenInv
<1>1. Init => OpenInv
  <2> SUFFICES ASSUME Init PROVE OpenInv
    OBVIOUS
  <2>1. /\ Ids = {} /\ Positions = Owned
    BY DEF Init, Ids, Positions, LiveBuys, Symbols
  <2>2. OpenTypes
    BY DEF Init, OpenTypes, Types, Sending, OrderStates, NoSnapshot, Fields
  <2>3. RoomLasts
    <3>1. Positions \cup {} = Owned
      BY <2>1
    <3>2. Cardinality(Owned) \in Nat
      BY FewerFit DEF Symbols
    <3> QED
      BY <3>1, <3>2 DEF Init, RoomLasts, Room, Excused, Collecting, Snapshots
  <2> QED
    BY <2>1, <2>2, <2>3 DEF Init, OpenInv, LiveIsPending, LateIsKnown, HeldIsKnown, Collecting,
       Snapshots
<1>2. OpenInv /\ [Next]_vars => OpenInv'
  BY OpenStep
<1> QED
  BY <1>1, <1>2, PTL DEF Spec

\* If no more is held at first than is allowed, both accounts together never hold
\* more symbols, BUYs on their way included, but for the race that is recorded.
THEOREM OpenPositionsLimit ==
  ASSUME Cardinality(Owned) <= MaxOpenPositions
  PROVE  Spec => []OpenPositionsAreLimited
<1>1. OpenInv => OpenPositionsAreLimited
  <2> SUFFICES ASSUME OpenInv PROVE OpenPositionsAreLimited
    OBVIOUS
  <2>1. Positions \cup {} = {s \in Symbols : held[s] > 0} \cup {journal[i].symbol : i \in LiveBuys}
    BY DEF Positions
  <2>2. ~(Cardinality(Owned) > MaxOpenPositions)
    BY FewerFit DEF Symbols
  <2> QED
    BY <2>1, <2>2 DEF OpenInv, RoomLasts, Room, Excused, OpenPositionsAreLimited
<1> QED
  BY <1>1, OpenAlways, PTL

-----------------------------------------------------------------------------
(* Sums.  MapThenSumSet takes an operator, which no prover can instantiate; *)
(* unfolded, it is a function chosen for the subsets of a set. *)

Pick(S) == CHOOSE x \in S : TRUE

\* g sums w over the subsets of S, as MapThenSumSet does.
SumsUp(g, w, S) ==
    g = [T \in SUBSET S |-> IF T = {} THEN 0 ELSE w[Pick(T)] + g[T \ {Pick(T)}]]

Total(w, S) == MapThenSumSet(LAMBDA x : w[x], S)

\* Induction over a finite set: what fails for some subset fails for a smallest one.
LEMMA Smallest ==
  ASSUME NEW S, IsFiniteSet(S), NEW B, B \subseteq SUBSET S, B # {}
  PROVE  \E T \in B : \A U \in B : U \subseteq T => U = T
<1>1. IsWellFoundedOn(StrictSubsetOrdering(S), SUBSET S)
  BY FS_StrictSubsetOrderingWellFounded, FS_FiniteSubsetsOfFinite
<1>2. PICK T \in B : \A U \in B : ~(<<U, T>> \in StrictSubsetOrdering(S))
  <2> DEFINE R == StrictSubsetOrdering(S)
  <2> HIDE DEF R
  <2>1. IsWellFoundedOn(R, SUBSET S)
    BY <1>1 DEF R
  <2>2. \E T \in B : \A U \in B : ~(<<U, T>> \in R)
    BY <2>1, WFMin
  <2> QED
    BY <2>2 DEF R
<1>3. ASSUME NEW U \in B, U \subseteq T, U # T
      PROVE  <<U, T>> \in StrictSubsetOrdering(S)
  <2>1. <<U, T>> \in (SUBSET S) \X (SUBSET S)
    OBVIOUS
  <2> QED
    BY <1>3, <2>1 DEF StrictSubsetOrdering
<1>4. ASSUME NEW U \in B, U \subseteq T
      PROVE  U = T
  BY <1>2, <1>3, <1>4
<1> QED
  BY <1>4

\* A set that is not empty has the element that is picked first.
LEMMA PickIsIn == ASSUME NEW T, T # {} PROVE Pick(T) \in T
  BY DEF Pick

\* What MapThenSumSet is, without its operator parameters.
LEMMA TotalIs ==
  ASSUME NEW w, NEW S
  PROVE  Total(w, S) = (CHOOSE g : SumsUp(g, w, S))[S]
  BY DEF Total, MapThenSumSet, MapThenFoldSet, SumsUp, Pick

\* Two such functions agree where both are defined.
LEMMA SumsAgree ==
  ASSUME NEW w, NEW S, NEW T, IsFiniteSet(T), T \subseteq S,
         NEW g, SumsUp(g, w, S), NEW h, SumsUp(h, w, T)
  PROVE  \A U \in SUBSET T : g[U] = h[U]
<1> DEFINE B == {U \in SUBSET T : g[U] # h[U]}
<1> SUFFICES ASSUME B # {} PROVE FALSE
  OBVIOUS
<1>1. PICK U \in B : \A V \in B : V \subseteq U => V = U
  <2>1. B \subseteq SUBSET T
    OBVIOUS
  <2> HIDE DEF B
  <2> QED
    BY <2>1, Smallest
<1>2. /\ g[U] = IF U = {} THEN 0 ELSE w[Pick(U)] + g[U \ {Pick(U)}]
      /\ h[U] = IF U = {} THEN 0 ELSE w[Pick(U)] + h[U \ {Pick(U)}]
  <2>1. U \in SUBSET S /\ U \in SUBSET T
    OBVIOUS
  <2> QED
    BY <2>1 DEF SumsUp
<1>3. CASE U = {}
  BY <1>2, <1>3
<1>4. CASE U # {}
  <2>1. U \ {Pick(U)} \subseteq U /\ U \ {Pick(U)} # U /\ U \ {Pick(U)} \in SUBSET T
    BY <1>4, PickIsIn
  <2>2. g[U \ {Pick(U)}] = h[U \ {Pick(U)}]
    BY <1>1, <2>1
  <2> QED
    BY <1>2, <1>4, <2>2
<1> QED
  BY <1>3, <1>4

\* There is such a function for every finite set.
LEMMA SumsExist ==
  ASSUME NEW w, NEW S, IsFiniteSet(S)
  PROVE  \E g : SumsUp(g, w, S)
<1> DEFINE B == {T \in SUBSET S : ~\E g : SumsUp(g, w, T)}
<1> SUFFICES ASSUME B # {} PROVE FALSE
  OBVIOUS
<1>1. PICK T \in B : \A U \in B : U \subseteq T => U = T
  <2>1. B \subseteq SUBSET S
    OBVIOUS
  <2> HIDE DEF B
  <2> QED
    BY <2>1, Smallest
<1>2. T \in SUBSET S /\ ~\E g : SumsUp(g, w, T)
  OBVIOUS
<1> DEFINE G(U) == CHOOSE g : SumsUp(g, w, U)
<1>3. ASSUME NEW U \in SUBSET T, U # T
      PROVE  SumsUp(G(U), w, U) /\ IsFiniteSet(U)
  <2>1. \E g : SumsUp(g, w, U)
    BY <1>1, <1>2, <1>3
  <2>2. IsFiniteSet(U)
    BY <1>2, FS_Subset
  <2> QED
    BY <2>1, <2>2
<1> HIDE DEF G
<1> DEFINE f == [U \in SUBSET T |-> IF U = {} THEN 0
                    ELSE IF U # T THEN G(U)[U] ELSE w[Pick(T)] + G(T \ {Pick(T)})[T \ {Pick(T)}]]
<1>4. ASSUME NEW U \in SUBSET T, U # {}
      PROVE  f[U] = w[Pick(U)] + f[U \ {Pick(U)}]
  <2> DEFINE V == U \ {Pick(U)}
  <2>1. Pick(U) \in U /\ V \in SUBSET T /\ V \in SUBSET U /\ V # T
    BY <1>4, PickIsIn
  <2>2. SumsUp(G(V), w, V)
    BY <1>3, <2>1
  <2>3. f[V] = G(V)[V]
    <3>1. CASE V = {}
      BY <2>2, <3>1 DEF SumsUp
    <3>2. CASE V # {}
      BY <2>1, <3>2
    <3> QED
      BY <3>1, <3>2
  <2>4. CASE U = T
    BY <2>3, <2>4, <1>4
  <2>5. CASE U # T
    <3>1. SumsUp(G(U), w, U)
      BY <1>3, <2>5
    <3>2. G(U)[U] = w[Pick(U)] + G(U)[V]
      BY <1>4, <3>1 DEF SumsUp
    <3>3. G(U)[V] = G(V)[V]
      <4>1. IsFiniteSet(V) /\ V \in SUBSET V
        BY <1>3, <2>1
      <4> HIDE DEF V
      <4> QED
        BY <2>1, <2>2, <3>1, <4>1, SumsAgree
    <3> QED
      BY <1>4, <2>3, <2>5, <3>2, <3>3
  <2> QED
    BY <2>4, <2>5
<1>5. f = [U \in SUBSET T |-> IF U = {} THEN 0 ELSE w[Pick(U)] + f[U \ {Pick(U)}]]
  <2> DEFINE h == [U \in SUBSET T |-> IF U = {} THEN 0 ELSE w[Pick(U)] + f[U \ {Pick(U)}]]
  <2>1. f[{}] = 0
    OBVIOUS
  <2>2. \A U \in SUBSET T : f[U] = h[U]
    <3> HIDE DEF f
    <3> QED
      BY <1>4, <2>1
  <2>3. DOMAIN f = SUBSET T /\ DOMAIN h = SUBSET T /\ f = [U \in SUBSET T |-> f[U]]
    OBVIOUS
  <2>4. h = [U \in SUBSET T |-> h[U]]
    OBVIOUS
  <2> HIDE DEF f, h
  <2>5. f = h
    BY <2>2, <2>3, <2>4
  <2> QED
    BY <2>5 DEF h
<1> QED
  <2> HIDE DEF f
  <2> QED
    BY <1>2, <1>5 DEF SumsUp

\* A sum does not depend on the set it is taken in.
LEMMA TotalSums ==
  ASSUME NEW w, NEW S, IsFiniteSet(S), NEW T \in SUBSET S, NEW g, SumsUp(g, w, S)
  PROVE  Total(w, T) = g[T]
<1>1. IsFiniteSet(T)
  BY FS_Subset
<1> DEFINE h == CHOOSE f : SumsUp(f, w, T)
<1>2. SumsUp(h, w, T)
  BY <1>1, SumsExist
<1>3. Total(w, T) = h[T]
  BY TotalIs
<1> HIDE DEF h
<1> QED
  BY <1>1, <1>2, <1>3, SumsAgree

\* The empty sum.
LEMMA TotalEmpty == ASSUME NEW w PROVE Total(w, {}) = 0
<1>1. IsFiniteSet({})
  BY FS_EmptySet
<1>2. PICK g : SumsUp(g, w, {})
  BY <1>1, SumsExist
<1>3. g[{}] = 0
  BY <1>2 DEF SumsUp
<1> QED
  BY <1>1, <1>2, <1>3, TotalSums

\* A sum is its first amount and the rest.
LEMMA TotalPick ==
  ASSUME NEW w, NEW S, IsFiniteSet(S), S # {}
  PROVE  Total(w, S) = w[Pick(S)] + Total(w, S \ {Pick(S)})
<1>1. PICK g : SumsUp(g, w, S)
  BY SumsExist
<1>2. g[S] = w[Pick(S)] + g[S \ {Pick(S)}]
  BY <1>1 DEF SumsUp
<1>3. Total(w, S) = g[S] /\ Total(w, S \ {Pick(S)}) = g[S \ {Pick(S)}]
  BY <1>1, TotalSums
<1> QED
  BY <1>2, <1>3

Amounts(w, S) == \A x \in S : w[x] \in Int

\* Sums of integers are integers, and of natural numbers natural.
LEMMA TotalType ==
  ASSUME NEW w, NEW S, IsFiniteSet(S), Amounts(w, S)
  PROVE  Total(w, S) \in Int
<1> DEFINE B == {T \in SUBSET S : Total(w, T) \notin Int}
<1> SUFFICES ASSUME B # {} PROVE FALSE
  OBVIOUS
<1>1. PICK T \in B : \A U \in B : U \subseteq T => U = T
  <2>1. B \subseteq SUBSET S
    OBVIOUS
  <2> HIDE DEF B
  <2> QED
    BY <2>1, Smallest
<1>2. IsFiniteSet(T) /\ T \in SUBSET S /\ Total(w, T) \notin Int
  BY FS_Subset
<1>3. T # {}
  BY <1>2, TotalEmpty
<1>4. Pick(T) \in T
  BY <1>3, PickIsIn
<1>5. Total(w, T \ {Pick(T)}) \in Int
  BY <1>1, <1>2, <1>4
<1>6. w[Pick(T)] \in Int
  BY <1>2, <1>4 DEF Amounts
<1>7. Total(w, T) = w[Pick(T)] + Total(w, T \ {Pick(T)})
  BY <1>2, <1>3, TotalPick
<1> QED
  BY <1>2, <1>5, <1>6, <1>7

\* The order of summation does not matter.
LEMMA TotalRemove ==
  ASSUME NEW w, NEW S, IsFiniteSet(S), Amounts(w, S), NEW x \in S
  PROVE  Total(w, S) = w[x] + Total(w, S \ {x})
<1> DEFINE Fails(T) == \E y \in T : Total(w, T) # w[y] + Total(w, T \ {y})
           B == {T \in SUBSET S : Fails(T)}
<1> SUFFICES ASSUME B # {} PROVE FALSE
  <2>1. S \in SUBSET S
    OBVIOUS
  <2> QED
    BY <2>1
<1>1. PICK T \in B : \A U \in B : U \subseteq T => U = T
  <2>1. B \subseteq SUBSET S
    OBVIOUS
  <2> HIDE DEF B
  <2> QED
    BY <2>1, Smallest
<1>2. IsFiniteSet(T) /\ T \in SUBSET S
  BY FS_Subset
<1>3. PICK y \in T : Total(w, T) # w[y] + Total(w, T \ {y})
  OBVIOUS
<1> DEFINE p == Pick(T)
<1>4. p \in T /\ Total(w, T) = w[p] + Total(w, T \ {p})
  BY <1>2, <1>3, TotalPick, PickIsIn
<1> HIDE DEF p
<1>5. p # y
  BY <1>3, <1>4
<1>6. Total(w, T \ {p}) = w[y] + Total(w, (T \ {p}) \ {y})
  <2>1. T \ {p} \subseteq T /\ T \ {p} # T /\ T \ {p} \in SUBSET S /\ y \in T \ {p}
    BY <1>2, <1>3, <1>4, <1>5
  <2>2. T \ {p} \notin B
    BY <1>1, <2>1
  <2> QED
    BY <2>1, <2>2
<1>7. Total(w, T \ {y}) = w[p] + Total(w, (T \ {y}) \ {p})
  <2>1. T \ {y} \subseteq T /\ T \ {y} # T /\ T \ {y} \in SUBSET S /\ p \in T \ {y}
    BY <1>2, <1>3, <1>4, <1>5
  <2>2. T \ {y} \notin B
    BY <1>1, <2>1
  <2> QED
    BY <2>1, <2>2
<1>8. (T \ {p}) \ {y} = (T \ {y}) \ {p}
  OBVIOUS
<1>9. Total(w, (T \ {p}) \ {y}) \in Int
  <2>1. (T \ {p}) \ {y} \subseteq S /\ (T \ {p}) \ {y} \subseteq T
    BY <1>2
  <2>2. IsFiniteSet((T \ {p}) \ {y}) /\ Amounts(w, (T \ {p}) \ {y})
    BY <1>2, <2>1, FS_Subset DEF Amounts
  <2> QED
    BY <2>2, TotalType
<1>10. w[p] \in Int /\ w[y] \in Int
  BY <1>2, <1>3, <1>4 DEF Amounts
<1> QED
  BY <1>3, <1>4, <1>6, <1>7, <1>8, <1>9, <1>10

\* One element more.
LEMMA TotalAdd ==
  ASSUME NEW w, NEW S, IsFiniteSet(S), NEW x, x \notin S, Amounts(w, S \cup {x})
  PROVE  Total(w, S \cup {x}) = Total(w, S) + w[x]
<1>1. IsFiniteSet(S \cup {x}) /\ (S \cup {x}) \ {x} = S
  BY FS_AddElement
<1>2. Total(w, S \cup {x}) = w[x] + Total(w, S)
  BY <1>1, TotalRemove
<1>3. Amounts(w, S) /\ w[x] \in Int
  BY DEF Amounts
<1>4. Total(w, S) \in Int
  BY <1>3, TotalType
<1> QED
  BY <1>2, <1>3, <1>4

\* Sums over disjoint sets add up.
LEMMA TotalDisjoint ==
  ASSUME NEW w, NEW S, NEW R, IsFiniteSet(S), IsFiniteSet(R), S \cap R = {},
         Amounts(w, S \cup R)
  PROVE  Total(w, S \cup R) = Total(w, S) + Total(w, R)
<1> DEFINE B == {T \in SUBSET R : Total(w, S \cup T) # Total(w, S) + Total(w, T)}
<1> SUFFICES ASSUME B # {} PROVE FALSE
  OBVIOUS
<1>1. PICK T \in B : \A U \in B : U \subseteq T => U = T
  <2>1. B \subseteq SUBSET R
    OBVIOUS
  <2> HIDE DEF B
  <2> QED
    BY <2>1, Smallest
<1>2. /\ T \in SUBSET R /\ IsFiniteSet(T) /\ IsFiniteSet(S \cup T)
      /\ Amounts(w, S) /\ Amounts(w, T) /\ Amounts(w, S \cup T)
      /\ Total(w, S \cup T) # Total(w, S) + Total(w, T)
  BY FS_Subset, FS_Union DEF Amounts
<1>3. Total(w, S) \in Int
  BY <1>2, TotalType
<1>4. CASE T = {}
  <2>1. S \cup T = S
    BY <1>4
  <2> QED
    BY <1>2, <1>3, <1>4, <2>1, TotalEmpty
<1>5. CASE T # {}
  <2>1. PICK x \in T : TRUE
    BY <1>5
  <2> DEFINE V == T \ {x}
  <2>2. V \in SUBSET R /\ V \subseteq T /\ V # T /\ (S \cup T) \ {x} = S \cup V
    BY <1>2, <2>1
  <2>3. Total(w, S \cup V) = Total(w, S) + Total(w, V)
    BY <1>1, <2>2
  <2>4. Total(w, S \cup T) = w[x] + Total(w, S \cup V)
    BY <1>2, <2>1, <2>2, TotalRemove
  <2>5. Total(w, T) = w[x] + Total(w, V)
    BY <1>2, <2>1, TotalRemove
  <2>6. IsFiniteSet(V) /\ Amounts(w, V) /\ w[x] \in Int
    BY <1>2, <2>1, FS_Subset DEF Amounts
  <2>7. Total(w, V) \in Int
    BY <2>6, TotalType
  <2> HIDE DEF V
  <2> QED
    BY <1>2, <1>3, <2>3, <2>4, <2>5, <2>6, <2>7
<1> QED
  BY <1>4, <1>5

\* Sums of natural numbers are natural numbers.
LEMMA TotalNat ==
  ASSUME NEW w, NEW S, IsFiniteSet(S), \A x \in S : w[x] \in Nat
  PROVE  Total(w, S) \in Nat
<1> DEFINE B == {T \in SUBSET S : Total(w, T) \notin Nat}
<1> SUFFICES ASSUME B # {} PROVE FALSE
  OBVIOUS
<1>1. PICK T \in B : \A U \in B : U \subseteq T => U = T
  <2>1. B \subseteq SUBSET S
    OBVIOUS
  <2> HIDE DEF B
  <2> QED
    BY <2>1, Smallest
<1>2. IsFiniteSet(T) /\ T \in SUBSET S /\ Total(w, T) \notin Nat
  BY FS_Subset
<1>3. T # {}
  BY <1>2, TotalEmpty
<1>4. Pick(T) \in T
  BY <1>3, PickIsIn
<1>5. Total(w, T \ {Pick(T)}) \in Nat
  BY <1>1, <1>2, <1>4
<1>6. Total(w, T) = w[Pick(T)] + Total(w, T \ {Pick(T)})
  BY <1>2, <1>3, TotalPick
<1> QED
  BY <1>2, <1>4, <1>5, <1>6

\* More summands, no smaller sum.
LEMMA TotalGrows ==
  ASSUME NEW w, NEW S, NEW R, IsFiniteSet(R), S \subseteq R, \A x \in R : w[x] \in Nat
  PROVE  Total(w, S) \in Nat /\ Total(w, R) \in Nat /\ Total(w, S) <= Total(w, R)
<1>1. IsFiniteSet(S) /\ IsFiniteSet(R \ S) /\ S \cap (R \ S) = {} /\ S \cup (R \ S) = R
  BY FS_Subset
<1>2. Total(w, S) \in Nat /\ Total(w, R \ S) \in Nat /\ Total(w, R) \in Nat
  BY <1>1, TotalNat
<1>3. Total(w, R) = Total(w, S) + Total(w, R \ S)
  <2>1. Amounts(w, S \cup (R \ S))
    BY DEF Amounts
  <2> QED
    BY <1>1, <2>1, TotalDisjoint
<1> QED
  BY <1>2, <1>3

\* Only the amounts of the summands count.
LEMMA TotalSame ==
  ASSUME NEW w, NEW v, NEW S, IsFiniteSet(S), \A x \in S : w[x] = v[x]
  PROVE  Total(w, S) = Total(v, S)
<1> DEFINE B == {T \in SUBSET S : Total(w, T) # Total(v, T)}
<1> SUFFICES ASSUME B # {} PROVE FALSE
  OBVIOUS
<1>1. PICK T \in B : \A U \in B : U \subseteq T => U = T
  <2>1. B \subseteq SUBSET S
    OBVIOUS
  <2> HIDE DEF B
  <2> QED
    BY <2>1, Smallest
<1>2. IsFiniteSet(T) /\ T \in SUBSET S /\ Total(w, T) # Total(v, T)
  BY FS_Subset
<1>3. T # {}
  BY <1>2, TotalEmpty
<1>4. Pick(T) \in T
  BY <1>3, PickIsIn
<1>5. Total(w, T \ {Pick(T)}) = Total(v, T \ {Pick(T)})
  BY <1>1, <1>2, <1>4
<1>6. /\ Total(w, T) = w[Pick(T)] + Total(w, T \ {Pick(T)})
      /\ Total(v, T) = v[Pick(T)] + Total(v, T \ {Pick(T)})
  BY <1>2, <1>3, TotalPick
<1> QED
  BY <1>2, <1>4, <1>5, <1>6

\* One amount changes: so does the sum, by as much.
LEMMA TotalChange ==
  ASSUME NEW w, NEW v, NEW S, IsFiniteSet(S), Amounts(w, S), Amounts(v, S), NEW x \in S,
         \A y \in S \ {x} : w[y] = v[y]
  PROVE  Total(v, S) = Total(w, S) - w[x] + v[x]
<1>1. IsFiniteSet(S \ {x}) /\ Amounts(w, S \ {x})
  BY FS_Subset DEF Amounts
<1>2. Total(v, S \ {x}) = Total(w, S \ {x})
  BY <1>1, TotalSame
<1>3. /\ Total(w, S) = w[x] + Total(w, S \ {x})
      /\ Total(v, S) = v[x] + Total(v, S \ {x})
  BY TotalRemove
<1>4. Total(w, S \ {x}) \in Int /\ w[x] \in Int /\ v[x] \in Int
  BY <1>1, TotalType DEF Amounts
<1> QED
  BY <1>2, <1>3, <1>4

-----------------------------------------------------------------------------
(* The sums of LiveLimits. *)

Costs == [i \in Ids |-> journal[i].quantity * Price]
Values == [s \in Symbols |-> held[s] * Price]

CostIs == \A I \in SUBSET Ids : IsFiniteSet(I) => Cost(I) = Total(Costs, I)
WorthIs == \A b \in Brokers : Worth(b) = Total(Values, SymbolsOf(b))

\* The cost of orders and the worth of holdings are such sums.
LEMMA CostIsTotal == CostIs
<1> SUFFICES ASSUME NEW I \in SUBSET Ids, IsFiniteSet(I)
             PROVE  Cost(I) = Total(Costs, I)
  BY DEF CostIs
<1> DEFINE Sums(g) == g = [T \in SUBSET I |-> IF T = {} THEN 0
                        ELSE journal[Pick(T)].quantity * Price + g[T \ {Pick(T)}]]
<1>1. Cost(I) = (CHOOSE g : Sums(g))[I]
  BY DEF Cost, MapThenSumSet, MapThenFoldSet, Pick
<1>2. ASSUME NEW g PROVE Sums(g) <=> SumsUp(g, Costs, I)
  <2> DEFINE a == [T \in SUBSET I |-> IF T = {} THEN 0
                        ELSE journal[Pick(T)].quantity * Price + g[T \ {Pick(T)}]]
             b == [T \in SUBSET I |-> IF T = {} THEN 0 ELSE Costs[Pick(T)] + g[T \ {Pick(T)}]]
  <2>1. \A T \in SUBSET I : a[T] = b[T]
    <3>1. \A T \in SUBSET I : T # {} => Costs[Pick(T)] = journal[Pick(T)].quantity * Price
      BY PickIsIn DEF Costs
    <3> QED
      BY <3>1
  <2>2. a = [T \in SUBSET I |-> a[T]] /\ b = [T \in SUBSET I |-> b[T]]
    OBVIOUS
  <2>3. a = b
    <3> HIDE DEF a, b
    <3> QED
      BY <2>1, <2>2
  <2> QED
    BY <2>3 DEF SumsUp
<1>3. Sums(CHOOSE g : Sums(g))
  <2>1. \E g : Sums(g)
    <3> HIDE DEF Sums
    <3> QED
      BY <1>2, SumsExist
  <2> HIDE DEF Sums
  <2> QED
    BY <2>1
<1> HIDE DEF Sums
<1> QED
  BY <1>1, <1>2, <1>3, TotalSums

\* What the holdings with a broker are worth is such a sum.
LEMMA WorthIsTotal == WorthIs
<1> SUFFICES ASSUME NEW b \in Brokers
             PROVE  Worth(b) = Total(Values, SymbolsOf(b))
  BY DEF WorthIs
<1> DEFINE S == SymbolsOf(b)
           Sums(g) == g = [T \in SUBSET S |-> IF T = {} THEN 0
                        ELSE held[Pick(T)] * Price + g[T \ {Pick(T)}]]
<1>0. S \subseteq Symbols /\ IsFiniteSet(S)
  BY DEF SymbolsOf, Symbols
<1>1. Worth(b) = (CHOOSE g : Sums(g))[S]
  BY DEF Worth, MapThenSumSet, MapThenFoldSet, Pick
<1> HIDE DEF S
<1>2. ASSUME NEW g PROVE Sums(g) <=> SumsUp(g, Values, S)
  <2> DEFINE a == [T \in SUBSET S |-> IF T = {} THEN 0
                        ELSE held[Pick(T)] * Price + g[T \ {Pick(T)}]]
             c == [T \in SUBSET S |-> IF T = {} THEN 0 ELSE Values[Pick(T)] + g[T \ {Pick(T)}]]
  <2>1. \A T \in SUBSET S : a[T] = c[T]
    <3>1. \A T \in SUBSET S : T # {} => Values[Pick(T)] = held[Pick(T)] * Price
      BY <1>0, PickIsIn DEF Values
    <3> QED
      BY <3>1
  <2>2. a = [T \in SUBSET S |-> a[T]] /\ c = [T \in SUBSET S |-> c[T]]
    OBVIOUS
  <2>3. a = c
    <3> HIDE DEF a, c
    <3> QED
      BY <2>1, <2>2
  <2> QED
    BY <2>3 DEF SumsUp
<1>3. Sums(CHOOSE g : Sums(g))
  <2>1. \E g : Sums(g)
    <3> HIDE DEF Sums
    <3> QED
      BY <1>0, <1>2, SumsExist
  <2> HIDE DEF Sums
  <2> QED
    BY <2>1
<1> HIDE DEF Sums
<1> QED
  BY <1>0, <1>1, <1>2, <1>3, TotalSums DEF S

At(I, b) == {i \in I : BrokerOf(journal[i].symbol) = b}
In(I, s) == {i \in I : journal[i].symbol = s}

CostFacts ==
    /\ \A I \in SUBSET Ids : Cost(I) \in Nat
    /\ \A I, J \in SUBSET Ids : I \subseteq J => Cost(I) <= Cost(J)
    /\ \A I, J \in SUBSET Ids : I \cap J = {} => Cost(I \cup J) = Cost(I) + Cost(J)
    /\ \A i \in Ids : journal[i].quantity * Price \in Nat /\ Cost({i}) = journal[i].quantity * Price
    /\ Cost({}) = 0

\* Costs are natural, grow with the set of orders and add up.
LEMMA CostsAdd == OpenTypes => CostFacts
<1> SUFFICES ASSUME OpenTypes PROVE CostFacts
  OBVIOUS
<1>1. IsFiniteSet(Ids) /\ \A i \in Ids : journal[i].quantity \in Nat
  <2>1. Ids = 1..Len(journal) /\ Len(journal) \in Nat
    BY PositionsAreSymbols DEF OpenTypes, Types
  <2>2. IsFiniteSet(Ids)
    BY <2>1, FS_Interval
  <2>3. \A i \in Ids : journal[i] \in Records
    BY PositionsAreSymbols
  <2> QED
    BY <2>2, <2>3 DEF Records
<1>2. \A i \in Ids : Costs[i] = journal[i].quantity * Price /\ Costs[i] \in Nat
  BY <1>1 DEF Costs
<1>3. \A I \in SUBSET Ids : IsFiniteSet(I) /\ Cost(I) = Total(Costs, I) /\ Amounts(Costs, I)
  BY <1>1, <1>2, FS_Subset, CostIsTotal DEF CostIs, Amounts
<1>4. \A I \in SUBSET Ids : Cost(I) \in Nat
  BY <1>2, <1>3, TotalNat
<1>5. ASSUME NEW I \in SUBSET Ids, NEW J \in SUBSET Ids, I \subseteq J
      PROVE  Cost(I) <= Cost(J)
  BY <1>2, <1>3, <1>5, TotalGrows
<1>6. ASSUME NEW I \in SUBSET Ids, NEW J \in SUBSET Ids, I \cap J = {}
      PROVE  Cost(I \cup J) = Cost(I) + Cost(J)
  <2>1. I \cup J \in SUBSET Ids
    OBVIOUS
  <2> QED
    BY <1>3, <1>6, <2>1, TotalDisjoint
<1>7. Cost({}) = 0
  BY <1>3, TotalEmpty
<1>8. ASSUME NEW i \in Ids PROVE Cost({i}) = journal[i].quantity * Price
  <2>1. {} \cup {i} = {i} /\ IsFiniteSet({}) /\ {i} \in SUBSET Ids
    BY FS_EmptySet
  <2>2. Total(Costs, {i}) = Total(Costs, {}) + Costs[i]
    BY <1>3, <2>1, TotalAdd
  <2> QED
    BY <1>2, <1>3, <2>1, <2>2, TotalEmpty
<1> QED
  BY <1>2, <1>4, <1>5, <1>6, <1>7, <1>8 DEF CostFacts

\* Orders that are known before and after a step cost the same.
LEMMA CostKept ==
  ASSUME OpenTypes, NEW I \in SUBSET Ids, I \subseteq Ids',
         \A i \in I : journal'[i].quantity = journal[i].quantity
  PROVE  Cost(I)' = Cost(I)
<1>1. IsFiniteSet(Ids)
  <2>1. Ids = 1..Len(journal) /\ Len(journal) \in Nat
    BY PositionsAreSymbols DEF OpenTypes, Types
  <2> QED
    BY <2>1, FS_Interval
<1>2. IsFiniteSet(I)
  BY <1>1, FS_Subset
<1>3. CostIs'
  BY CostIsTotal, PTL
<1>4. Cost(I)' = Total(Costs', I) /\ Cost(I) = Total(Costs, I)
  BY <1>2, <1>3, CostIsTotal DEF CostIs
<1>5. \A i \in I : Costs'[i] = Costs[i]
  BY DEF Costs
<1> DEFINE C == Costs
           D == Costs'
<1>6. Total(D, I) = Total(C, I)
  <2>1. \A i \in I : D[i] = C[i]
    BY <1>5
  <2> HIDE DEF C, D
  <2> QED
    BY <1>2, <2>1, TotalSame
<1> QED
  BY <1>4, <1>6

\* The value of a holding.
LEMMA WorthFacts ==
  ASSUME NEW b \in Brokers, held \in [Symbols -> Int]
  PROVE  /\ Worth(b) \in Int
         /\ held' = held => Worth(b)' = Worth(b)
         /\ \A s \in SymbolsOf(b), n \in Int :
              held' = [held EXCEPT ![s] = n] => Worth(b)' = Worth(b) - held[s] * Price + n * Price
         /\ \A s \in Symbols, n \in Int :
              held' = [held EXCEPT ![s] = n] /\ s \notin SymbolsOf(b) => Worth(b)' = Worth(b)
<1> DEFINE S == SymbolsOf(b)
<1>1. IsFiniteSet(S) /\ S \subseteq Symbols
  BY DEF SymbolsOf, Symbols
<1>2. WorthIs'
  BY WorthIsTotal, PTL
<1>3. Worth(b) = Total(Values, S) /\ Worth(b)' = Total(Values', S)
  BY <1>2, WorthIsTotal DEF WorthIs, SymbolsOf
<1>4. Amounts(Values, S)
  BY <1>1 DEF Amounts, Values
<1> DEFINE V == Values
           W == Values'
<1>5. ASSUME NEW s \in Symbols, NEW n \in Int, held' = [held EXCEPT ![s] = n]
      PROVE  /\ Amounts(W, S) /\ W[s] = n * Price /\ V[s] = held[s] * Price
             /\ \A r \in S \ {s} : V[r] = W[r]
  BY <1>1, <1>5 DEF Amounts, Values
<1>6. held' = held => V = W
  BY DEF Values
<1> HIDE DEF S, V, W
<1>7. ASSUME NEW s \in S, NEW n \in Int, held' = [held EXCEPT ![s] = n]
      PROVE  Total(W, S) = Total(V, S) - held[s] * Price + n * Price
  <2>1. s \in Symbols /\ Amounts(V, S)
    BY <1>1, <1>4 DEF V
  <2>2. Amounts(W, S) /\ \A r \in S \ {s} : V[r] = W[r]
    BY <1>5, <1>7, <2>1
  <2>3. Total(W, S) = Total(V, S) - V[s] + W[s]
    BY <1>1, <1>7, <2>1, <2>2, TotalChange
  <2> QED
    BY <1>5, <1>7, <2>1, <2>3
<1>8. ASSUME NEW s \in Symbols, NEW n \in Int, held' = [held EXCEPT ![s] = n], s \notin S
      PROVE  Total(W, S) = Total(V, S)
  <2>1. \A r \in S : V[r] = W[r]
    BY <1>5, <1>8
  <2> QED
    BY <1>1, <2>1, TotalSame
<1>9. Total(V, S) \in Int
  BY <1>1, <1>4, TotalType DEF V
<1> QED
  BY <1>3, <1>6, <1>7, <1>8, <1>9 DEF V, W, S

-----------------------------------------------------------------------------
(* The money of the accounts. *)

OpenBuys == {i \in Ids : journal[i].side = "BUY" /\ order[i] = "open"}

\* The cash that no BUY on its way spends, and a position with what is on its way.
Free(b) == cash[b] - Cost(At(LiveBuys, b))
Exposed(s) == held[s] * Price + Cost(In(LiveBuys, s))

\* The account of the order that is judged; what it gained since it was read.
Account == BrokerOf(request.symbol)
Lag == Equity(Account) - snap.equity
Counting == pc \in {"countUpbit", "countHoldings", "countPower"}

AccountTypes ==
    /\ cash \in [Brokers -> Int] /\ locked \in [Brokers -> Int]
    /\ snap.cash \in Int /\ snap.equity \in Int /\ snap.value \in Int
    /\ pc = "balances" => request.symbol \in Coins
    /\ pc \in {"holdings", "power"} => request.symbol \notin Coins

LocksKnown == \A b \in Brokers : locked[b] = Cost(At(OpenBuys, b))

LateIsClosed == Collecting => \A i \in late : order[i] = "closed"

\* What has been read is no more than the account was worth, but for the BUYs
\* that filled since and are still pending.
HoldingsRead == pc = "power" =>
    \/ torn
    \/ /\ 0 <= Worth("toss") - snap.equity
       /\ Worth("toss") - snap.equity <= Cost(At(late, "toss"))

CashRead == pc = "quotes" =>
    \/ torn
    \/ 0 <= Lag /\ snap.cash + Lag <= cash[Account] + Cost(At(late, Account))

PositionRead == pc \in {"power", "quotes"} =>
    held[request.symbol] * Price <= snap.quantity * Price + Cost(In(late, request.symbol))

\* The free cash is no more, and the position no less, than they are now.
CashFree == Counting =>
    /\ snap.equity > 0
    /\ \/ torn \/ missed # {}
       \/ 0 <= Lag /\ (snap.cash <= 0 \/ snap.cash + Lag <= Free(Account))

ValueCovers == Counting => missed # {} \/ Exposed(request.symbol) <= snap.value

AccountInv ==
    /\ AccountTypes /\ LocksKnown /\ LateIsClosed
    /\ HoldingsRead /\ CashRead /\ PositionRead /\ CashFree /\ ValueCovers

\* Every amount of money is an integer.
LEMMA AmountsAreInts ==
  ASSUME OpenTypes, AccountTypes
  PROVE  /\ \A b \in Brokers : Worth(b) \in Int /\ Equity(b) \in Int /\ Free(b) \in Int
         /\ \A s \in Symbols : Exposed(s) \in Int
         /\ LiveBuys \in SUBSET Ids /\ OpenBuys \in SUBSET Ids /\ OpenBuys \subseteq LiveBuys
         /\ \A I \in SUBSET Ids : /\ \A b \in Brokers : At(I, b) \in SUBSET Ids
                                  /\ \A s \in Symbols : In(I, s) \in SUBSET Ids
<1>1. LiveBuys \in SUBSET Ids /\ OpenBuys \in SUBSET Ids /\ OpenBuys \subseteq LiveBuys
  BY DEF LiveBuys, OpenBuys
<1>2. \A I \in SUBSET Ids : /\ \A b \in Brokers : At(I, b) \in SUBSET Ids
                            /\ \A s \in Symbols : In(I, s) \in SUBSET Ids
  BY DEF At, In
<1>3. \A b \in Brokers : Worth(b) \in Int
  BY WorthFacts DEF OpenTypes
<1>4. CostFacts
  BY CostsAdd
<1>5. ASSUME NEW b \in Brokers PROVE Free(b) \in Int
  <2>1. Cost(At(LiveBuys, b)) \in Nat
    BY <1>1, <1>2, <1>4 DEF CostFacts
  <2> QED
    BY <2>1 DEF Free, AccountTypes
<1>6. ASSUME NEW s \in Symbols PROVE Exposed(s) \in Int
  <2>1. Cost(In(LiveBuys, s)) \in Nat
    BY <1>1, <1>2, <1>4 DEF CostFacts
  <2>2. held[s] \in Int
    BY DEF OpenTypes
  <2> QED
    BY <2>1, <2>2 DEF Exposed
<1> QED
  BY <1>1, <1>2, <1>3, <1>5, <1>6 DEF Equity, AccountTypes

\* A record keeps its symbol, side and size.
KeepsRecords ==
    /\ Ids \subseteq Ids'
    /\ \A j \in Ids : /\ journal'[j].symbol = journal[j].symbol
                      /\ journal'[j].side = journal[j].side
                      /\ journal'[j].quantity = journal[j].quantity

\* What orders cost, and to which account and symbol they belong, does not change.
LEMMA RecordsKept ==
  ASSUME OpenTypes, KeepsRecords, NEW I \in SUBSET Ids
  PROVE  /\ Cost(I)' = Cost(I)
         /\ \A b \in Brokers : At(I, b)' = At(I, b)
         /\ \A s \in Symbols : In(I, s)' = In(I, s)
<1>1. Cost(I)' = Cost(I)
  BY CostKept DEF KeepsRecords
<1>2. \A b \in Brokers : At(I, b)' = At(I, b)
  BY DEF At, KeepsRecords
<1>3. \A s \in Symbols : In(I, s)' = In(I, s)
  BY DEF In, KeepsRecords
<1> QED
  BY <1>1, <1>2, <1>3

\* Less cash is spoken for and less is on its way to the account than before.
Relieved ==
    /\ \A b \in Brokers : Equity(b)' = Equity(b) /\ Free(b)' >= Free(b)
    /\ \A s \in Symbols : Exposed(s)' <= Exposed(s)

\* Fewer BUYs are on their way, and the accounts are left alone.
LEMMA FewerBuys ==
  ASSUME OpenTypes, AccountTypes, KeepsRecords, UNCHANGED <<cash, held>>,
         LiveBuys' \subseteq LiveBuys
  PROVE  Relieved
<1>1. CostFacts /\ LiveBuys \in SUBSET Ids
  BY CostsAdd, AmountsAreInts
<1>2. PICK L \in SUBSET Ids : L = LiveBuys' /\ L \subseteq LiveBuys
  BY <1>1
<1>3. ASSUME NEW b \in Brokers PROVE Equity(b)' = Equity(b) /\ Free(b)' >= Free(b)
  <2>1. Equity(b)' = Equity(b)
    BY WorthFacts DEF Equity, OpenTypes
  <2>2. At(LiveBuys, b)' = At(L, b) /\ At(L, b) \in SUBSET Ids
    BY <1>2, RecordsKept DEF At, KeepsRecords
  <2>3. Cost(At(LiveBuys, b))' = Cost(At(L, b))
    BY <2>2, RecordsKept
  <2>4. At(L, b) \subseteq At(LiveBuys, b) /\ At(LiveBuys, b) \in SUBSET Ids
    BY <1>1, <1>2 DEF At
  <2>5. /\ Cost(At(L, b)) <= Cost(At(LiveBuys, b))
        /\ Cost(At(L, b)) \in Nat /\ Cost(At(LiveBuys, b)) \in Nat
    BY <1>1, <2>2, <2>4 DEF CostFacts
  <2> QED
    BY <2>1, <2>3, <2>5 DEF Free, AccountTypes
<1>4. ASSUME NEW s \in Symbols PROVE Exposed(s)' <= Exposed(s)
  <2>2. In(LiveBuys, s)' = In(L, s) /\ In(L, s) \in SUBSET Ids
    BY <1>2 DEF In, KeepsRecords
  <2>3. Cost(In(LiveBuys, s))' = Cost(In(L, s))
    BY <2>2, RecordsKept
  <2>4. In(L, s) \subseteq In(LiveBuys, s) /\ In(LiveBuys, s) \in SUBSET Ids
    BY <1>1, <1>2 DEF In
  <2>5. /\ Cost(In(L, s)) <= Cost(In(LiveBuys, s))
        /\ Cost(In(L, s)) \in Nat /\ Cost(In(LiveBuys, s)) \in Nat
    BY <1>1, <2>2, <2>4 DEF CostFacts
  <2>6. held[s] * Price \in Int
    BY DEF OpenTypes
  <2> QED
    BY <2>3, <2>5, <2>6 DEF Exposed
<1> QED
  BY <1>3, <1>4 DEF Relieved

-----------------------------------------------------------------------------
(* No step but the sending of an order takes cash or adds to a position. *)

\* All steps that send no order and are not the broker's.
Bookkeeping ==
    \/ Ask \/ ReadBalances \/ ReadHoldings \/ ReadPower \/ ReadQuotes
    \/ CountUpbit \/ CountHoldings \/ SnapshotFails
    \/ \E b \in Brokers : ReadPortfolio(b)
    \/ SymbolIsBusy \/ RiskBlocks \/ RiskAllows
    \/ PreflightRefused \/ Accepted \/ Refused \/ Ambiguous \/ Crash
    \/ \E i \in Ids : Reconcile(i)
    \/ NextDay \/ UNCHANGED vars

\* A status that is written changes nothing else in the records.
LEMMA StatusIsAll ==
  ASSUME OpenTypes, NEW k \in Ids, NEW st \in Statuses, SetStatus(k, st)
  PROVE  KeepsRecords /\ Ids' = Ids
  BY StatusChange DEF KeepsRecords, OpenTypes, Types

\* Such steps touch no account, and start and end no order at a broker.
LEMMA BooksKept ==
  ASSUME OpenInv, Bookkeeping
  PROVE  /\ KeepsRecords /\ UNCHANGED <<cash, locked, held>>
         /\ LiveBuys' = LiveBuys /\ OpenBuys' = OpenBuys
<1> USE DEF OpenInv
<1>0. UNCHANGED <<cash, locked, held>>
  BY DEF Bookkeeping, Ask, ReadBalances, ReadHoldings, ReadPower, ReadQuotes, CountUpbit,
     CountHoldings, SnapshotFails, ReadPortfolio, SymbolIsBusy, RiskBlocks, RiskAllows, Collected,
     PreflightRefused, Accepted, Refused, Ambiguous, Answered, Crash, Reconcile, NextDay, vars,
     broker, Working
<1>1. ASSUME KeepsRecords, Ids' = Ids, UNCHANGED order
      PROVE  LiveBuys' = LiveBuys /\ OpenBuys' = OpenBuys
  BY <1>1 DEF KeepsRecords, LiveBuys, OpenBuys
<1>2. ASSUME UNCHANGED <<journal, order>> PROVE KeepsRecords /\ Ids' = Ids
  BY <1>2 DEF KeepsRecords, Ids
<1>3. ASSUME NEW k \in Ids, NEW st \in Statuses, SetStatus(k, st)
      PROVE  KeepsRecords /\ Ids' = Ids
  BY <1>3, StatusIsAll
<1>4. Sending => Mine \in Ids
  BY DEF OpenTypes, Types, Mine, Ids
<1>5. CASE RiskBlocks \/ RiskAllows
  <2>1. PICK st \in {"CREATED", "REJECTED"}, n \in Nat : Create(st, n)
    <3>1. request.quantity \in Nat
      BY <1>5 DEF RiskBlocks, RiskAllows, Collected, OpenTypes, Types, Requests
    <3>2. \A n \in 1..request.quantity : n \in Nat
      BY <3>1
    <3> QED
      BY <1>5, <3>1, <3>2 DEF RiskBlocks, RiskAllows
  <2> DEFINE r == [status |-> st, symbol |-> request.symbol, side |-> request.side,
                   quantity |-> n, day |-> day]
  <2>2. journal' = Append(journal, r) /\ order' = Append(order, "none")
    BY <2>1 DEF Create
  <2> HIDE DEF r
  <2>3. /\ Ids = 1..Len(journal) /\ Ids' = 1..(Len(journal) + 1)
        /\ \A j \in Ids : journal'[j] = journal[j] /\ order'[j] = order[j]
        /\ order'[Len(journal) + 1] = "none"
    BY <2>2 DEF Ids, OpenTypes, Types, OrderStates
  <2>4. \A j \in Ids' : j \in Ids \/ j = Len(journal) + 1
    BY <2>3 DEF OpenTypes, Types
  <2>5. Ids \subseteq Ids'
    BY <2>3 DEF OpenTypes, Types
  <2>6. KeepsRecords
    BY <2>3, <2>5 DEF KeepsRecords
  <2>7. LiveBuys' = LiveBuys /\ OpenBuys' = OpenBuys
    BY <2>3, <2>4, <2>5 DEF LiveBuys, OpenBuys
  <2> QED
    BY <1>0, <2>6, <2>7
<1>6. CASE PreflightRefused \/ Accepted \/ Refused \/ Ambiguous
  <2>1. UNCHANGED order /\ Mine \in Ids
        /\ \E st \in Statuses : SetStatus(Mine, st)
    BY <1>4, <1>6 DEF PreflightRefused, Accepted, Refused, Ambiguous, Answered, Sending,
       Statuses, broker
  <2> QED
    BY <1>0, <1>1, <1>3, <2>1
<1>7. CASE Crash
  <2>1. UNCHANGED order
    BY <1>7 DEF Crash, broker
  <2>2. CASE journal' # journal
    <3>1. Mine \in Ids /\ (SetStatus(Mine, "PREFLIGHTED") \/ SetStatus(Mine, "SUBMITTING"))
      BY <1>4, <1>7, <2>2 DEF Crash, Sending, SetStatus
    <3>2. "PREFLIGHTED" \in Statuses /\ "SUBMITTING" \in Statuses
      BY DEF Statuses
    <3>3. KeepsRecords /\ Ids' = Ids
      BY <1>3, <3>1, <3>2
    <3> QED
      BY <1>0, <1>1, <2>1, <3>3
  <2> QED
    BY <1>0, <1>1, <1>2, <2>1, <2>2
<1>8. ASSUME NEW i \in Ids, Reconcile(i)
      PROVE  KeepsRecords /\ LiveBuys' = LiveBuys /\ OpenBuys' = OpenBuys
  <2>1. SetStatus(i, Reconciled(i)) /\ UNCHANGED order /\ Reconciled(i) \in Statuses
    BY <1>8 DEF Reconcile, Reconciled, IsUnresolved, Statuses, broker
  <2> QED
    BY <1>1, <1>3, <2>1
<1>9. CASE \/ Ask \/ ReadBalances \/ ReadHoldings \/ ReadPower \/ ReadQuotes
           \/ CountUpbit \/ CountHoldings \/ SnapshotFails
           \/ (\E b \in Brokers : ReadPortfolio(b)) \/ SymbolIsBusy \/ NextDay \/ UNCHANGED vars
  <2>1. UNCHANGED <<journal, order>>
    BY <1>9 DEF Ask, ReadBalances, ReadHoldings, ReadPower, ReadQuotes, CountUpbit,
       CountHoldings, SnapshotFails, ReadPortfolio, SymbolIsBusy, NextDay, vars, broker, Working
  <2> QED
    BY <1>0, <1>1, <1>2, <2>1
<1> QED
  BY <1>0, <1>5, <1>6, <1>7, <1>8, <1>9 DEF Bookkeeping

\* So they take nothing from the free cash and add nothing to a position.
LEMMA BooksRelieved ==
  ASSUME OpenInv, AccountTypes, Bookkeeping
  PROVE  Relieved
  BY BooksKept, FewerBuys DEF OpenInv

\* The brokers lock what the open BUYs cost; this is so after a step that opens none ...
LEMMA LocksKept ==
  ASSUME OpenTypes, LocksKnown, KeepsRecords, OpenBuys' = OpenBuys, UNCHANGED locked
  PROVE  LocksKnown'
<1> SUFFICES ASSUME NEW b \in Brokers PROVE locked'[b] = Cost(At(OpenBuys, b))'
  BY DEF LocksKnown
<1>1. PICK O \in SUBSET Ids : O = OpenBuys
  BY DEF OpenBuys
<1>2. At(OpenBuys, b)' = At(O, b) /\ At(O, b) \in SUBSET Ids
  BY <1>1 DEF At, KeepsRecords
<1>3. Cost(At(OpenBuys, b))' = Cost(At(O, b))
  BY <1>2, RecordsKept
<1> QED
  BY <1>1, <1>3 DEF LocksKnown

\* Money is a multiple of the price.
LEMMA Multiples ==
  ASSUME NEW x \in Int, NEW y \in Int
  PROVE  /\ x * Price \in Int /\ y * Price \in Int
         /\ (x + y) * Price = x * Price + y * Price
         /\ (x - y) * Price = x * Price - y * Price
         /\ x <= y => x * Price <= y * Price
<1>1. Price \in Nat
  OBVIOUS
<1>2. x <= y => x * Price <= y * Price
  <2> SUFFICES ASSUME x <= y PROVE x * Price <= y * Price
    OBVIOUS
  <2>1. PICK d \in Nat : y = x + d
    <3>1. y - x \in Nat /\ y = x + (y - x)
      OBVIOUS
    <3> QED
      BY <3>1
  <2>2. y * Price = x * Price + d * Price /\ d * Price \in Nat /\ x * Price \in Int
    BY <1>1, <2>1
  <2> QED
    BY <2>2
<1> QED
  BY <1>1, <1>2

\* What an order costs moves from cash to shares or back, and no more than was
\* set aside for it.
LEMMA FillRelieves ==
  ASSUME OpenInv, AccountTypes, NEW i \in Ids, NEW n \in 0..journal[i].quantity, BrokerCloses(i, n)
  PROVE  /\ Relieved /\ KeepsRecords /\ n \in Nat /\ journal[i].quantity \in Nat
         /\ n * Price \in Nat /\ journal[i].quantity * Price \in Nat
         /\ n * Price <= journal[i].quantity * Price
         /\ Cost({i}) = journal[i].quantity * Price
         /\ LiveBuys' = LiveBuys \ {i} /\ OpenBuys' = OpenBuys \ {i}
         /\ held' \in [Symbols -> Int] /\ cash' \in [Brokers -> Int] /\ locked' \in [Brokers -> Int]
<1> USE DEF OpenInv, OpenTypes
<1> DEFINE s == journal[i].symbol
           b == BrokerOf(s)
           q == journal[i].quantity
           buys == journal[i].side = "BUY"
           d == IF buys THEN n ELSE -n
<1>1. /\ s \in Symbols /\ b \in Brokers /\ s \in SymbolsOf(b) /\ q \in Nat /\ n \in Nat /\ d \in Int
      /\ journal[i].side \in {"BUY", "SELL"}
      /\ \A c \in Brokers : c # b => s \notin SymbolsOf(c)
  <2>1. journal[i] \in Records
    BY PositionsAreSymbols
  <2>2. s \in Symbols /\ q \in Nat /\ journal[i].side \in {"BUY", "SELL"}
    BY <2>1 DEF Records
  <2> QED
    BY <2>2 DEF BrokerOf, Brokers, SymbolsOf, Symbols
<1>2. /\ order[i] = "open" /\ order' = [order EXCEPT ![i] = "closed"] /\ UNCHANGED journal
      /\ held' = [held EXCEPT ![s] = IF buys THEN @ + n ELSE @ - n]
      /\ cash' = [cash EXCEPT ![b] = IF buys THEN @ - n * Price ELSE @ + n * Price]
      /\ locked' = [locked EXCEPT ![b] = IF buys THEN @ - q * Price ELSE @]
  BY DEF BrokerCloses
<1>3. /\ n * Price \in Nat /\ q * Price \in Nat /\ n * Price <= q * Price
      /\ d * Price = IF buys THEN n * Price ELSE -(n * Price)
  <2>1. n <= q /\ 0 <= n
    BY <1>1
  <2>2. n * Price <= q * Price /\ n * Price \in Int /\ q * Price \in Int
    <3>1. n \in Int /\ q \in Int
      BY <1>1
    <3> HIDE DEF q
    <3> QED
      BY <2>1, <3>1, Multiples
  <2>3. 0 * Price = 0 /\ 0 - n = -n /\ 0 \in Int /\ n \in Int
    BY <1>1
  <2>4. 0 * Price <= n * Price /\ (0 - n) * Price = 0 * Price - n * Price
    BY <2>1, <2>3, Multiples
  <2> QED
    BY <2>2, <2>3, <2>4
<1>4. CostFacts
  BY CostsAdd
<1>5. Cost({i}) = q * Price
  BY <1>4 DEF CostFacts
<1>6. held[s] \in Int /\ cash[b] \in Int /\ held' = [held EXCEPT ![s] = held[s] + d]
  <2>1. held[s] \in Int /\ cash[b] \in Int
    BY <1>1 DEF AccountTypes
  <2>2. held[s] + d = IF buys THEN held[s] + n ELSE held[s] - n
    BY <1>1, <2>1
  <2> HIDE DEF d
  <2> QED
    BY <1>2, <2>1, <2>2
<1>7. /\ held' \in [Symbols -> Int] /\ cash' \in [Brokers -> Int] /\ locked' \in [Brokers -> Int]
  <2>1. held' \in [Symbols -> Int]
    BY <1>1, <1>2
  <2> HIDE DEF s, b, q, d
  <2>2. cash[b] - n * Price \in Int /\ cash[b] + n * Price \in Int
    BY <1>3, <1>6
  <2>3. locked[b] - q * Price \in Int
    BY <1>1, <1>3 DEF AccountTypes
  <2>4. cash' \in [Brokers -> Int] /\ locked' \in [Brokers -> Int]
    BY <1>1, <1>2, <2>2, <2>3 DEF AccountTypes
  <2> QED
    BY <2>1, <2>4
<1>8. KeepsRecords /\ Ids' = Ids
  BY <1>2 DEF KeepsRecords, Ids
<1>9. LiveBuys' = LiveBuys \ {i} /\ OpenBuys' = OpenBuys \ {i} /\ (buys <=> i \in LiveBuys)
  BY <1>2, <1>8 DEF LiveBuys, OpenBuys, OrderStates, Types, Ids
<1>10. (held[s] + d) * Price = held[s] * Price + d * Price
  BY <1>1, <1>6, Multiples
<1>11. cash'[b] = cash[b] - d * Price
  BY <1>1, <1>2, <1>3, <1>6 DEF AccountTypes
<1>12. ASSUME NEW c \in Brokers, NEW I \in SUBSET Ids, I = LiveBuys
       PROVE  Equity(c)' = Equity(c) /\ Free(c)' >= Free(c)
  <2>1. /\ At(LiveBuys, c)' = At(I, c) \ {i} /\ At(I, c) \in SUBSET Ids
        /\ At(I, c) \ {i} \in SUBSET Ids
    BY <1>8, <1>9, <1>12 DEF At, KeepsRecords
  <2>2. Cost(At(LiveBuys, c))' = Cost(At(I, c) \ {i})
    BY <1>8, <2>1, RecordsKept
  <2>3. Cost(At(I, c) \ {i}) \in Nat /\ Cost(At(I, c)) \in Nat
        /\ Cost(At(I, c) \ {i}) <= Cost(At(I, c))
    BY <1>4, <2>1 DEF CostFacts
  <2>4. Worth(c) \in Int /\ cash[c] \in Int
    BY AmountsAreInts DEF AccountTypes
  <2>5. CASE c = b
    <3>1. Worth(c)' = Worth(c) - held[s] * Price + (held[s] + d) * Price
      <4>1. held[s] + d \in Int
        BY <1>1, <1>6
      <4> QED
        BY <1>1, <1>6, <2>5, <4>1, WorthFacts
    <3>2. Equity(c)' = Equity(c)
      <4>1. held[s] * Price \in Int /\ d * Price \in Int
        BY <1>1, <1>3, <1>6, Multiples
      <4> HIDE DEF d, s
      <4> QED
        BY <1>6, <1>10, <1>11, <2>4, <2>5, <3>1, <4>1 DEF Equity
    <3>3. CASE buys
      <4>1. i \in At(I, c)
        BY <1>9, <1>12, <2>5, <3>3 DEF At
      <4>2. Cost(At(I, c)) = Cost(At(I, c) \ {i}) + Cost({i})
        <5>1. At(I, c) = (At(I, c) \ {i}) \cup {i} /\ (At(I, c) \ {i}) \cap {i} = {}
              /\ {i} \in SUBSET Ids
          BY <4>1
        <5> QED
          BY <1>4, <2>1, <5>1 DEF CostFacts
      <4>3. Free(c)' = cash[c] - n * Price - (Cost(At(I, c)) - q * Price)
        BY <1>3, <1>5, <1>11, <2>2, <2>3, <2>4, <2>5, <3>3, <4>2 DEF Free
      <4> QED
        BY <1>3, <1>12, <2>3, <2>4, <3>2, <4>3 DEF Free
    <3>4. CASE ~buys
      <4>2. Free(c) = cash[c] - Cost(At(I, c))
        BY <1>12 DEF Free
      <4>3. Free(c)' = cash'[c] - Cost(At(I, c) \ {i})
        BY <2>2 DEF Free
      <4> HIDE DEF d, q, b
      <4>1. Free(c)' = cash[c] + n * Price - Cost(At(I, c) \ {i})
        BY <1>3, <1>11, <2>3, <2>4, <2>5, <3>4, <4>3
      <4> QED
        BY <1>3, <2>3, <2>4, <3>2, <4>1, <4>2
    <3> QED
      BY <3>3, <3>4
  <2>6. CASE c # b
    <3>1. Worth(c)' = Worth(c)
      <4>1. held[s] + d \in Int
        BY <1>1, <1>6
      <4> QED
        BY <1>1, <1>6, <2>6, <4>1, WorthFacts
    <3>2. cash'[c] = cash[c]
      BY <1>2, <2>6 DEF AccountTypes
    <3> QED
      BY <1>12, <2>2, <2>3, <2>4, <3>1, <3>2 DEF Equity, Free
  <2> QED
    BY <2>5, <2>6
<1>13. ASSUME NEW r \in Symbols, NEW I \in SUBSET Ids, I = LiveBuys
       PROVE  Exposed(r)' <= Exposed(r)
  <2>1. /\ In(LiveBuys, r)' = In(I, r) \ {i} /\ In(I, r) \in SUBSET Ids
        /\ In(I, r) \ {i} \in SUBSET Ids
    BY <1>8, <1>9, <1>13 DEF In, KeepsRecords
  <2>2. Cost(In(LiveBuys, r))' = Cost(In(I, r) \ {i})
    BY <1>8, <2>1, RecordsKept
  <2>3. Cost(In(I, r) \ {i}) \in Nat /\ Cost(In(I, r)) \in Nat
        /\ Cost(In(I, r) \ {i}) <= Cost(In(I, r))
    BY <1>4, <2>1 DEF CostFacts
  <2>4. held[r] * Price \in Int
    BY Multiples
  <2>5. CASE r = s
    <3>1. held'[r] * Price = held[r] * Price + d * Price
      BY <1>1, <1>6, <1>10, <2>5
    <3>2. CASE buys
      <4>1. i \in In(I, r)
        BY <1>9, <1>13, <2>5, <3>2 DEF In
      <4>2. Cost(In(I, r)) = Cost(In(I, r) \ {i}) + Cost({i})
        <5>1. In(I, r) = (In(I, r) \ {i}) \cup {i} /\ (In(I, r) \ {i}) \cap {i} = {}
              /\ {i} \in SUBSET Ids
          BY <4>1
        <5> QED
          BY <1>4, <2>1, <5>1 DEF CostFacts
      <4>3. Exposed(r)' = held[r] * Price + n * Price + (Cost(In(I, r)) - q * Price)
        BY <1>3, <1>5, <2>2, <2>3, <2>4, <3>1, <3>2, <4>2 DEF Exposed
      <4> QED
        BY <1>3, <1>13, <2>3, <2>4, <4>3 DEF Exposed
    <3>3. CASE ~buys
      BY <1>3, <1>13, <2>2, <2>3, <2>4, <3>1, <3>3 DEF Exposed
    <3> QED
      BY <3>2, <3>3
  <2>6. CASE r # s
    <3>1. held'[r] = held[r]
      BY <1>6, <2>6
    <3> QED
      BY <1>13, <2>2, <2>3, <2>4, <3>1 DEF Exposed
  <2> QED
    BY <2>5, <2>6
<1>14. Relieved
  BY <1>12, <1>13, AmountsAreInts DEF Relieved
<1> QED
  BY <1>1, <1>3, <1>5, <1>7, <1>8, <1>9, <1>14

\* ... and after one that opens or closes one.
LEMMA LocksFollow ==
  ASSUME OpenInv, AccountTypes, LocksKnown, NEW i \in Ids,
         \/ BrokerAccepts(i)
         \/ \E n \in 0..journal[i].quantity : BrokerCloses(i, n)
  PROVE  LocksKnown'
<1> USE DEF OpenInv, OpenTypes
<1> DEFINE b == BrokerOf(journal[i].symbol)
           buys == journal[i].side = "BUY"
           O == OpenBuys
<1>1. /\ b \in Brokers /\ O \in SUBSET Ids /\ {i} \in SUBSET Ids
      /\ UNCHANGED journal /\ KeepsRecords /\ Ids' = Ids
  BY DEF BrokerAccepts, BrokerCloses, KeepsRecords, Ids, OpenBuys, BrokerOf, Brokers
<1>2. CostFacts
  BY CostsAdd
<1>3. Cost({i}) = journal[i].quantity * Price /\ Cost({i}) \in Nat
  BY <1>1, <1>2 DEF CostFacts
<1>4. CASE ~buys
  <2>1. OpenBuys' = OpenBuys
    BY <1>1, <1>4 DEF BrokerAccepts, BrokerCloses, OpenBuys, Types, OrderStates, Ids
  <2>2. locked' = locked
    BY <1>4 DEF BrokerAccepts, BrokerCloses, AccountTypes
  <2> QED
    BY <1>1, <2>1, <2>2, LocksKept
<1>5. CASE BrokerAccepts(i) /\ buys
  <2>1. OpenBuys' = O \cup {i} /\ i \notin O
    BY <1>1, <1>5 DEF BrokerAccepts, OpenBuys, Types, OrderStates, Ids
  <2>2. locked' = [locked EXCEPT ![b] = locked[b] + Cost({i})]
    BY <1>3, <1>5 DEF BrokerAccepts
  <2>3. ASSUME NEW c \in Brokers, NEW B \in SUBSET Ids, B = At(O, c)
        PROVE  locked'[c] = Cost(At(OpenBuys, c))'
    <3>1. B \in SUBSET Ids /\ i \notin B
      BY <2>1, <2>3 DEF At
    <3>2. locked[c] = Cost(B)
      BY <2>3 DEF LocksKnown
    <3>3. At(OpenBuys, c)' = IF c = b THEN B \cup {i} ELSE B
      BY <1>1, <2>1, <2>3 DEF At
    <3>4. Cost(B \cup {i}) = Cost(B) + Cost({i})
      <4>1. B \cap {i} = {}
        BY <3>1
      <4> QED
        BY <1>1, <1>2, <3>1, <4>1 DEF CostFacts
    <3>5. /\ Cost(B)' = Cost(B) /\ Cost(B \cup {i})' = Cost(B \cup {i})
      <4>1. B \cup {i} \in SUBSET Ids
        BY <1>1, <3>1
      <4>2. \A I \in SUBSET Ids : Cost(I)' = Cost(I)
        BY <1>1, RecordsKept
      <4> QED
        BY <3>1, <4>1, <4>2
    <3>6. locked'[c] = IF c = b THEN locked[c] + Cost({i}) ELSE locked[c]
      BY <2>2 DEF AccountTypes
    <3> QED
      BY <3>2, <3>3, <3>4, <3>5, <3>6
  <2> QED
    BY <2>3, AmountsAreInts DEF LocksKnown
<1>6. ASSUME NEW n \in 0..journal[i].quantity, BrokerCloses(i, n), buys PROVE LocksKnown'
  <2>1. OpenBuys' = O \ {i} /\ i \in O
    BY <1>1, <1>6, FillRelieves DEF BrokerCloses, OpenBuys
  <2>2. locked' = [locked EXCEPT ![b] = locked[b] - Cost({i})]
    BY <1>3, <1>6 DEF BrokerCloses
  <2>3. ASSUME NEW c \in Brokers, NEW B \in SUBSET Ids, B = At(O, c)
        PROVE  locked'[c] = Cost(At(OpenBuys, c))'
    <3>1. B \in SUBSET Ids /\ (i \in B <=> c = b)
      BY <2>1, <2>3 DEF At
    <3>2. locked[c] = Cost(B)
      BY <2>3 DEF LocksKnown
    <3>3. At(OpenBuys, c)' = B \ {i}
      BY <1>1, <2>1, <2>3 DEF At
    <3>4. i \in B => Cost(B) = Cost(B \ {i}) + Cost({i})
      <4> SUFFICES ASSUME i \in B PROVE Cost(B) = Cost(B \ {i}) + Cost({i})
        OBVIOUS
      <4>1. B = (B \ {i}) \cup {i} /\ (B \ {i}) \cap {i} = {} /\ B \ {i} \in SUBSET Ids
        BY <3>1
      <4> QED
        BY <1>1, <1>2, <4>1 DEF CostFacts
    <3>5. i \notin B => B \ {i} = B
      OBVIOUS
    <3>6. B \ {i} \in SUBSET Ids /\ Cost(B \ {i}) \in Nat
      BY <1>2, <3>1 DEF CostFacts
    <3>7. Cost(B \ {i})' = Cost(B \ {i})
      BY <1>1, <3>6, RecordsKept
    <3>8. locked'[c] = IF c = b THEN locked[c] - Cost({i}) ELSE locked[c]
      BY <2>2 DEF AccountTypes
    <3>9. Cost(At(OpenBuys, c))' = Cost(B \ {i})
      BY <3>3, <3>7
    <3> HIDE DEF b
    <3>10. CASE c = b
      <4>1. Cost(B) = Cost(B \ {i}) + Cost({i})
        BY <3>1, <3>4, <3>10
      <4>2. locked'[c] = Cost(B) - Cost({i})
        BY <3>2, <3>8, <3>10
      <4> QED
        BY <1>3, <3>6, <3>9, <4>1, <4>2
    <3>11. CASE c # b
      BY <3>1, <3>2, <3>5, <3>8, <3>9, <3>11
    <3> QED
      BY <3>10, <3>11
  <2> QED
    BY <2>3, AmountsAreInts DEF LocksKnown
<1> QED
  BY <1>4, <1>5, <1>6

-----------------------------------------------------------------------------
(* AccountInv is inductive. *)

\* Nothing is being read.
LEMMA NothingRead ==
  ASSUME AccountTypes', LocksKnown', ~Collecting'
  PROVE  AccountInv'
  BY DEF AccountInv, LateIsClosed, HoldingsRead, CashRead, PositionRead, CashFree, ValueCovers,
     Collecting, Counting, Snapshots

\* The holder of the lock takes it, releases it or has judged its order.
LEMMA HolderAccount ==
  ASSUME OpenInv, AccountInv,
         \/ Ask \/ SnapshotFails \/ SymbolIsBusy \/ RiskBlocks \/ RiskAllows
         \/ PreflightRefused \/ PreflightPasses \/ Accepted \/ Refused \/ Ambiguous \/ Crash
  PROVE  AccountInv'
<1> USE DEF OpenInv, AccountInv
<1>1. ~Collecting'
  BY DEF Ask, SnapshotFails, SymbolIsBusy, RiskBlocks, RiskAllows, PreflightRefused,
     PreflightPasses, Accepted, Refused, Ambiguous, Crash, Answered, Leave, Collecting, Snapshots
<1>2. /\ UNCHANGED <<cash, locked>>
      /\ snap' = snap \/ snap' = NoSnapshot
      /\ pc' \in {"balances", "holdings"} => Ask
  BY DEF Ask, SnapshotFails, SymbolIsBusy, RiskBlocks, RiskAllows, PreflightRefused, Collected,
     PreflightPasses, Accepted, Refused, Ambiguous, Crash, Answered, Leave, broker
<1>3. Ask => /\ pc' = "balances" => request'.symbol \in Coins
             /\ pc' = "holdings" => request'.symbol \notin Coins
  BY DEF Ask
<1>4. pc' # "power"
  BY <1>1 DEF Collecting, Snapshots
<1>5. AccountTypes'
  BY <1>2, <1>3, <1>4 DEF AccountTypes, NoSnapshot
<1>6. KeepsRecords /\ OpenBuys' = OpenBuys
  <2>1. CASE PreflightPasses
    <3>1. Mine \in Ids /\ order[Mine] = "none"
      BY <2>1 DEF PreflightPasses, OpenTypes, Types, Sending, Mine, Ids, LiveIsPending
    <3>2. KeepsRecords /\ Ids' = Ids
      BY <2>1, <3>1, StatusIsAll DEF PreflightPasses, Statuses
    <3>3. /\ order' = [order EXCEPT ![Mine] = "coming"]
          /\ Ids = DOMAIN order
      BY <2>1 DEF PreflightPasses, OpenTypes, Types, Ids
    <3> QED
      BY <3>1, <3>2, <3>3 DEF OpenBuys, KeepsRecords
  <2>2. CASE ~PreflightPasses
    BY <2>2, BooksKept DEF Bookkeeping
  <2> QED
    BY <2>1, <2>2
<1>7. LocksKnown'
  BY <1>2, <1>6, LocksKept
<1> QED
  BY <1>1, <1>5, <1>7, NothingRead

\* What every read finds as it was.
LEMMA ReadsChangeNothing ==
  ASSUME OpenInv, AccountInv,
         ReadBalances \/ ReadHoldings \/ ReadPower \/ ReadQuotes \/ CountUpbit \/ CountHoldings
  PROVE  /\ Relieved /\ LocksKnown' /\ KeepsRecords
         /\ UNCHANGED <<journal, order, cash, locked, held, request>> /\ Account' = Account
         /\ Account \in Brokers /\ request.symbol \in Symbols
         /\ \A b \in Brokers : /\ Equity(b)' = Equity(b) /\ Equity(b) \in Int
                               /\ Worth(b)' = Worth(b) /\ Worth(b) \in Int
                               /\ cash[b] \in Int /\ locked[b] \in Nat
                               /\ Equity(b) = cash[b] + Worth(b)
         /\ \A I \in SUBSET Ids : /\ Cost(I)' = Cost(I) /\ Cost(I) \in Nat
                                  /\ \A b \in Brokers : At(I, b)' = At(I, b) /\ At(I, b) \in SUBSET Ids
                                  /\ \A s \in Symbols : In(I, s)' = In(I, s) /\ In(I, s) \in SUBSET Ids
         /\ snap.cash \in Int /\ snap.equity \in Int /\ snap.value \in Int /\ DOMAIN snap = Fields
<1> USE DEF OpenInv, AccountInv
<1>1. /\ KeepsRecords /\ Relieved /\ OpenBuys' = OpenBuys
      /\ UNCHANGED <<journal, order, cash, locked, held, request>>
  <2>1. Bookkeeping
    BY DEF Bookkeeping
  <2>2. UNCHANGED <<journal, order, request>>
    BY DEF ReadBalances, ReadHoldings, ReadPower, ReadQuotes, CountUpbit, CountHoldings, Working,
       broker
  <2> QED
    BY <2>1, <2>2, BooksKept, BooksRelieved
<1>2. LocksKnown'
  BY <1>1, LocksKept
<1>3. Account' = Account /\ Account \in Brokers
  BY <1>1 DEF Account, BrokerOf, Brokers
<1>4. request.symbol \in Symbols
  BY DEF ReadBalances, ReadHoldings, ReadPower, ReadQuotes, CountUpbit, CountHoldings,
     OpenTypes, Types, Requests
<1>5. CostFacts
  BY CostsAdd
<1>6. \A I \in SUBSET Ids : Cost(I)' = Cost(I) /\ Cost(I) \in Nat
  BY <1>1, <1>5, RecordsKept DEF CostFacts
<1>7. \A I \in SUBSET Ids :
         /\ \A b \in Brokers : At(I, b)' = At(I, b) /\ At(I, b) \in SUBSET Ids
         /\ \A s \in Symbols : In(I, s)' = In(I, s) /\ In(I, s) \in SUBSET Ids
  BY <1>1 DEF At, In
<1>8. ASSUME NEW b \in Brokers
      PROVE  /\ Equity(b)' = Equity(b) /\ Equity(b) \in Int
             /\ Worth(b)' = Worth(b) /\ Worth(b) \in Int
             /\ cash[b] \in Int /\ locked[b] \in Nat /\ Equity(b) = cash[b] + Worth(b)
  <2>1. locked[b] \in Nat
    <3>1. At(OpenBuys, b) \in SUBSET Ids
      BY DEF At, OpenBuys
    <3> QED
      BY <1>6, <3>1 DEF LocksKnown
  <2>2. Worth(b)' = Worth(b)
    BY <1>1, WorthFacts DEF OpenTypes
  <2>3. Worth(b) \in Int /\ Equity(b) \in Int
    BY AmountsAreInts
  <2> QED
    BY <1>1, <2>1, <2>2, <2>3 DEF Relieved, AccountTypes, Equity
<1> QED
  BY <1>1, <1>2, <1>3, <1>4, <1>6, <1>7, <1>8 DEF AccountTypes, OpenTypes

\* The first read of an account finds it as it is.
LEMMA ReadAccount ==
  ASSUME OpenInv, AccountInv, ReadBalances \/ ReadHoldings
  PROVE  AccountInv'
<1> USE DEF OpenInv, AccountInv
<1> DEFINE s == request.symbol
<1>1. /\ LocksKnown' /\ UNCHANGED <<journal, order, cash, locked, held, request>>
      /\ Account' = Account /\ Account \in Brokers /\ s \in Symbols
      /\ \A b \in Brokers : /\ Equity(b)' = Equity(b) /\ Equity(b) \in Int
                            /\ Worth(b)' = Worth(b) /\ Worth(b) \in Int
                            /\ cash[b] \in Int /\ locked[b] \in Nat
  BY ReadsChangeNothing
<1>2. late' = {} /\ snap'.quantity = held[s]
  BY DEF ReadBalances, ReadHoldings, NoSnapshot
<1>3. Cost({})' = 0
  <2>1. Cost({})' = Cost({}) /\ CostFacts
    BY ReadsChangeNothing, CostsAdd
  <2> QED
    BY <2>1 DEF CostFacts
<1>4. held[s] \in Int /\ held[s] * Price \in Int
  BY <1>1, Multiples DEF OpenTypes
<1>5. PositionRead'
  <2>1. In(late, s)' = {}
    BY <1>1, <1>2 DEF In
  <2>2. Cost(In(late, s))' = 0
    BY <1>3, <2>1
  <2> QED
    BY <1>1, <1>2, <1>4, <2>2 DEF PositionRead
<1>6. CASE ReadBalances
  <2>1. /\ pc' = "quotes" /\ Account = "upbit"
        /\ snap'.cash = cash["upbit"] - locked["upbit"] /\ snap'.equity = Equity("upbit")
        /\ snap'.value = 0
    BY <1>6 DEF ReadBalances, AccountTypes, Account, BrokerOf, NoSnapshot
  <2>2. AccountTypes'
    BY <1>1, <2>1 DEF AccountTypes
  <2>3. CashRead'
    <3>1. At(late, Account)' = {}
      BY <1>2 DEF At
    <3>2. Cost(At(late, Account))' = 0
      BY <1>3, <3>1
    <3>3. Lag' = Equity(Account)' - snap'.equity
      BY DEF Lag
    <3>4. Lag' = 0
      BY <1>1, <2>1, <3>3
    <3>5. snap'.cash <= cash'[Account]
      BY <1>1, <2>1
    <3>6. snap'.cash \in Int /\ cash'[Account] \in Int
      BY <1>1, <2>1
    <3> QED
      BY <1>1, <3>2, <3>4, <3>5, <3>6 DEF CashRead
  <2> QED
    BY <1>1, <1>2, <1>5, <2>1, <2>2, <2>3
       DEF LateIsClosed, HoldingsRead, CashFree, ValueCovers, Counting
<1>7. CASE ReadHoldings
  <2>1. /\ pc' = "power" /\ snap'.equity = Worth("toss") /\ snap'.cash = 0 /\ snap'.value = 0
        /\ request.symbol \notin Coins /\ "toss" \in Brokers
    BY <1>7 DEF ReadHoldings, AccountTypes, NoSnapshot, Brokers
  <2>2. AccountTypes'
    BY <1>1, <2>1 DEF AccountTypes
  <2>3. HoldingsRead'
    <3>1. At(late, "toss")' = {}
      BY <1>2 DEF At
    <3>2. Cost(At(late, "toss"))' = 0
      BY <1>3, <3>1
    <3> QED
      BY <1>1, <2>1, <3>2 DEF HoldingsRead
  <2> QED
    BY <1>1, <1>2, <1>5, <2>1, <2>2, <2>3
       DEF LateIsClosed, CashRead, CashFree, ValueCovers, Counting
<1> QED
  BY <1>6, <1>7

\* Between the two requests Toss may have moved money from cash to shares, which
\* hides it, or not yet have set it aside; never the other way round.
LEMMA ReadPowerAccount ==
  ASSUME OpenInv, AccountInv, ReadPower
  PROVE  AccountInv'
<1> USE DEF OpenInv, AccountInv
<1>1. PICK power \in {cash["toss"], cash["toss"] - locked["toss"]} :
         snap' = [snap EXCEPT !.cash = power, !.equity = @ + power]
  BY DEF ReadPower
<1>2. /\ pc = "power" /\ pc' = "quotes" /\ Account = "toss" /\ "toss" \in Brokers
      /\ UNCHANGED <<late, torn, missed>>
  BY DEF ReadPower, AccountTypes, Account, BrokerOf, Brokers, history
<1>3. /\ snap'.cash = power /\ snap'.equity = snap.equity + power
      /\ snap'.quantity = snap.quantity /\ snap'.value = snap.value
  BY <1>1 DEF OpenTypes, Fields
<1>4. LateIsKnown /\ LateIsClosed /\ late \in SUBSET Ids
  BY <1>2 DEF LateIsKnown, Collecting, Snapshots
<1>5. /\ LocksKnown' /\ UNCHANGED <<journal, order, cash, locked, held, request>>
      /\ Account' = Account /\ request.symbol \in Symbols
      /\ Equity("toss")' = Equity("toss") /\ Worth("toss") \in Int
      /\ cash["toss"] \in Int /\ locked["toss"] \in Nat
      /\ Equity("toss") = cash["toss"] + Worth("toss")
      /\ snap.cash \in Int /\ snap.equity \in Int /\ snap.value \in Int
  BY <1>2, ReadsChangeNothing
<1>6. power \in Int /\ cash["toss"] >= power
  BY <1>5
<1>7. AccountTypes'
  BY <1>2, <1>3, <1>5, <1>6 DEF AccountTypes
<1>8. PositionRead'
  <2>1. In(late, request.symbol)' = In(late, request.symbol)
    BY <1>2, <1>5 DEF In
  <2>2. Cost(In(late, request.symbol))' = Cost(In(late, request.symbol))
    <3> DEFINE L == In(late, request.symbol)
    <3>1. PICK I \in SUBSET Ids : I = L
      BY <1>4 DEF In
    <3> QED
      BY <1>5, <2>1, <3>1, ReadsChangeNothing
  <2> QED
    BY <1>2, <1>3, <1>5, <2>2 DEF PositionRead
<1>9. CashRead'
  <2>1. PICK I \in SUBSET Ids : I = At(late, "toss")
    BY <1>4 DEF At
  <2>2. At(late, Account)' = I
    BY <1>2, <1>5, <2>1 DEF At
  <2>3. Cost(At(late, Account))' = Cost(I) /\ Cost(I) \in Nat
    BY <2>2, ReadsChangeNothing
  <2>4. Lag' = Equity("toss") - (snap.equity + power)
    <3>1. Lag' = Equity(Account)' - snap'.equity
      BY DEF Lag
    <3> QED
      BY <1>2, <1>3, <1>5, <3>1
  <2>5. torn \/ (/\ 0 <= Worth("toss") - snap.equity
                 /\ Worth("toss") - snap.equity <= Cost(I))
    BY <1>2, <2>1 DEF HoldingsRead
  <2>6. torn \/ (0 <= Lag' /\ power + Lag' <= cash["toss"] + Cost(I))
    BY <1>5, <1>6, <2>3, <2>4, <2>5
  <2> QED
    BY <1>2, <1>3, <1>5, <2>3, <2>6 DEF CashRead
<1> QED
  BY <1>2, <1>4, <1>5, <1>7, <1>8, <1>9
     DEF LateIsClosed, HoldingsRead, CashFree, ValueCovers, Counting, Collecting, Snapshots

\* The journal knows of every BUY on its way, and of those that filled since the
\* account was read, if none was missed.
LEMMA PendingCovers ==
  ASSUME OpenInv, AccountInv, pc = "quotes", missed = {},
         NEW A \in SUBSET LiveBuys, NEW B \in SUBSET late, NEW P \in SUBSET Ids,
         \A i \in (A \cup B) : i \in PendingBuys => i \in P
  PROVE  /\ Cost(A) + Cost(B) <= Cost(P)
         /\ Cost(A) \in Nat /\ Cost(B) \in Nat /\ Cost(P) \in Nat
<1> USE DEF OpenInv, AccountInv
<1>1. CostFacts /\ A \in SUBSET Ids
  BY CostsAdd DEF LiveBuys
<1>2. Collecting
  BY DEF Collecting, Snapshots
<1>3. /\ B \in SUBSET Ids /\ \A i \in B : i \in PendingBuys /\ order[i] = "closed"
  BY <1>2 DEF LateIsKnown, LateIsClosed, PendingBuys
<1>4. \A i \in A : i \in PendingBuys /\ order[i] \in {"coming", "open"}
  BY DEF LiveBuys, PendingBuys, LiveIsPending
<1>5. A \cap B = {} /\ A \cup B \subseteq P /\ A \cup B \in SUBSET Ids
  BY <1>1, <1>3, <1>4
<1>6. /\ Cost(A \cup B) = Cost(A) + Cost(B) /\ Cost(A \cup B) <= Cost(P)
      /\ Cost(A) \in Nat /\ Cost(B) \in Nat /\ Cost(P) \in Nat
  BY <1>1, <1>3, <1>5 DEF CostFacts
<1> QED
  BY <1>6

\* The sums of the next state, too, are integers.
AmountsOK == OpenTypes /\ AccountTypes =>
    /\ \A b \in Brokers : Equity(b) \in Int /\ Free(b) \in Int
    /\ \A s \in Symbols : Exposed(s) \in Int

\* The amounts of a state are integers, ...
LEMMA AmountsStayInts == AmountsOK
  BY AmountsAreInts DEF AmountsOK

\* ... and those of the next state are.
LEMMA NextAmounts ==
  ASSUME OpenTypes', AccountTypes'
  PROVE  /\ \A b \in Brokers : Equity(b)' \in Int /\ Free(b)' \in Int
         /\ \A s \in Symbols : Exposed(s)' \in Int
<1>1. AmountsOK'
  BY AmountsStayInts, PTL
<1> QED
  BY <1>1 DEF AmountsOK

\* What is reserved for pending BUYs covers those on their way and those that filled
\* since the account was read.
LEMMA ReadQuotesAccount ==
  ASSUME OpenInv, AccountInv, ReadQuotes
  PROVE  AccountInv'
<1> USE DEF OpenInv, AccountInv
<1> DEFINE s == request.symbol
           b == Account
           reserved == Cost(PendingAt(b))
<1>1. /\ pc = "quotes" /\ snap.equity > 0 /\ pc' = "countUpbit"
      /\ snap' = [snap EXCEPT !.cash = IF @ > reserved THEN @ - reserved ELSE 0,
                              !.value = snap.quantity * Price + Cost(PendingIn(s))]
      /\ UNCHANGED <<late, torn, missed>>
  BY DEF ReadQuotes, Account, history
<1>2. /\ snap'.cash = IF snap.cash > reserved THEN snap.cash - reserved ELSE 0
      /\ snap'.value = snap.quantity * Price + Cost(PendingIn(s))
      /\ snap'.equity = snap.equity
  BY <1>1 DEF OpenTypes, Fields
<1>3. late \in SUBSET Ids /\ LateIsClosed
  BY <1>1 DEF LateIsKnown, Collecting, Snapshots
<1>4. /\ LocksKnown' /\ UNCHANGED <<journal, order, cash, locked, held, request>>
      /\ Relieved /\ Account' = Account /\ b \in Brokers /\ s \in Symbols
      /\ Equity(b)' = Equity(b) /\ Equity(b) \in Int /\ cash[b] \in Int
      /\ snap.cash \in Int /\ snap.equity \in Int /\ snap.value \in Int
  BY ReadsChangeNothing
<1>5. /\ PendingAt(b) \in SUBSET Ids /\ PendingIn(s) \in SUBSET Ids
      /\ LiveBuys \in SUBSET Ids
  BY DEF PendingAt, PendingIn, PendingBuys, LiveBuys
<1>6. reserved \in Nat /\ Cost(PendingIn(s)) \in Nat
  BY <1>5, CostsAdd DEF CostFacts
<1>7. snap.quantity * Price \in Int /\ held[s] * Price \in Int
  BY <1>4, Multiples DEF OpenTypes
<1>8. AccountTypes'
  BY <1>1, <1>2, <1>4, <1>6, <1>7 DEF AccountTypes
<1>9. /\ Free(b) \in Int /\ Free(b)' \in Int /\ Free(b)' >= Free(b)
      /\ Exposed(s) \in Int /\ Exposed(s)' \in Int /\ Exposed(s)' <= Exposed(s)
  <2>1. OpenTypes'
    BY ReadStep
  <2> QED
    BY <1>4, <1>8, <2>1, AmountsAreInts, NextAmounts DEF Relieved
<1>10. missed = {} => Exposed(s) <= snap'.value
  <2> SUFFICES ASSUME missed = {} PROVE Exposed(s) <= snap'.value
    OBVIOUS
  <2>1. /\ In(LiveBuys, s) \in SUBSET LiveBuys /\ In(late, s) \in SUBSET late
        /\ \A i \in (In(LiveBuys, s) \cup In(late, s)) : i \in PendingBuys => i \in PendingIn(s)
    BY DEF In, PendingIn
  <2>2. /\ Cost(In(LiveBuys, s)) + Cost(In(late, s)) <= Cost(PendingIn(s))
        /\ Cost(In(LiveBuys, s)) \in Nat /\ Cost(In(late, s)) \in Nat
    BY <1>1, <1>5, <2>1, PendingCovers
  <2>3. held[s] * Price <= snap.quantity * Price + Cost(In(late, s))
    BY <1>1 DEF PositionRead
  <2> QED
    BY <1>2, <1>6, <1>7, <2>2, <2>3 DEF Exposed
<1>11. torn \/ missed # {} \/ (0 <= Lag /\ (snap'.cash <= 0 \/ snap'.cash + Lag <= Free(b)))
  <2> SUFFICES ASSUME missed = {}, ~torn
               PROVE  0 <= Lag /\ (snap'.cash <= 0 \/ snap'.cash + Lag <= Free(b))
    OBVIOUS
  <2>1. /\ At(LiveBuys, b) \in SUBSET LiveBuys /\ At(late, b) \in SUBSET late
        /\ \A i \in (At(LiveBuys, b) \cup At(late, b)) : i \in PendingBuys => i \in PendingAt(b)
    BY DEF At, PendingAt
  <2>2. /\ Cost(At(LiveBuys, b)) + Cost(At(late, b)) <= reserved
        /\ Cost(At(LiveBuys, b)) \in Nat /\ Cost(At(late, b)) \in Nat
    BY <1>1, <1>5, <2>1, PendingCovers
  <2>3. 0 <= Lag /\ snap.cash + Lag <= cash[b] + Cost(At(late, b))
    BY <1>1 DEF CashRead
  <2>4. Lag \in Int
    BY <1>4 DEF Lag
  <2>5. CASE snap.cash > reserved
    <3>1. snap'.cash = snap.cash - reserved
      BY <1>2, <2>5
    <3>2. Free(b) = cash[b] - Cost(At(LiveBuys, b))
      BY DEF Free
    <3> HIDE DEF b, reserved
    <3> QED
      BY <1>4, <1>6, <2>2, <2>3, <2>4, <3>1, <3>2
  <2>6. CASE ~(snap.cash > reserved)
    BY <1>2, <2>3, <2>6
  <2> QED
    BY <2>5, <2>6
<1>12. ValueCovers'
  BY <1>1, <1>4, <1>8, <1>9, <1>10 DEF ValueCovers, AccountTypes
<1>13. CashFree'
  <2>1. Lag' = Lag /\ Lag \in Int
    <3>1. Lag' = Equity(Account)' - snap'.equity
      BY DEF Lag
    <3> QED
      BY <1>2, <1>4, <3>1 DEF Lag
  <2>2. snap'.cash \in Int
    BY <1>8 DEF AccountTypes
  <2>3. Free(Account)' >= Free(Account) /\ Free(Account) \in Int /\ Free(Account)' \in Int
    BY <1>9
  <2>4. torn \/ missed # {} \/ (0 <= Lag /\ (snap'.cash <= 0 \/ snap'.cash + Lag <= Free(Account)'))
    BY <1>11, <2>1, <2>2, <2>3
  <2> QED
    BY <1>1, <1>2, <2>1, <2>4 DEF CashFree
<1> QED
  BY <1>1, <1>3, <1>4, <1>8, <1>12, <1>13
     DEF LateIsClosed, HoldingsRead, CashRead, PositionRead, Collecting, Snapshots

\* The two requests that count positions.
LEMMA CountAccount ==
  ASSUME OpenInv, AccountInv, CountUpbit \/ CountHoldings
  PROVE  AccountInv'
<1> USE DEF OpenInv, AccountInv
<1>1. /\ Counting /\ Counting' /\ Collecting /\ pc' \notin {"power", "quotes", "balances", "holdings"}
      /\ UNCHANGED <<late, torn, missed>>
  BY DEF CountUpbit, CountHoldings, Counting, Collecting, Snapshots, history
<1>2. /\ snap'.cash = snap.cash /\ snap'.equity = snap.equity /\ snap'.value = snap.value
  BY DEF CountUpbit, CountHoldings, OpenTypes, Fields
<1>3. /\ LocksKnown' /\ UNCHANGED <<journal, order, cash, locked, held, request>>
      /\ Relieved /\ Account' = Account /\ Account \in Brokers /\ request.symbol \in Symbols
      /\ Equity(Account)' = Equity(Account) /\ Equity(Account) \in Int
      /\ snap.cash \in Int /\ snap.equity \in Int /\ snap.value \in Int
  BY ReadsChangeNothing
<1>4. AccountTypes'
  BY <1>1, <1>2, <1>3 DEF AccountTypes
<1>5. OpenTypes'
  BY ReadStep
<1>6. /\ Free(Account) \in Int /\ Free(Account)' \in Int /\ Free(Account)' >= Free(Account)
      /\ Exposed(request.symbol) \in Int /\ Exposed(request.symbol)' \in Int
      /\ Exposed(request.symbol)' <= Exposed(request.symbol)
  BY <1>3, <1>4, <1>5, AmountsAreInts, NextAmounts DEF Relieved
<1>7. Lag' = Lag /\ Lag \in Int
  BY <1>2, <1>3 DEF Lag
<1>8. ValueCovers'
  BY <1>1, <1>2, <1>3, <1>6 DEF ValueCovers
<1>9. CashFree'
  BY <1>1, <1>2, <1>3, <1>6, <1>7 DEF CashFree
<1> QED
  BY <1>1, <1>3, <1>4, <1>8, <1>9 DEF LateIsClosed, HoldingsRead, CashRead, PositionRead

\* What the others do while the lock is held.
LEMMA OthersAccount ==
  ASSUME OpenInv, AccountInv, OpenTypes', AccountTypes', LocksKnown', LateIsClosed', Relieved,
         UNCHANGED <<pc, request, snap>>, torn => torn', missed \subseteq missed',
         HoldingsRead', CashRead', PositionRead'
  PROVE  AccountInv'
<1> USE DEF OpenInv, AccountInv
<1>1. Account' = Account /\ Account \in Brokers /\ (Counting => request.symbol \in Symbols)
  BY DEF Account, BrokerOf, Brokers, Counting, OpenTypes, Types, Requests
<1>2. /\ Free(Account) \in Int /\ Free(Account)' \in Int /\ Free(Account)' >= Free(Account)
      /\ Equity(Account) \in Int /\ Equity(Account)' = Equity(Account)
  BY <1>1, AmountsAreInts, NextAmounts DEF Relieved
<1>3. Lag' = Lag /\ Lag \in Int
  BY <1>1, <1>2 DEF Lag, AccountTypes
<1>4. CashFree'
  BY <1>1, <1>2, <1>3 DEF CashFree, Counting, AccountTypes
<1>5. ValueCovers'
  <2> SUFFICES ASSUME Counting', missed' = {}
               PROVE  Exposed(request.symbol)' <= snap'.value
    BY DEF ValueCovers
  <2>1. Counting /\ missed = {} /\ request' = request /\ snap' = snap
    BY DEF Counting
  <2>2. /\ Exposed(request.symbol) \in Int /\ Exposed(request.symbol)' \in Int
        /\ Exposed(request.symbol)' <= Exposed(request.symbol)
    BY <1>1, <2>1, AmountsAreInts, NextAmounts DEF Relieved
  <2> QED
    BY <2>1, <2>2 DEF ValueCovers, AccountTypes
<1> QED
  BY <1>4, <1>5

\* They leave the accounts alone, or they only accept and refuse.
LEMMA CalmAccount ==
  ASSUME OpenInv, AccountInv, OpenTypes', KeepsRecords, Relieved, LocksKnown',
         UNCHANGED <<cash, held, pc, request, snap, late, torn>>, locked' \in [Brokers -> Int],
         missed \subseteq missed', \A i \in Ids : order[i] = "closed" => order'[i] = "closed"
  PROVE  AccountInv'
<1> USE DEF OpenInv, AccountInv
<1>1. AccountTypes'
  BY DEF AccountTypes
<1>2. LateIsClosed'
  BY DEF LateIsClosed, LateIsKnown, Collecting
<1>3. Collecting => late \in SUBSET Ids
  BY DEF LateIsKnown
<1>4. pc \in {"power", "quotes"} => Collecting /\ request.symbol \in Symbols
  BY DEF Collecting, Snapshots, OpenTypes, Types, Requests
<1>5. ASSUME NEW b \in Brokers, pc \in {"power", "quotes"}
      PROVE  Cost(At(late, b))' = Cost(At(late, b))
  <2>1. PICK L \in SUBSET Ids : L = late
    BY <1>3, <1>4, <1>5
  <2>2. PICK I \in SUBSET Ids : I = At(L, b)
    BY <2>1 DEF At
  <2>3. At(late, b)' = I
    BY <2>1, <2>2, RecordsKept DEF At, KeepsRecords
  <2> QED
    BY <2>1, <2>2, <2>3, RecordsKept
<1>6. ASSUME NEW s \in Symbols, pc \in {"power", "quotes"}
      PROVE  Cost(In(late, s))' = Cost(In(late, s))
  <2>1. PICK L \in SUBSET Ids : L = late
    BY <1>3, <1>4, <1>6
  <2>2. PICK I \in SUBSET Ids : I = In(L, s)
    BY <2>1 DEF In
  <2>3. In(late, s)' = I
    BY <2>1, <2>2, RecordsKept DEF In, KeepsRecords
  <2> QED
    BY <2>1, <2>2, <2>3, RecordsKept
<1>7. Account' = Account /\ Account \in Brokers /\ "toss" \in Brokers
  BY DEF Account, BrokerOf, Brokers
<1>8. HoldingsRead'
  <2>1. Worth("toss")' = Worth("toss")
    BY <1>7, WorthFacts DEF OpenTypes
  <2> QED
    BY <1>5, <1>7, <2>1 DEF HoldingsRead
<1>9. CashRead'
  <2>1. Lag' = Lag
    BY <1>7 DEF Lag, Relieved
  <2> QED
    BY <1>5, <1>7, <2>1 DEF CashRead
<1>10. PositionRead'
  BY <1>4, <1>6 DEF PositionRead
<1> QED
  BY <1>1, <1>2, <1>8, <1>9, <1>10, OthersAccount

\* Reads of the portfolio, reconciliations, answers of a broker and midnight.
LEMMA OthersCalm ==
  ASSUME OpenInv, AccountInv, OpenTypes',
         \/ \E b \in Brokers : ReadPortfolio(b)
         \/ \E i \in Ids : Reconcile(i) \/ BrokerAccepts(i) \/ BrokerRefuses(i)
         \/ NextDay \/ UNCHANGED vars
  PROVE  AccountInv'
<1> USE DEF OpenInv, AccountInv
<1>1. CASE \/ \E b \in Brokers : ReadPortfolio(b)
           \/ \E i \in Ids : Reconcile(i)
           \/ NextDay \/ UNCHANGED vars
  <2>1. Bookkeeping
    BY <1>1 DEF Bookkeeping
  <2>2. /\ KeepsRecords /\ UNCHANGED <<cash, locked, held>> /\ OpenBuys' = OpenBuys
    BY <2>1, BooksKept
  <2>3. Relieved /\ LocksKnown'
    BY <2>1, <2>2, BooksRelieved, LocksKept
  <2>4. /\ UNCHANGED <<order, pc, request, snap, late, torn>> /\ missed \subseteq missed'
    BY <1>1 DEF ReadPortfolio, Reconcile, NextDay, vars, Working, Task, history, broker
  <2> QED
    BY <2>2, <2>3, <2>4, CalmAccount DEF AccountTypes
<1>2. CASE \E i \in Ids : BrokerAccepts(i) \/ BrokerRefuses(i)
  <2>1. PICK i \in Ids : BrokerAccepts(i) \/ BrokerRefuses(i)
    BY <1>2
  <2>2. /\ UNCHANGED <<journal, cash, held, pc, request, snap, late, torn, missed>>
        /\ order[i] = "coming"
        /\ order' = [order EXCEPT ![i] = "open"] \/ order' = [order EXCEPT ![i] = "refused"]
    BY <2>1 DEF BrokerAccepts, BrokerRefuses, Task, history
  <2>3. KeepsRecords /\ Ids' = Ids
    BY <2>2 DEF KeepsRecords, Ids
  <2>4. Ids = DOMAIN order
    BY DEF OpenTypes, Types, Ids
  <2>5. LiveBuys' \subseteq LiveBuys
    BY <2>2, <2>3, <2>4 DEF LiveBuys
  <2>6. Relieved
    BY <2>2, <2>3, <2>5, FewerBuys
  <2>7. \A j \in Ids : order[j] = "closed" => order'[j] = "closed"
    BY <2>2, <2>4
  <2>8. LocksKnown' /\ locked' \in [Brokers -> Int]
    <3>1. CASE BrokerAccepts(i)
      <4>1. LocksKnown'
        BY <3>1, LocksFollow
      <4>2. journal[i].quantity * Price \in Nat /\ BrokerOf(journal[i].symbol) \in Brokers
        BY CostsAdd DEF CostFacts, BrokerOf, Brokers
      <4> QED
        BY <3>1, <4>1, <4>2 DEF BrokerAccepts, AccountTypes
    <3>2. CASE BrokerRefuses(i)
      <4>1. OpenBuys' = OpenBuys /\ UNCHANGED locked
        BY <2>2, <2>3, <2>4, <3>2 DEF BrokerRefuses, OpenBuys
      <4> QED
        BY <2>3, <4>1, LocksKept DEF AccountTypes
    <3> QED
      BY <2>1, <3>1, <3>2
  <2> QED
    BY <2>2, <2>3, <2>6, <2>7, <2>8, CalmAccount
<1> QED
  BY <1>1, <1>2

\* A BUY that fills while the account is read is added to what is late.
LEMMA FillIsLate ==
  ASSUME OpenInv, AccountInv, pc \in {"power", "quotes"},
         NEW i \in Ids, NEW n \in 0..journal[i].quantity, BrokerCloses(i, n)
  PROVE  LET more == IF journal[i].side = "BUY" /\ n > 0 THEN journal[i].quantity * Price ELSE 0 IN
         /\ \A b \in Brokers : /\ Cost(At(late, b)) \in Nat
                               /\ Cost(At(late, b))' = Cost(At(late, b))
                                    + (IF b = BrokerOf(journal[i].symbol) THEN more ELSE 0)
         /\ \A s \in Symbols : /\ Cost(In(late, s)) \in Nat
                               /\ Cost(In(late, s))' = Cost(In(late, s))
                                    + (IF s = journal[i].symbol THEN more ELSE 0)
<1> USE DEF OpenInv, AccountInv
<1> DEFINE added == journal[i].side = "BUY" /\ n > 0
           more == IF added THEN journal[i].quantity * Price ELSE 0
<1>1. Collecting /\ late \in SUBSET Ids /\ order[i] = "open" /\ i \notin late
  BY DEF Collecting, Snapshots, LateIsKnown, LateIsClosed, BrokerCloses
<1>2. late' = IF added THEN late \cup {i} ELSE late
  BY <1>1 DEF BrokerCloses
<1>3. KeepsRecords /\ Cost({i}) = journal[i].quantity * Price /\ CostFacts
      /\ journal[i].quantity * Price \in Nat
  BY FillRelieves, CostsAdd
<1>4. ASSUME NEW I \in SUBSET Ids, i \notin I, NEW joins \in BOOLEAN
      PROVE  /\ Cost(I) \in Nat
             /\ Cost(IF joins THEN I \cup {i} ELSE I)'
                  = Cost(I) + (IF joins THEN journal[i].quantity * Price ELSE 0)
  <2>1. /\ Cost(I \cup {i}) = Cost(I) + Cost({i}) /\ Cost(I) \in Nat
        /\ I \cup {i} \in SUBSET Ids
    <3>1. I \cap {i} = {} /\ {i} \in SUBSET Ids
      BY <1>4
    <3> QED
      BY <1>3, <3>1 DEF CostFacts
  <2>2. Cost(I)' = Cost(I) /\ Cost(I \cup {i})' = Cost(I \cup {i})
    BY <1>3, <2>1, RecordsKept
  <2> QED
    BY <1>3, <2>1, <2>2
<1>5. ASSUME NEW b \in Brokers
      PROVE  /\ Cost(At(late, b)) \in Nat
             /\ Cost(At(late, b))' = Cost(At(late, b))
                  + (IF b = BrokerOf(journal[i].symbol) THEN more ELSE 0)
  <2>1. PICK I \in SUBSET Ids : I = At(late, b)
    BY <1>1 DEF At
  <2>2. i \notin I
    BY <1>1, <2>1 DEF At
  <2>3. PICK joins \in BOOLEAN : joins <=> added /\ b = BrokerOf(journal[i].symbol)
    OBVIOUS
  <2>4. At(late, b)' = IF joins THEN I \cup {i} ELSE I
    BY <1>1, <1>2, <1>3, <2>1, <2>3 DEF At, KeepsRecords
  <2> HIDE DEF added
  <2> QED
    BY <1>4, <2>1, <2>2, <2>3, <2>4
<1>6. ASSUME NEW s \in Symbols
      PROVE  /\ Cost(In(late, s)) \in Nat
             /\ Cost(In(late, s))' = Cost(In(late, s))
                  + (IF s = journal[i].symbol THEN more ELSE 0)
  <2>1. PICK I \in SUBSET Ids : I = In(late, s)
    BY <1>1 DEF In
  <2>2. i \notin I
    BY <1>1, <2>1 DEF In
  <2>3. PICK joins \in BOOLEAN : joins <=> added /\ s = journal[i].symbol
    OBVIOUS
  <2>4. In(late, s)' = IF joins THEN I \cup {i} ELSE I
    BY <1>1, <1>2, <1>3, <2>1, <2>3 DEF In, KeepsRecords
  <2> HIDE DEF added
  <2> QED
    BY <1>4, <2>1, <2>2, <2>3, <2>4
<1> QED
  BY <1>5, <1>6

\* The value of the holdings after a step.
WorthOK == held \in [Symbols -> Int] => \A b \in Brokers : Worth(b) \in Int

\* What the holdings with a broker are worth is an integer, ...
LEMMA WorthIsInt == WorthOK
  BY WorthFacts DEF WorthOK

\* ... and stays one.
LEMMA NextWorth ==
  ASSUME held' \in [Symbols -> Int]
  PROVE  \A b \in Brokers : Worth(b)' \in Int
<1>1. WorthOK'
  BY WorthIsInt, PTL
<1> QED
  BY <1>1 DEF WorthOK

\* A fill moves money between cash and shares: what was read stays as safe as it was.
LEMMA FillAccount ==
  ASSUME OpenInv, AccountInv, OpenTypes',
         NEW i \in Ids, NEW n \in 0..journal[i].quantity, BrokerCloses(i, n)
  PROVE  AccountInv'
<1> USE DEF OpenInv, AccountInv
<1> DEFINE s == journal[i].symbol
           b == BrokerOf(s)
           buys == journal[i].side = "BUY"
           paid == n * Price
           set == journal[i].quantity * Price
           more == IF buys /\ n > 0 THEN set ELSE 0
<1>1. /\ Relieved /\ KeepsRecords /\ n \in Nat /\ paid \in Nat /\ set \in Nat /\ paid <= set
      /\ held' \in [Symbols -> Int] /\ cash' \in [Brokers -> Int] /\ locked' \in [Brokers -> Int]
  BY FillRelieves
<1>2. /\ order[i] = "open" /\ order' = [order EXCEPT ![i] = "closed"] /\ UNCHANGED journal
      /\ held' = [held EXCEPT ![s] = IF buys THEN @ + n ELSE @ - n]
      /\ cash' = [cash EXCEPT ![b] = IF buys THEN @ - paid ELSE @ + paid]
      /\ late' = IF buys /\ n > 0 /\ Collecting THEN late \cup {i} ELSE late
      /\ torn' = (torn \/ (~buys /\ n > 0 /\ b = "toss" /\ pc = "power"))
      /\ UNCHANGED <<pc, request, snap, missed>>
  BY DEF BrokerCloses, Task
<1>3. /\ s \in Symbols /\ b \in Brokers /\ "toss" \in Brokers
      /\ Account' = Account /\ Account \in Brokers
  BY <1>2, PositionsAreSymbols DEF BrokerOf, Brokers, Account
<1>4. AccountTypes' /\ LocksKnown'
  BY <1>1, <1>2, LocksFollow DEF AccountTypes
<1>5. LateIsClosed'
  <2>1. Ids = DOMAIN order
    BY DEF OpenTypes, Types, Ids
  <2> QED
    BY <1>2, <2>1 DEF LateIsClosed, LateIsKnown, Collecting
<1>6. n = 0 => paid = 0
  OBVIOUS
<1>7. \A c \in Brokers : cash'[c] = IF c # b THEN cash[c]
                                    ELSE IF buys THEN cash[c] - paid ELSE cash[c] + paid
  BY <1>2 DEF AccountTypes
<1>8. pc \in {"power", "quotes"} =>
        /\ \A c \in Brokers : /\ Cost(At(late, c)) \in Nat
                              /\ Cost(At(late, c))' = Cost(At(late, c)) + (IF c = b THEN more ELSE 0)
        /\ \A r \in Symbols : /\ Cost(In(late, r)) \in Nat
                              /\ Cost(In(late, r))' = Cost(In(late, r)) + (IF r = s THEN more ELSE 0)
  BY FillIsLate
<1>9. \A c \in Brokers : /\ Worth(c) \in Int /\ cash[c] \in Int /\ cash'[c] \in Int
                         /\ Equity(c)' = Equity(c) /\ Equity(c) \in Int
                         /\ Worth(c)' = Worth(c) + cash[c] - cash'[c]
  <2> SUFFICES ASSUME NEW c \in Brokers
               PROVE  /\ Worth(c) \in Int /\ cash[c] \in Int /\ cash'[c] \in Int
                      /\ Equity(c)' = Equity(c) /\ Equity(c) \in Int
                      /\ Worth(c)' = Worth(c) + cash[c] - cash'[c]
    OBVIOUS
  <2>1. /\ Worth(c) \in Int /\ cash[c] \in Int /\ cash'[c] \in Int
        /\ Equity(c)' = Equity(c) /\ Equity(c) \in Int
    BY <1>1, AmountsAreInts DEF Relieved, AccountTypes
  <2>2. Worth(c)' \in Int
    BY <1>1, NextWorth
  <2> QED
    BY <2>1, <2>2 DEF Equity
<1>10. HoldingsRead'
  <2> SUFFICES ASSUME pc = "power", ~torn'
               PROVE  /\ 0 <= Worth("toss")' - snap.equity
                      /\ Worth("toss")' - snap.equity <= Cost(At(late, "toss"))'
    BY <1>2 DEF HoldingsRead
  <2>1. /\ 0 <= Worth("toss") - snap.equity
        /\ Worth("toss") - snap.equity <= Cost(At(late, "toss"))
    BY <1>2 DEF HoldingsRead
  <2>2. b = "toss" /\ ~buys => n = 0
    <3>1. ~(~buys /\ n > 0 /\ b = "toss")
      BY <1>2
    <3>2. n = 0 \/ n > 0
      BY <1>1
    <3> QED
      BY <3>1, <3>2
  <2>3. snap.equity \in Int
    BY DEF AccountTypes
  <2> HIDE DEF b, buys, paid, set
  <2> QED
    BY <1>1, <1>3, <1>6, <1>7, <1>8, <1>9, <2>1, <2>2, <2>3
<1>11. CashRead'
  <2> SUFFICES ASSUME pc = "quotes", ~torn'
               PROVE  0 <= Lag' /\ snap.cash + Lag' <= cash'[Account] + Cost(At(late, Account))'
    BY <1>2, <1>3 DEF CashRead
  <2>1. 0 <= Lag /\ snap.cash + Lag <= cash[Account] + Cost(At(late, Account))
    BY <1>2 DEF CashRead
  <2>2. Lag' = Lag /\ Lag \in Int /\ snap.cash \in Int
    BY <1>2, <1>3, <1>9 DEF Lag, AccountTypes
  <2>3. n = 0 \/ n > 0
    BY <1>1
  <2> HIDE DEF b, buys, paid, set
  <2> QED
    BY <1>1, <1>3, <1>6, <1>7, <1>8, <1>9, <2>1, <2>2, <2>3
<1>12. PositionRead'
  <2> SUFFICES ASSUME NEW r \in Symbols, r = request.symbol, pc \in {"power", "quotes"}
               PROVE  held'[r] * Price <= snap.quantity * Price + Cost(In(late, r))'
    BY <1>2 DEF PositionRead, OpenTypes, Types, Requests
  <2>1. held[r] * Price <= snap.quantity * Price + Cost(In(late, r))
    BY DEF PositionRead
  <2>2. held[r] \in Int /\ held[r] * Price \in Int /\ snap.quantity * Price \in Int
    BY Multiples DEF OpenTypes
  <2>3. /\ (held[r] + n) * Price = held[r] * Price + paid
        /\ (held[r] - n) * Price = held[r] * Price - paid
    BY <1>1, <2>2, Multiples
  <2>4. held'[r] * Price = IF r # s THEN held[r] * Price
                           ELSE IF buys THEN held[r] * Price + paid ELSE held[r] * Price - paid
    BY <1>2, <2>2, <2>3 DEF OpenTypes
  <2>5. n = 0 \/ n > 0
    BY <1>1
  <2> HIDE DEF s, b, buys, paid, set
  <2> QED
    BY <1>1, <1>6, <1>8, <2>1, <2>2, <2>4, <2>5
<1>13. torn => torn'
  BY <1>2
<1> QED
  BY <1>1, <1>2, <1>4, <1>5, <1>10, <1>11, <1>12, <1>13, OthersAccount

\* AccountInv is inductive, given OpenInv.
LEMMA AccountStep ==
  ASSUME OpenInv, AccountInv, OpenInv', [Next]_vars
  PROVE  AccountInv'
<1>1. CASE \/ Ask \/ SnapshotFails \/ SymbolIsBusy \/ RiskBlocks \/ RiskAllows
           \/ PreflightRefused \/ PreflightPasses \/ Accepted \/ Refused \/ Ambiguous \/ Crash
  BY <1>1, HolderAccount
<1>2. CASE ReadBalances \/ ReadHoldings
  BY <1>2, ReadAccount
<1>3. CASE ReadPower
  BY <1>3, ReadPowerAccount
<1>4. CASE ReadQuotes
  BY <1>4, ReadQuotesAccount
<1>5. CASE CountUpbit \/ CountHoldings
  BY <1>5, CountAccount
<1>6. CASE \/ \E b \in Brokers : ReadPortfolio(b)
           \/ \E i \in Ids : Reconcile(i) \/ BrokerAccepts(i) \/ BrokerRefuses(i)
           \/ NextDay \/ UNCHANGED vars
  BY <1>6, OthersCalm DEF OpenInv
<1>7. CASE \E i \in Ids : \E n \in 0..journal[i].quantity : BrokerCloses(i, n)
  BY <1>7, FillAccount DEF OpenInv
<1> QED
  BY <1>1, <1>2, <1>3, <1>4, <1>5, <1>6, <1>7 DEF Next

\* AccountInv holds in every state.
LEMMA AccountAlways == Spec => [](OpenInv /\ AccountInv)
<1>1. Init /\ OpenInv => AccountInv
  <2> SUFFICES ASSUME Init, OpenInv PROVE AccountInv
    OBVIOUS
  <2>1. Ids = {} /\ pc = "idle" /\ snap = NoSnapshot
    BY DEF Init, Ids
  <2>2. AccountTypes
    BY <2>1 DEF Init, AccountTypes, NoSnapshot
  <2>3. LocksKnown
    <3> SUFFICES ASSUME NEW b \in Brokers PROVE locked[b] = Cost(At(OpenBuys, b))
      BY DEF LocksKnown
    <3>1. At(OpenBuys, b) = {}
      BY <2>1 DEF At, OpenBuys
    <3>2. Cost({}) = 0
      BY CostsAdd DEF CostFacts, OpenInv
    <3> QED
      BY <3>1, <3>2 DEF Init
  <2> QED
    BY <2>1, <2>2, <2>3 DEF AccountInv, LateIsClosed, HoldingsRead, CashRead, PositionRead,
       CashFree, ValueCovers, Collecting, Counting, Snapshots
<1>2. OpenInv /\ AccountInv /\ OpenInv' /\ [Next]_vars => AccountInv'
  BY AccountStep
<1> QED
  BY <1>1, <1>2, OpenAlways, PTL DEF Spec

\* Trades move money between cash and shares: no step changes what an account is
\* worth.
LEMMA WorthKept ==
  ASSUME OpenInv, AccountInv, [Next]_vars, ~PreflightPasses
  PROVE  Relieved
<1>1. CASE Bookkeeping
  BY <1>1, BooksRelieved DEF AccountInv
<1>2. CASE \E i \in Ids : \E n \in 0..journal[i].quantity : BrokerCloses(i, n)
  BY <1>2, FillRelieves DEF AccountInv
<1>3. CASE \E i \in Ids : BrokerAccepts(i) \/ BrokerRefuses(i)
  <2>1. PICK i \in Ids : BrokerAccepts(i) \/ BrokerRefuses(i)
    BY <1>3
  <2>2. /\ UNCHANGED <<journal, cash, held>> /\ order[i] = "coming"
        /\ order' = [order EXCEPT ![i] = "open"] \/ order' = [order EXCEPT ![i] = "refused"]
    BY <2>1 DEF BrokerAccepts, BrokerRefuses
  <2>3. KeepsRecords /\ Ids' = Ids /\ Ids = DOMAIN order
    BY <2>2 DEF KeepsRecords, Ids, OpenInv, OpenTypes, Types
  <2>4. LiveBuys' \subseteq LiveBuys
    BY <2>2, <2>3 DEF LiveBuys
  <2> QED
    BY <2>2, <2>3, <2>4, FewerBuys DEF OpenInv, AccountInv
<1> QED
  BY <1>1, <1>2, <1>3 DEF Next, Bookkeeping

-----------------------------------------------------------------------------
(* What Risk Guard grants. *)

\* The units that fit a capacity cost no more than it.
LEMMA UnitsCost ==
  ASSUME NEW h \in Int, NEW p \in Nat \ {0}
  PROVE  Units(h, p) \in Int /\ 100 * (Units(h, p) * p) <= h
<1>1. 100 * p \in Nat \ {0}
  OBVIOUS
<1>2. PICK u \in Int : u = h \div (100 * p)
  BY <1>1
<1>3. (100 * p) * u <= h
  BY <1>1, <1>2
<1>4. (100 * p) * u = 100 * (u * p)
  OBVIOUS
<1> QED
  BY <1>2, <1>3, <1>4 DEF Units

\* A BUY that passes, whole or reduced, costs no more than the snapshot leaves.
LEMMA PassingBuyFits ==
  ASSUME Passes(Intent(TRUE), FALSE), request.side = "BUY", request.quantity \in Nat,
         snap.cash \in Int, snap.equity \in Int, snap.value \in Int,
         NEW n \in Int, n = Evaluate(Intent(TRUE), FALSE).quantity
  PROVE  /\ 100 * (n * Price) <= 100 * snap.cash - snap.equity * MinCashReservePct
         /\ 100 * (n * Price) <= snap.equity * MaxPositionPct - 100 * snap.value
<1> DEFINE q == Intent(TRUE)
<1>1. /\ q.action = "BUY" /\ q.price = Price /\ q.notional = request.quantity * Price
      /\ q.quantity = request.quantity /\ q.equity = snap.equity /\ q.cash = snap.cash
      /\ q.positionValue = snap.value /\ q.source = "manual"
  BY DEF Intent
<1>2. Passes(q, FALSE) /\ n = Evaluate(q, FALSE).quantity
  OBVIOUS
<1> HIDE DEF q
<1>3. request.quantity * Price \in Nat
  BY Multiples
<1>4. ExposurePct(q) \in Int /\ Invested(q) \in Int
  BY <1>1 DEF ExposurePct, Invested
<1> DEFINE a == 100 * q.notional
           b == q.equity * MaxPositionPct - 100 * q.positionValue
           c == 100 * q.cash - q.equity * MinCashReservePct
           d == q.equity * ExposurePct(q) - 100 * Invested(q)
<1>5. a \in Int /\ b \in Int /\ c \in Int /\ d \in Int
  BY <1>1, <1>3, <1>4
<1>6. Capacity(q) \in Int /\ Capacity(q) <= b /\ Capacity(q) <= c
  <2>1. Capacity(q) = Smaller(a, Smaller(b, Smaller(c, d)))
    BY DEF Capacity
  <2> HIDE DEF a, b, c, d
  <2> QED
    BY <2>1, <1>5 DEF Smaller
<1> DEFINE u == Units(Capacity(q), q.price)
<1>7. u \in Int /\ 100 * (u * q.price) <= Capacity(q)
  BY <1>1, <1>6, UnitsCost
<1> HIDE DEF u, a, b, c, d
<1>8. Evaluate(q, FALSE) = IF SystemUnsafe(q, FALSE) \/ LockedOut(q) \/ Capacity(q) <= 0
        THEN Result("BLOCK", q.quantity)
        ELSE IF u <= 0 THEN Result("BLOCK", q.quantity)
        ELSE IF u * q.price < q.notional THEN Result("REDUCE", u)
        ELSE Result("ALLOW", q.quantity)
  BY <1>1 DEF Evaluate, u
<1>9. \A st, k : Result(st, k).status = st /\ Result(st, k).quantity = k
  BY DEF Result
<1>10. Evaluate(q, FALSE).status # "BLOCK"
  BY <1>2 DEF Passes
<1>11. \/ Evaluate(q, FALSE) = Result("REDUCE", u)
       \/ ~(u * q.price < q.notional) /\ Evaluate(q, FALSE) = Result("ALLOW", q.quantity)
  BY <1>8, <1>9, <1>10
<1>12. n * Price \in Int /\ u * Price \in Int
  BY <1>7, Multiples
<1>13. 100 * (n * Price) <= Capacity(q)
  <2>1. CASE Evaluate(q, FALSE) = Result("REDUCE", u)
    <3>1. n = u
      BY <1>2, <1>9, <2>1
    <3> QED
      BY <1>1, <1>7, <3>1
  <2>2. CASE ~(u * q.price < q.notional) /\ Evaluate(q, FALSE) = Result("ALLOW", q.quantity)
    <3>0. Evaluate(q, FALSE) = Result("ALLOW", q.quantity)
      BY <2>2
    <3>1. n = q.quantity
      <4>1. n = Evaluate(q, FALSE).quantity
        BY <1>2
      <4>2. Result("ALLOW", q.quantity).quantity = q.quantity
        BY DEF Result
      <4> QED
        BY <3>0, <4>1, <4>2
    <3>2. n * Price = q.notional
      BY <1>1, <3>1
    <3>3. ~(u * Price < n * Price)
      BY <1>1, <2>2, <3>2
    <3>4. 100 * (u * Price) <= Capacity(q)
      BY <1>1, <1>7
    <3>5. \A x, y, z \in Int : ~(y < x) /\ 100 * y <= z => 100 * x <= z
      OBVIOUS
    <3> QED
      BY <1>6, <1>12, <3>3, <3>4, <3>5, Zenon
  <2> QED
    BY <1>11, <2>1, <2>2
<1>14. /\ b = snap.equity * MaxPositionPct - 100 * snap.value
       /\ c = 100 * snap.cash - snap.equity * MinCashReservePct
  BY <1>1 DEF b, c
<1>15. 100 * (n * Price) <= b /\ 100 * (n * Price) <= c
  <2>1. \A x, y, z \in Int : 100 * x <= y /\ y <= z => 100 * x <= z
    OBVIOUS
  <2> QED
    BY <1>5, <1>6, <1>12, <1>13, <2>1, Zenon
<1> QED
  BY <1>14, <1>15

\* A snapshot that undervalues an account by what it gained leaves the reserve
\* and the share of a position intact.
LEMMA ReserveLasts ==
  ASSUME NEW e \in Int, NEW gain \in Nat, NEW c \in Int, NEW f \in Int, NEW p \in Int,
         c + gain <= f, 100 * p <= 100 * c - e * MinCashReservePct, MinCashReservePct <= 100
  PROVE  100 * (f - p) >= MinCashReservePct * (e + gain)
<1>1. e * MinCashReservePct \in Int /\ gain * MinCashReservePct \in Int
  OBVIOUS
<1>2. MinCashReservePct * (e + gain) = e * MinCashReservePct + gain * MinCashReservePct
  OBVIOUS
<1>3. gain * MinCashReservePct <= gain * 100
  <2>1. PICK rest \in Nat : 100 = MinCashReservePct + rest
    <3>1. 100 - MinCashReservePct \in Nat /\ 100 = MinCashReservePct + (100 - MinCashReservePct)
      OBVIOUS
    <3> QED
      BY <3>1
  <2>2. gain * 100 = gain * MinCashReservePct + gain * rest /\ gain * rest \in Nat
    BY <2>1
  <2> QED
    BY <1>1, <2>2
<1> QED
  BY <1>1, <1>2, <1>3

\* A position that is no larger than Risk Guard saw, in an account that is no
\* smaller, has room for what Risk Guard allowed.
LEMMA ShareLasts ==
  ASSUME NEW e \in Int, NEW gain \in Nat, NEW x \in Int, NEW v \in Int, NEW p \in Int,
         x <= v, 100 * p <= e * MaxPositionPct - 100 * v
  PROVE  100 * (x + p) <= MaxPositionPct * (e + gain)
<1>1. e * MaxPositionPct \in Int /\ gain * MaxPositionPct \in Nat
  OBVIOUS
<1>2. MaxPositionPct * (e + gain) = e * MaxPositionPct + gain * MaxPositionPct
  OBVIOUS
<1> QED
  BY <1>1, <1>2

-----------------------------------------------------------------------------
(* The reserve and the shares. *)

ReserveLeft(b, spent) == 100 * (Free(b) - spent) >= MinCashReservePct * Equity(b)
ShareLeft(s, bought) == 100 * (Exposed(s) + bought) <= MaxPositionPct * Equity(BrokerOf(s))

\* The account and the position of the order that was created last.
MyAccount == BrokerOf(journal[Mine].symbol)
MySymbol == journal[Mine].symbol
BuyWaits == pc = "preflight" /\ journal[Mine].side = "BUY"

\* The reserve also has to last for a BUY that Risk Guard allowed, until it is sent.
ReserveInv == unsound \/
    /\ \A b \in Brokers : ReserveLeft(b, 0)
    /\ BuyWaits => ReserveLeft(MyAccount, Cost({Mine}))

ShareInv == unsound \/
    /\ \A s \in Symbols : ShareLeft(s, 0)
    /\ BuyWaits => ShareLeft(MySymbol, Cost({Mine}))

\* The order that waits to be sent.
LEMMA MineIsKnown ==
  ASSUME OpenTypes, pc = "preflight"
  PROVE  /\ Mine \in Ids /\ {Mine} \in SUBSET Ids
         /\ MyAccount \in Brokers /\ MySymbol \in Symbols
         /\ Cost({Mine}) = journal[Mine].quantity * Price /\ Cost({Mine}) \in Nat
<1>1. Mine \in Ids
  BY DEF OpenTypes, Types, Sending, Mine, Ids
<1>2. journal[Mine].symbol \in Symbols
  BY <1>1, PositionsAreSymbols
<1>3. Cost({Mine}) = journal[Mine].quantity * Price /\ Cost({Mine}) \in Nat
  BY <1>1, CostsAdd DEF CostFacts
<1> QED
  BY <1>1, <1>2, <1>3 DEF MyAccount, MySymbol, BrokerOf, Brokers

\* While an order waits to be sent, nothing becomes of it but that.
LEMMA BuyWaitsOn ==
  ASSUME OpenInv, [Next]_vars, ~RiskAllows, BuyWaits'
  PROVE  /\ BuyWaits /\ MyAccount' = MyAccount /\ MySymbol' = MySymbol
         /\ Cost({Mine})' = Cost({Mine}) /\ ~PreflightPasses
<1> USE DEF OpenInv, BuyWaits
<1>1. /\ pc = "preflight" /\ ~PreflightPasses
      /\ \/ UNCHANGED journal
         \/ \E i \in Ids, st \in Statuses : SetStatus(i, st)
  <2>1. \A i \in Ids : Reconcile(i) => Reconciled(i) \in Statuses
    BY DEF Reconcile, Reconciled, IsUnresolved, Statuses
  <2>2. pc' = "preflight"
    OBVIOUS
  <2>3. CASE \E i \in Ids : Reconcile(i)
    BY <2>1, <2>2, <2>3 DEF Reconcile, Task, PreflightPasses
  <2>4. CASE \/ \E b \in Brokers : ReadPortfolio(b)
             \/ \E i \in Ids : \/ BrokerAccepts(i) \/ BrokerRefuses(i)
                               \/ \E n \in 0..journal[i].quantity : BrokerCloses(i, n)
             \/ NextDay \/ UNCHANGED vars
    BY <2>2, <2>4 DEF ReadPortfolio, BrokerAccepts, BrokerRefuses, BrokerCloses, NextDay, vars,
       Task, PreflightPasses
  <2>5. CASE \/ Ask \/ ReadBalances \/ ReadHoldings \/ ReadPower \/ ReadQuotes
             \/ CountUpbit \/ CountHoldings \/ SnapshotFails
             \/ SymbolIsBusy \/ RiskBlocks
             \/ PreflightRefused \/ PreflightPasses \/ Accepted \/ Refused \/ Ambiguous \/ Crash
    BY <2>2, <2>5 DEF Ask, ReadBalances, ReadHoldings, ReadPower, ReadQuotes, CountUpbit,
       CountHoldings, SnapshotFails, SymbolIsBusy, RiskBlocks, PreflightRefused,
       PreflightPasses, Accepted, Refused, Ambiguous, Crash, Answered, Leave
  <2> QED
    BY <2>3, <2>4, <2>5 DEF Next
<1>2. KeepsRecords /\ Ids' = Ids
  <2>1. CASE UNCHANGED journal
    BY <2>1 DEF KeepsRecords, Ids
  <2>2. CASE \E i \in Ids, st \in Statuses : SetStatus(i, st)
    BY <2>2, StatusIsAll
  <2> QED
    BY <1>1, <2>1, <2>2
<1>3. Mine \in Ids /\ Mine' = Mine
  <2>1. Len(journal') = Len(journal)
    BY <1>1, StatusChange DEF OpenTypes, Types
  <2> QED
    BY <1>1, <2>1, MineIsKnown DEF Mine
<1>4. journal[Mine].side = "BUY" /\ MyAccount' = MyAccount /\ MySymbol' = MySymbol
  BY <1>2, <1>3 DEF KeepsRecords, MyAccount, MySymbol
<1>5. Cost({Mine})' = Cost({Mine})
  <2>1. PICK m \in Ids : m = Mine /\ Mine' = m
    BY <1>3
  <2>2. {m} \in SUBSET Ids
    OBVIOUS
  <2>3. Cost({m})' = Cost({m})
    BY <1>2, <2>2, RecordsKept
  <2> QED
    BY <2>1, <2>3
<1> QED
  BY <1>1, <1>4, <1>5

\* Sending an order takes its cost from the free cash and adds it to the position.
LEMMA SentSpends ==
  ASSUME OpenInv, AccountInv, OpenTypes', AccountTypes', PreflightPasses
  PROVE  LET buys == journal[Mine].side = "BUY" IN
         /\ unsound' = unsound /\ ~BuyWaits' /\ pc = "preflight"
         /\ \A b \in Brokers : /\ Equity(b)' = Equity(b)
                               /\ Free(b)' = Free(b) - (IF buys /\ b = MyAccount THEN Cost({Mine}) ELSE 0)
         /\ \A s \in Symbols :
              Exposed(s)' = Exposed(s) + (IF buys /\ s = MySymbol THEN Cost({Mine}) ELSE 0)
<1> USE DEF OpenInv, AccountInv
<1> DEFINE buys == journal[Mine].side = "BUY"
<1>1. /\ pc = "preflight" /\ pc' = "answer" /\ SetStatus(Mine, "SUBMITTING")
      /\ order' = [order EXCEPT ![Mine] = "coming"]
      /\ UNCHANGED <<cash, held, unsound>>
  BY DEF PreflightPasses, history
<1>2. /\ Mine \in Ids /\ {Mine} \in SUBSET Ids /\ order[Mine] = "none" /\ Ids = DOMAIN order
      /\ Cost({Mine}) \in Nat
  BY <1>1, MineIsKnown DEF LiveIsPending, OpenTypes, Types, Ids
<1>3. KeepsRecords /\ Ids' = Ids
  BY <1>1, <1>2, StatusIsAll DEF Statuses
<1>4. PICK m \in Ids : m = Mine
  BY <1>2
<1>5. PICK L \in SUBSET Ids : L = LiveBuys /\ m \notin L
  BY <1>2, <1>4 DEF LiveBuys
<1>6. LiveBuys' = IF buys THEN L \cup {m} ELSE L
  BY <1>1, <1>2, <1>3, <1>4, <1>5 DEF LiveBuys, KeepsRecords
<1>7. ASSUME NEW I \in SUBSET Ids, m \notin I, NEW joins \in BOOLEAN
      PROVE  /\ Cost(I) \in Nat
             /\ Cost(IF joins THEN I \cup {m} ELSE I)' = Cost(I) + (IF joins THEN Cost({m}) ELSE 0)
  <2>1. /\ Cost(I \cup {m}) = Cost(I) + Cost({m}) /\ Cost(I) \in Nat
        /\ I \cup {m} \in SUBSET Ids
    <3>1. I \cap {m} = {} /\ {m} \in SUBSET Ids /\ CostFacts
      BY <1>7, CostsAdd
    <3> QED
      BY <3>1 DEF CostFacts
  <2>2. Cost(I)' = Cost(I) /\ Cost(I \cup {m})' = Cost(I \cup {m})
    BY <1>3, <2>1, RecordsKept
  <2> QED
    BY <2>1, <2>2
<1>8. ASSUME NEW b \in Brokers
      PROVE  /\ Equity(b)' = Equity(b)
             /\ Free(b)' = Free(b) - (IF buys /\ b = MyAccount THEN Cost({Mine}) ELSE 0)
  <2>1. Equity(b)' = Equity(b)
    BY <1>1, WorthFacts DEF Equity, OpenTypes
  <2>2. PICK joins \in BOOLEAN : joins <=> buys /\ b = MyAccount
    OBVIOUS
  <2>3. PICK I \in SUBSET Ids : I = At(L, b) /\ m \notin I
    BY <1>5 DEF At
  <2>4. At(LiveBuys, b)' = IF joins THEN I \cup {m} ELSE I
    BY <1>3, <1>4, <1>5, <1>6, <2>2, <2>3 DEF At, KeepsRecords, MyAccount
  <2>5. Cost(At(LiveBuys, b))' = Cost(I) + (IF joins THEN Cost({Mine}) ELSE 0) /\ Cost(I) \in Nat
    BY <1>4, <1>7, <2>3, <2>4
  <2>6. Free(b)' = cash[b] - (Cost(I) + (IF joins THEN Cost({Mine}) ELSE 0))
    BY <1>1, <2>5 DEF Free
  <2>7. Free(b) = cash[b] - Cost(I) /\ cash[b] \in Int
    BY <1>5, <2>3 DEF Free, AccountTypes
  <2> HIDE DEF buys
  <2> QED
    BY <1>2, <2>1, <2>2, <2>5, <2>6, <2>7
<1>9. ASSUME NEW s \in Symbols
      PROVE  Exposed(s)' = Exposed(s) + (IF buys /\ s = MySymbol THEN Cost({Mine}) ELSE 0)
  <2>2. PICK joins \in BOOLEAN : joins <=> buys /\ s = MySymbol
    OBVIOUS
  <2>3. PICK I \in SUBSET Ids : I = In(L, s) /\ m \notin I
    BY <1>5 DEF In
  <2>4. In(LiveBuys, s)' = IF joins THEN I \cup {m} ELSE I
    BY <1>3, <1>4, <1>5, <1>6, <2>2, <2>3 DEF In, KeepsRecords, MySymbol
  <2>5. Cost(In(LiveBuys, s))' = Cost(I) + (IF joins THEN Cost({Mine}) ELSE 0) /\ Cost(I) \in Nat
    BY <1>4, <1>7, <2>3, <2>4
  <2>6. Exposed(s)' = held[s] * Price + (Cost(I) + (IF joins THEN Cost({Mine}) ELSE 0))
    BY <1>1, <2>5 DEF Exposed
  <2>7. Exposed(s) = held[s] * Price + Cost(I) /\ held[s] * Price \in Int
    BY <1>5, <2>3, Multiples DEF Exposed, OpenTypes
  <2> HIDE DEF buys
  <2> QED
    BY <1>2, <2>2, <2>5, <2>6, <2>7
<1> QED
  BY <1>1, <1>8, <1>9 DEF BuyWaits

\* A BUY that Risk Guard allows on a sound snapshot leaves the reserve and the share
\* intact, whatever filled since the account was read.
LEMMA AllowedBuy ==
  ASSUME OpenInv, AccountInv, OpenTypes', AccountTypes', RiskAllows, BuyWaits', ~unsound'
  PROVE  /\ MinCashReservePct <= 100 => ReserveLeft(MyAccount, Cost({Mine}))'
         /\ ShareLeft(MySymbol, Cost({Mine}))'
<1> USE DEF OpenInv, AccountInv
<1>1. PICK n \in 1..request.quantity :
         n = Evaluate(Intent(TRUE), FALSE).quantity /\ Create("CREATED", n)
  BY DEF RiskAllows
<1>2. /\ pc = "countPower" /\ Passes(Intent(TRUE), FALSE) /\ request \in Requests
      /\ UNCHANGED <<held, cash, locked>>
      /\ unsound' = (unsound \/ (request.side = "BUY" /\ (missed # {} \/ torn)))
  BY DEF RiskAllows, Collected, OpenTypes, Types
<1>3. /\ request.quantity \in Nat /\ n \in Nat /\ request.symbol \in Symbols
      /\ Account \in Brokers
  BY <1>2 DEF Requests, Account, BrokerOf, Brokers
<1>0. PICK a \in Brokers, r \in Symbols : a = Account /\ r = request.symbol
  BY <1>3
<1>4. /\ journal'[Mine'].side = request.side /\ journal'[Mine'].symbol = request.symbol
      /\ journal'[Mine'].quantity = n /\ Mine' \in Ids'
  <2> DEFINE rec == [status |-> "CREATED", symbol |-> request.symbol, side |-> request.side,
                   quantity |-> n, day |-> day]
  <2>1. journal' = Append(journal, rec) /\ rec.quantity = n /\ rec.symbol = request.symbol
        /\ rec.side = request.side
    BY <1>1 DEF Create
  <2> HIDE DEF rec
  <2> QED
    BY <2>1 DEF Mine, Ids, OpenTypes, Types
<1>5. request.side = "BUY" /\ missed = {} /\ ~torn
  BY <1>2, <1>4 DEF BuyWaits
<1>6. /\ MyAccount' = a /\ MySymbol' = r /\ a = BrokerOf(r)
  BY <1>0, <1>4 DEF MyAccount, MySymbol, Account
<1>7. Cost({Mine})' = n * Price
  <2>1. OpenTypes' => CostFacts'
    BY CostsAdd, PTL
  <2>2. \A i \in Ids' : Cost({i})' = journal'[i].quantity * Price
    BY <2>1 DEF CostFacts
  <2> QED
    BY <1>4, <2>2
<1>8. /\ 0 <= Lag /\ (snap.cash <= 0 \/ snap.cash + Lag <= Free(a))
      /\ Exposed(r) <= snap.value /\ snap.equity > 0
  BY <1>0, <1>2, <1>5 DEF CashFree, ValueCovers, Counting
<1>9. snap.cash \in Int /\ snap.equity \in Int /\ snap.value \in Int
  BY DEF AccountTypes
<1>10. /\ 100 * (n * Price) <= 100 * snap.cash - snap.equity * MinCashReservePct
       /\ 100 * (n * Price) <= snap.equity * MaxPositionPct - 100 * snap.value
  <2>1. n = Evaluate(Intent(TRUE), FALSE).quantity
    BY <1>1
  <2>2. n \in Int /\ request.quantity \in Nat
    BY <1>3
  <2>3. Passes(Intent(TRUE), FALSE) /\ request.side = "BUY"
    BY <1>2, <1>5
  <2> QED
    BY <1>9, <2>1, <2>2, <2>3, PassingBuyFits
<1>11. n * Price \in Nat \ {0}
  <2>1. 1 <= n /\ n \in Int /\ 1 * Price = Price
    BY <1>3
  <2>2. 1 * Price <= n * Price /\ n * Price \in Int
    BY <2>1, Multiples
  <2> QED
    BY <2>1, <2>2
<1>12. /\ Equity(a) \in Int /\ Free(a) \in Int /\ Exposed(r) \in Int
       /\ Equity(a)' = Equity(a)
       /\ Free(a)' \in Int /\ Free(a)' >= Free(a)
       /\ Exposed(r)' \in Int
       /\ Exposed(r)' <= Exposed(r)
  <2>1. Relieved
    BY BooksRelieved DEF Bookkeeping
  <2> QED
    BY <1>3, <2>1, AmountsAreInts, NextAmounts DEF Relieved
<1>13. Lag \in Nat /\ Equity(a) = snap.equity + Lag
  BY <1>0, <1>8, <1>9, <1>12 DEF Lag
<1>14. snap.cash + Lag <= Free(a)
  <2>1. snap.equity * MinCashReservePct \in Nat
    BY <1>8, <1>9
  <2>2. snap.cash > 0
    <3>1. \A u, v \in Nat, c \in Int : u > 0 /\ 100 * u <= 100 * c - v => c > 0
      OBVIOUS
    <3>2. n * Price \in Nat /\ n * Price > 0
      BY <1>11
    <3> QED
      BY <1>9, <1>10, <2>1, <3>1, <3>2
  <2> QED
    BY <1>8, <1>9, <2>2
<1> DEFINE f == Free(a)
           x == Exposed(r)
<1>15. MinCashReservePct <= 100 => 100 * (Free(a) - n * Price) >= MinCashReservePct * Equity(a)
  <2> SUFFICES ASSUME MinCashReservePct <= 100
               PROVE  100 * (f - n * Price) >= MinCashReservePct * (snap.equity + Lag)
    BY <1>13
  <2>1. n * Price \in Int /\ f \in Int
    BY <1>11, <1>12
  <2> HIDE DEF f
  <2> QED
    BY <1>9, <1>10, <1>13, <1>14, <2>1, ReserveLasts DEF f
<1>16. 100 * (Exposed(r) + n * Price) <= MaxPositionPct * Equity(a)
  <2>1. n * Price \in Int /\ x \in Int
    BY <1>11, <1>12
  <2>2. 100 * (x + n * Price) <= MaxPositionPct * (snap.equity + Lag)
    BY <1>8, <1>9, <1>10, <1>13, <2>1, ShareLasts
  <2> QED
    BY <1>13, <2>2
<1>17. MinCashReservePct <= 100 => 100 * (Free(a)' - n * Price) >= MinCashReservePct * Equity(a)'
  <2>1. 100 * (Free(a)' - n * Price) >= 100 * (Free(a) - n * Price)
    BY <1>11, <1>12
  <2>2. MinCashReservePct * Equity(a) \in Int /\ n * Price \in Int
    BY <1>11, <1>12
  <2>3. \A u, v, w \in Int : u >= v /\ v >= w => u >= w
    OBVIOUS
  <2>4. 100 * (Free(a)' - n * Price) \in Int /\ 100 * (Free(a) - n * Price) \in Int
    BY <1>12, <2>2
  <2> QED
    BY <1>12, <1>15, <2>1, <2>2, <2>3, <2>4
<1>18. 100 * (Exposed(r)' + n * Price) <= MaxPositionPct * Equity(a)'
  <2>1. /\ 100 * (Exposed(r)' + n * Price) <= 100 * (Exposed(r) + n * Price)
        /\ 100 * (Exposed(r)' + n * Price) \in Int
        /\ 100 * (Exposed(r) + n * Price) \in Int
    BY <1>11, <1>12
  <2>2. MaxPositionPct * Equity(a) \in Int
    BY <1>12
  <2>3. \A u, v, w \in Int : u <= v /\ v <= w => u <= w
    OBVIOUS
  <2> QED
    BY <1>12, <1>16, <2>1, <2>2, <2>3
<1>19. ReserveLeft(MyAccount, Cost({Mine}))' <=>
         100 * (Free(a)' - n * Price) >= MinCashReservePct * Equity(a)'
  BY <1>6, <1>7 DEF ReserveLeft
<1>20. ShareLeft(MySymbol, Cost({Mine}))' <=>
         100 * (Exposed(r)' + n * Price) <= MaxPositionPct * Equity(a)'
  BY <1>6, <1>7 DEF ShareLeft
<1> QED
  BY <1>17, <1>18, <1>19, <1>20

\* What is left stays, while nothing is taken.
LEMMA LeftLasts ==
  ASSUME OpenTypes, AccountTypes, OpenTypes', AccountTypes', Relieved, NEW k \in Int
  PROVE  /\ \A b \in Brokers : ReserveLeft(b, k) => ReserveLeft(b, k)'
         /\ \A s \in Symbols : ShareLeft(s, k) => ShareLeft(s, k)'
<1>1. \A u, v, w \in Int : u >= v /\ v >= w => u >= w
  OBVIOUS
<1>2. ASSUME NEW b \in Brokers, ReserveLeft(b, k) PROVE ReserveLeft(b, k)'
  <2>1. /\ Equity(b) \in Int /\ Equity(b)' = Equity(b)
        /\ Free(b) \in Int /\ Free(b)' \in Int /\ Free(b)' >= Free(b)
    BY AmountsAreInts, NextAmounts DEF Relieved
  <2>2. /\ 100 * (Free(b) - k) \in Int /\ 100 * (Free(b)' - k) \in Int
        /\ 100 * (Free(b)' - k) >= 100 * (Free(b) - k)
    BY <2>1
  <2>3. MinCashReservePct * Equity(b) \in Int
    BY <2>1
  <2> QED
    BY <1>1, <1>2, <2>1, <2>2, <2>3 DEF ReserveLeft
<1>3. ASSUME NEW s \in Symbols, ShareLeft(s, k) PROVE ShareLeft(s, k)'
  <2>0. BrokerOf(s) \in Brokers
    BY DEF BrokerOf, Brokers
  <2>1. /\ Equity(BrokerOf(s)) \in Int /\ Equity(BrokerOf(s))' = Equity(BrokerOf(s))
        /\ Exposed(s) \in Int /\ Exposed(s)' \in Int /\ Exposed(s)' <= Exposed(s)
    BY <2>0, AmountsAreInts, NextAmounts DEF Relieved
  <2>2. /\ 100 * (Exposed(s) + k) \in Int /\ 100 * (Exposed(s)' + k) \in Int
        /\ 100 * (Exposed(s) + k) >= 100 * (Exposed(s)' + k)
    BY <2>1
  <2>3. MaxPositionPct * Equity(BrokerOf(s)) \in Int
    BY <2>1
  <2>4. 100 * (Exposed(s) + k) <= MaxPositionPct * Equity(BrokerOf(s))
    BY <1>3 DEF ShareLeft
  <2>5. \A u, v, w \in Int : v <= w /\ v >= u => u <= w
    OBVIOUS
  <2>6. 100 * (Exposed(s)' + k) <= MaxPositionPct * Equity(BrokerOf(s))
    BY <2>2, <2>3, <2>4, <2>5
  <2> QED
    BY <2>1, <2>6 DEF ShareLeft
<1> QED
  BY <1>2, <1>3

\* The mark of an unsound snapshot stays.
LEMMA UnsoundStays == ASSUME [Next]_vars, unsound PROVE unsound'
  BY DEF Next, vars, Ask, ReadBalances, ReadHoldings, ReadPower, ReadQuotes, CountUpbit,
     CountHoldings, SnapshotFails, ReadPortfolio, SymbolIsBusy, RiskBlocks, RiskAllows,
     PreflightRefused, PreflightPasses, Accepted, Refused, Ambiguous, Answered, Crash,
     BrokerAccepts, BrokerRefuses, BrokerCloses, Reconcile, NextDay, history

\* ReserveInv and ShareInv are inductive, given the invariants above.
LEMMA LimitsStep ==
  ASSUME OpenInv, AccountInv, OpenInv', AccountInv', [Next]_vars
  PROVE  /\ MinCashReservePct <= 100 /\ ReserveInv => ReserveInv'
         /\ ShareInv => ShareInv'
<1>0. OpenTypes /\ OpenTypes' /\ AccountTypes /\ AccountTypes'
  BY DEF OpenInv, AccountInv
<1>1. CASE unsound'
  BY <1>1 DEF ReserveInv, ShareInv
<1>2. CASE ~unsound' /\ PreflightPasses
  <2>1. ~unsound
    BY <1>2, UnsoundStays
  <2> DEFINE buys == journal[Mine].side = "BUY"
  <2>2. /\ ~BuyWaits' /\ pc = "preflight"
        /\ \A b \in Brokers : /\ Equity(b)' = Equity(b)
                              /\ Free(b)' = Free(b) - (IF buys /\ b = MyAccount THEN Cost({Mine}) ELSE 0)
        /\ \A s \in Symbols :
             Exposed(s)' = Exposed(s) + (IF buys /\ s = MySymbol THEN Cost({Mine}) ELSE 0)
    BY <1>0, <1>2, SentSpends
  <2>3. buys => BuyWaits
    BY <2>2 DEF BuyWaits
  <2>4. /\ Cost({Mine}) \in Nat
        /\ \A b \in Brokers : Free(b) \in Int
        /\ \A s \in Symbols : Exposed(s) \in Int /\ BrokerOf(s) \in Brokers
    BY <1>0, <2>2, MineIsKnown, AmountsAreInts DEF BrokerOf, Brokers
  <2> HIDE DEF buys
  <2>5. ASSUME ReserveInv, NEW b \in Brokers PROVE ReserveLeft(b, 0)'
    <3>1. CASE buys /\ b = MyAccount
      <4>1. ReserveLeft(b, Cost({Mine}))
        BY <2>1, <2>3, <2>5, <3>1 DEF ReserveInv
      <4>2. Free(b)' - 0 = Free(b) - Cost({Mine})
        <5>1. Free(b)' = Free(b) - Cost({Mine})
          BY <2>2, <3>1
        <5> QED
          BY <2>4, <5>1
      <4> QED
        BY <2>2, <4>1, <4>2 DEF ReserveLeft
    <3>2. CASE ~(buys /\ b = MyAccount)
      <4>1. ReserveLeft(b, 0) /\ Free(b)' - 0 = Free(b) - 0
        BY <2>1, <2>2, <2>4, <2>5, <3>2 DEF ReserveInv
      <4> QED
        BY <2>2, <4>1 DEF ReserveLeft
    <3> QED
      BY <3>1, <3>2
  <2>6. ASSUME ShareInv, NEW s \in Symbols PROVE ShareLeft(s, 0)'
    <3>1. CASE buys /\ s = MySymbol
      <4>1. ShareLeft(s, Cost({Mine}))
        BY <2>1, <2>3, <2>6, <3>1 DEF ShareInv
      <4>2. Exposed(s)' + 0 = Exposed(s) + Cost({Mine})
        <5>1. Exposed(s)' = Exposed(s) + Cost({Mine})
          BY <2>2, <3>1
        <5> QED
          BY <2>4, <5>1
      <4> QED
        BY <2>2, <2>4, <4>1, <4>2 DEF ShareLeft
    <3>2. CASE ~(buys /\ s = MySymbol)
      <4>1. ShareLeft(s, 0) /\ Exposed(s)' + 0 = Exposed(s) + 0
        BY <2>1, <2>2, <2>4, <2>6, <3>2 DEF ShareInv
      <4> QED
        BY <2>2, <2>4, <4>1 DEF ShareLeft
    <3> QED
      BY <3>1, <3>2
  <2> QED
    BY <2>2, <2>5, <2>6 DEF ReserveInv, ShareInv
<1>3. CASE ~unsound' /\ ~PreflightPasses
  <2>1. ~unsound /\ Relieved
    BY <1>3, UnsoundStays, WorthKept
  <2>2. ReserveInv => \A b \in Brokers : ReserveLeft(b, 0)'
    BY <1>0, <2>1, LeftLasts DEF ReserveInv
  <2>3. ShareInv => \A s \in Symbols : ShareLeft(s, 0)'
    BY <1>0, <2>1, LeftLasts DEF ShareInv
  <2>4. CASE RiskAllows /\ BuyWaits'
    <3>1. /\ MinCashReservePct <= 100 => ReserveLeft(MyAccount, Cost({Mine}))'
          /\ ShareLeft(MySymbol, Cost({Mine}))'
      BY <1>0, <1>3, <2>4, AllowedBuy
    <3> QED
      BY <2>2, <2>3, <3>1 DEF ReserveInv, ShareInv
  <2>5. CASE ~RiskAllows /\ BuyWaits'
    <3>1. /\ BuyWaits /\ MyAccount' = MyAccount /\ MySymbol' = MySymbol
          /\ Cost({Mine})' = Cost({Mine})
      BY <2>5, BuyWaitsOn
    <3>2. PICK a \in Brokers, s \in Symbols, k \in Int :
             a = MyAccount /\ s = MySymbol /\ k = Cost({Mine})
      BY <1>0, <3>1, MineIsKnown DEF BuyWaits
    <3>3. ReserveInv => ReserveLeft(MyAccount, Cost({Mine}))'
      <4>1. ReserveInv => ReserveLeft(a, k)
        BY <2>1, <3>1, <3>2 DEF ReserveInv
      <4>2. ReserveInv => ReserveLeft(a, k)'
        BY <1>0, <2>1, <4>1, LeftLasts
      <4> QED
        BY <3>1, <3>2, <4>2
    <3>4. ShareInv => ShareLeft(MySymbol, Cost({Mine}))'
      <4>1. ShareInv => ShareLeft(s, k)
        BY <2>1, <3>1, <3>2 DEF ShareInv
      <4>2. ShareInv => ShareLeft(s, k)'
        BY <1>0, <2>1, <4>1, LeftLasts
      <4> QED
        BY <3>1, <3>2, <4>2
    <3> QED
      BY <2>2, <2>3, <3>3, <3>4 DEF ReserveInv, ShareInv
  <2>6. CASE ~BuyWaits'
    BY <2>2, <2>3, <2>6 DEF ReserveInv, ShareInv
  <2> QED
    BY <2>4, <2>5, <2>6
<1> QED
  BY <1>1, <1>2, <1>3

\* What the invariants say of the amounts that the properties name.
LEMMA KeptIsLeft ==
  ASSUME OpenTypes, AccountTypes
  PROVE  /\ ReserveKept <=> unsound \/ \A b \in Brokers : ReserveLeft(b, 0)
         /\ PositionsCapped <=> unsound \/ \A s \in Symbols : ShareLeft(s, 0)
<1>1. \A b \in Brokers : Free(b) \in Int /\ Free(b) - 0 = Free(b)
  BY AmountsAreInts
<1>2. \A s \in Symbols : Exposed(s) \in Int /\ Exposed(s) + 0 = Exposed(s)
  BY AmountsAreInts
<1>3. \A b \in Brokers :
         Free(b) = cash[b] - Cost({i \in LiveBuys : BrokerOf(journal[i].symbol) = b})
  BY DEF Free, At
<1>4. \A s \in Symbols :
         Exposed(s) = held[s] * Price + Cost({i \in LiveBuys : journal[i].symbol = s})
  BY DEF Exposed, In
<1> QED
  BY <1>1, <1>2, <1>3, <1>4 DEF ReserveKept, PositionsCapped, ReserveLeft, ShareLeft

\* If both accounts start with their reserve, no order, answer, fill, crash or
\* midnight leaves less, but for the race that is recorded.
THEOREM ReserveStays == Spec /\ ReserveKept => []ReserveKept
<1>1. Init /\ OpenInv /\ AccountInv /\ ReserveKept => MinCashReservePct <= 100 /\ ReserveInv
  <2> SUFFICES ASSUME Init, OpenInv, AccountInv, ReserveKept
               PROVE  MinCashReservePct <= 100 /\ ReserveInv
    OBVIOUS
  <2>1. ~unsound /\ ~BuyWaits
    BY DEF Init, BuyWaits
  <2>2. \A b \in Brokers : ReserveLeft(b, 0)
    BY <2>1, KeptIsLeft DEF OpenInv, AccountInv
  <2>3. "upbit" \in Brokers
    BY DEF Brokers
  <2>4. Free("upbit") = StartCash
    <3>1. At(LiveBuys, "upbit") = {}
      BY DEF Init, At, LiveBuys, Ids
    <3>2. Cost({}) = 0
      BY CostsAdd DEF CostFacts, OpenInv
    <3>3. cash["upbit"] = StartCash /\ StartCash \in Int
      BY <2>3 DEF Init
    <3> QED
      BY <3>1, <3>2, <3>3 DEF Free
  <2>5. Worth("upbit") \in Nat
    <3> DEFINE S == SymbolsOf("upbit")
               V == Values
    <3>1. IsFiniteSet(S) /\ Worth("upbit") = Total(V, S)
      BY <2>3, WorthIsTotal DEF WorthIs, SymbolsOf
    <3>2. \A s \in S : V[s] \in Nat
      <4>1. \A s \in S : s \in Symbols /\ held[s] \in Nat
        BY DEF Init, SymbolsOf, Symbols
      <4> QED
        BY <4>1 DEF Values
    <3> HIDE DEF S, V
    <3> QED
      BY <3>1, <3>2, TotalNat
  <2>6. 100 * StartCash >= MinCashReservePct * (StartCash + Worth("upbit"))
    BY <2>2, <2>3, <2>4 DEF ReserveLeft, Equity, Init
  <2>7. MinCashReservePct <= 100
    <3> SUFFICES ASSUME MinCashReservePct > 100 PROVE FALSE
      OBVIOUS
    <3>1. PICK d \in Nat \ {0} : MinCashReservePct = 100 + d
      <4>1. /\ MinCashReservePct - 100 \in Nat \ {0}
            /\ MinCashReservePct = 100 + (MinCashReservePct - 100)
        OBVIOUS
      <4> QED
        BY <4>1
    <3> DEFINE w == Worth("upbit")
    <3> HIDE DEF w
    <3>2. w \in Nat /\ 100 * StartCash >= (100 + d) * (StartCash + w)
      BY <2>5, <2>6, <3>1 DEF w
    <3>3. (100 + d) * (StartCash + w) = 100 * StartCash + 100 * w + d * (StartCash + w)
      BY <3>2
    <3>4. d * (StartCash + w) \in Nat /\ d * (StartCash + w) > 0
      BY <3>2
    <3> QED
      BY <3>2, <3>3, <3>4
  <2> QED
    BY <2>1, <2>2, <2>7 DEF ReserveInv
<1>2. /\ OpenInv /\ AccountInv /\ OpenInv' /\ AccountInv' /\ [Next]_vars
      /\ MinCashReservePct <= 100 /\ ReserveInv
      => MinCashReservePct <= 100 /\ ReserveInv'
  BY LimitsStep
<1>3. OpenInv /\ AccountInv /\ ReserveInv => ReserveKept
  BY KeptIsLeft DEF OpenInv, AccountInv, ReserveInv
<1> DEFINE K == MinCashReservePct <= 100 /\ ReserveInv
<1>4. Init /\ OpenInv /\ AccountInv /\ ReserveKept => K
  BY <1>1
<1>5. OpenInv /\ AccountInv /\ OpenInv' /\ AccountInv' /\ [Next]_vars /\ K => K'
  BY <1>2
<1>6. OpenInv /\ AccountInv /\ K => ReserveKept
  BY <1>3
<1> HIDE DEF K
<1> QED
  BY <1>4, <1>5, <1>6, AccountAlways, PTL DEF Spec

\* If no position exceeds its share of the account at first, none ever does, what
\* is on its way included, but for the races that are recorded.
THEOREM PositionsStayCapped == Spec /\ PositionsCapped => []PositionsCapped
<1>1. Init /\ OpenInv /\ AccountInv /\ PositionsCapped => ShareInv
  BY KeptIsLeft DEF Init, OpenInv, AccountInv, ShareInv, BuyWaits
<1>2. OpenInv /\ AccountInv /\ OpenInv' /\ AccountInv' /\ [Next]_vars /\ ShareInv => ShareInv'
  BY LimitsStep
<1>3. OpenInv /\ AccountInv /\ ShareInv => PositionsCapped
  BY KeptIsLeft DEF OpenInv, AccountInv, ShareInv
<1> QED
  BY <1>1, <1>2, <1>3, AccountAlways, PTL DEF Spec
=============================================================================
