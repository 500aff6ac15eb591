----------------------- MODULE DecisionSchedulerProofs -----------------------
(***************************************************************************)
(* Proofs about DecisionScheduler, for every choice of the intervals.      *)
(***************************************************************************)
EXTENDS DecisionScheduler, TLAPS

USE ConstantsOK DEF settings, state, sched, run, vars

\* The limits of clamp_decision_interval.
LEMMA ClampBounds ==
  ASSUME NEW m \in Int
  PROVE  Clamp(m) \in Int /\ Clamp(m) >= Shortest /\ Clamp(m) <= Longest
  BY DEF Clamp

\* A plan made now keeps its distance from the last start.
LEMMA NewPlan ==
  ASSUME BaseInv, NEW m \in Int
  PROVE  /\ now + Clamp(m) \in Times \ {Never} /\ now + Clamp(m) > now
         /\ Spaced(now + Clamp(m))
  BY ClampBounds DEF BaseInv, TypeOK, Spaced, Times, Never

\* The invariant holds initially.
LEMMA InitBase == Init => BaseInv
<1> SUFFICES ASSUME Init PROVE BaseInv
  OBVIOUS
<1>1. TypeOK
  BY DEF Init, TypeOK, Times, Reports
<1>2. job = Never /\ started = Never /\ ~(plan > now) /\ started <= now
  BY DEF Init, Never
<1> QED
  BY <1>1, <1>2 DEF Init, BaseInv, Spaced

\* Settings, starts and stops preserve it.
LEMMA ProcessBase ==
  ASSUME BaseInv,
         Boot \/ Stop \/ Enable \/ Disable \/ SettingsUnreadable
           \/ \E m \in {"paper", "live"} : SetMode(m)
  PROVE  BaseInv'
<1>0. now + Clamp(Default) \in Times \ {Never} /\ now + Clamp(Default) > now
        /\ Spaced(now + Clamp(Default))
  BY NewPlan
<1>1. CASE Boot
  <2>1. TypeOK'
    BY <1>0, <1>1 DEF Boot, ScheduleNext, ScheduleAt, BaseInv, TypeOK, Times
  <2>2. CASE enabled /\ plan > now
    BY <1>1, <2>1, <2>2 DEF Boot, ScheduleAt, BaseInv, TypeOK, Spaced, Times, Never
  <2>3. CASE ~enabled
    BY <1>1, <2>1, <2>3 DEF Boot, BaseInv, Spaced
  <2>4. CASE enabled /\ ~(plan > now)
    BY <1>0, <1>1, <2>1, <2>4 DEF Boot, ScheduleNext, ScheduleAt, BaseInv, TypeOK, Spaced, Times, Never
  <2> QED
    BY <2>2, <2>3, <2>4
<1>2. CASE Stop
  <2>0. /\ plan' \in Times /\ job' \in Times /\ cycle' = "idle"
        /\ up' = FALSE /\ running' = FALSE /\ restarts' = restarts + 1
        /\ UNCHANGED <<settings, report, live, ordered, started, stalled, now>>
    BY <1>0, <1>2 DEF Stop, BaseInv, TypeOK, Times
  <2>1. TypeOK'
    <3>1. TypeOK
      BY DEF BaseInv
    <3>2. restarts' \in Nat
      BY <2>0, <3>1 DEF TypeOK
    <3> QED
      BY <2>0, <3>1, <3>2 DEF TypeOK
  <2>2. plan' > now' => Spaced(plan)'
    BY <1>0, <1>2 DEF Stop, BaseInv, TypeOK, Spaced
  <2> QED
    BY <1>2, <2>1, <2>2 DEF Stop, BaseInv
<1>3. CASE Enable
  <2>1. now + Clamp(Default) >= now + Shortest
    BY ClampBounds DEF BaseInv, TypeOK
  <2>2. TypeOK'
    BY <1>0, <1>3 DEF Enable, ScheduleNext, ScheduleAt, BaseInv, TypeOK, Times
  <2> QED
    BY <1>0, <1>3, <2>1, <2>2 DEF Enable, ScheduleNext, ScheduleAt, BaseInv, TypeOK, Spaced, Times, Never
<1>4. CASE Disable
  <2>1. TypeOK'
    BY <1>4 DEF Disable, BaseInv, TypeOK, Times
  <2>2. ~(plan' > now')
    BY <1>4 DEF Disable, BaseInv, TypeOK, Never
  <2> QED
    BY <1>4, <2>1, <2>2 DEF Disable, BaseInv, Spaced
<1>5. CASE SettingsUnreadable
  BY <1>5 DEF SettingsUnreadable, BaseInv, TypeOK, Spaced
<1>6. CASE \E m \in {"paper", "live"} : SetMode(m)
  BY <1>6 DEF SetMode, BaseInv, TypeOK, Spaced
<1> QED
  BY <1>1, <1>2, <1>3, <1>4, <1>5, <1>6

\* The steps of a cycle preserve it.
LEMMA CycleBase ==
  ASSUME BaseInv, CycleStep
  PROVE  BaseInv'
<1>1. ASSUME NEW s \in {"completed", "blocked", "failed"}, NEW m \in Int, Ends(s, m)
      PROVE  BaseInv'
  <2>1. now + Clamp(m) \in Times \ {Never} /\ now + Clamp(m) > now
          /\ Spaced(now + Clamp(m))
    BY NewPlan
  <2>2. report' \in Reports
    BY <1>1 DEF Ends, Reports, BaseInv, TypeOK
  <2> QED
    BY <1>1, <2>1, <2>2 DEF Ends, ScheduleNext, ScheduleAt, BaseInv, TypeOK, Spaced, Times, Never
<1>2. CASE Begin
  <2>0. /\ live' \in BOOLEAN /\ ordered' \in BOOLEAN
        /\ started' \in Times /\ cycle' \in {"running", "idle"}
        /\ UNCHANGED <<settings, state, sched, stalled, now, restarts>>
    BY <1>2 DEF Begin, BaseInv, TypeOK, Times
  <2>1. TypeOK'
    BY <2>0 DEF BaseInv, TypeOK
  <2>2. CASE enabled
    BY <1>2, <2>1, <2>2 DEF Begin, BaseInv, TypeOK, Spaced
  <2>3. CASE ~enabled
    BY <1>2, <2>1, <2>3 DEF Begin, BaseInv, Spaced
  <2> QED
    BY <2>2, <2>3
<1>3. CASE PlaceOrder
  BY <1>3 DEF PlaceOrder, BaseInv, TypeOK, Spaced
<1>4. CASE Blocked \/ Raises \/ \E m \in Proposed \cup {Default} : Completes(m)
  BY <1>1, <1>4 DEF Blocked, Raises, Completes
<1>5. CASE \E s \in Outcomes : DiesInEnd(s)
  <2>1. PICK s \in {"completed", "blocked", "failed"} : DiesInEnd(s)
    BY <1>5 DEF Outcomes
  <2>2. report' \in Reports
    BY <2>1 DEF DiesInEnd, BaseInv, TypeOK, Reports
  <2>3. TypeOK'
    <3>1. TypeOK
      BY DEF BaseInv
    <3>2. restarts' \in Nat /\ job' \in Times
      BY <2>1, <3>1 DEF DiesInEnd, TypeOK, Times
    <3> QED
      BY <2>1, <2>2, <3>1, <3>2 DEF DiesInEnd, TypeOK
  <2> QED
    BY <2>1, <2>3 DEF DiesInEnd, BaseInv, Spaced
<1> QED
  BY <1>2, <1>3, <1>4, <1>5 DEF CycleStep

\* So do APScheduler and the clock.
LEMMA TimeBase ==
  ASSUME BaseInv, Fire \/ Misfire \/ Tick \/ \E d \in 1..MaxPause : Pause(d)
  PROVE  BaseInv'
<1>1. CASE Fire
  <2>1. TypeOK'
    BY <1>1 DEF Fire, BaseInv, TypeOK, Times
  <2>2. /\ job \in Nat /\ job <= now /\ job' = Never
        /\ cycle' \in {"fired", cycle} /\ up
        /\ UNCHANGED <<settings, state, up, running, started, stalled, now>>
    BY <1>1 DEF Fire, BaseInv, TypeOK, Times
  <2>3. plan = job /\ Spaced(job)
    BY <2>2 DEF BaseInv, Never
  <2>4. Spaced(now)
    BY <2>2, <2>3 DEF BaseInv, TypeOK, Times, Spaced, Never
  <2>5. ~(plan > now)
    BY <2>2, <2>3 DEF BaseInv, TypeOK
  <2> QED
    <3>1. /\ up' /\ enabled' => running'
          /\ up' /\ job' = Never /\ started' <= now'
      BY <2>2 DEF BaseInv
    <3>2. Spaced(now)' /\ ~(plan' > now')
      BY <2>2, <2>4, <2>5 DEF Spaced
    <3> QED
      BY <2>1, <3>1, <3>2 DEF BaseInv
<1>2. CASE Misfire
  BY <1>2 DEF Misfire, BaseInv, TypeOK, Spaced, Times, Never
<1>3. CASE Tick
  BY <1>3 DEF Tick, Prompt, BaseInv, TypeOK, Spaced, Times, Never
<1>4. CASE \E d \in 1..MaxPause : Pause(d)
  <2>1. PICK d \in 1..MaxPause : Pause(d)
    BY <1>4
  <2>2. /\ now' = now + d /\ now' >= now /\ cycle # "fired"
        /\ job # Never => now <= job
        /\ UNCHANGED <<settings, state, sched, cycle, live, ordered, started, restarts>>
    BY <2>1 DEF Pause, BaseInv, TypeOK
  <2>3. stalled' = (stalled \/ d > Grace)
    BY <2>1 DEF Pause
  <2>4. TypeOK'
    BY <2>2, <2>3 DEF BaseInv, TypeOK
  <2>5. ASSUME job # Never PROVE stalled' \/ now' - job <= Grace
    BY <2>2, <2>3, <2>5 DEF BaseInv, TypeOK, Times, Never
  <2>6. plan' > now' => Spaced(plan)'
    BY <2>2 DEF BaseInv, TypeOK, Times, Spaced, Never
  <2>7. started' <= now'
    BY <2>2 DEF BaseInv, TypeOK, Times, Never
  <2> QED
    BY <2>2, <2>4, <2>5, <2>6, <2>7 DEF BaseInv, Spaced
<1> QED
  BY <1>1, <1>2, <1>3, <1>4

\* Every step preserves the part of the invariant that needs no assumption.
LEMMA NextBase ==
  ASSUME BaseInv, [Next]_vars
  PROVE  BaseInv'
<1>1. CASE UNCHANGED vars
  BY <1>1 DEF BaseInv, TypeOK, Spaced
<1> QED
  BY <1>1, ProcessBase, CycleBase, TimeBase DEF Next

\* The base invariant holds in every reachable state.
THEOREM Base == Spec => []BaseInv
<1>1. Init => BaseInv
  BY InitBase
<1>2. BaseInv /\ [Next]_vars => BaseInv'
  BY NextBase
<1> QED
  BY <1>1, <1>2, PTL DEF Spec

\* The plan on disk is always the run date of the job in memory.
THEOREM DurablePlan == Spec => []PlanIsDurable
<1>1. BaseInv => PlanIsDurable
  BY DEF BaseInv, PlanIsDurable
<1> QED
  BY <1>1, Base, PTL

\* Two decision cycles begin at least Shortest apart, whatever intervals are
\* proposed or configured, and whatever the switch, crashes and pauses do.
THEOREM Spacing == Spec => CyclesSpaced
<1>1. ASSUME BaseInv, [Next]_vars, started' # started, started # Never
      PROVE  started' - started >= Shortest
  <2>1. Begin
    BY <1>1 DEF Next, CycleStep, Boot, Stop, Enable, Disable, SettingsUnreadable, SetMode,
         Fire, Misfire, PlaceOrder, Blocked, Raises, Completes, Ends, DiesInEnd, Tick, Pause
  <2> QED
    BY <1>1, <2>1 DEF Begin, BaseInv, Spaced, TypeOK, Times, Never
<1> QED
  BY <1>1, Base, PTL DEF Spec, CyclesSpaced

\* A job is late only by a pause, so it misfires only after a long one.
LEMMA MisfireStalled ==
  ASSUME BaseInv, Misfire
  PROVE  stalled /\ stalled'
  BY DEF Misfire, BaseInv, TypeOK, Times, Never

\* Every step keeps the chain alive.
LEMMA NextAlive ==
  ASSUME IInv, [Next]_vars
  PROVE  ChainAlive'
<1> USE DEF IInv, ChainAlive, NeverSilent
<1>0. \A m \in Int : now + Clamp(m) # Never
  BY NewPlan
<1>1. CASE UNCHANGED vars
  BY <1>1
<1>2. CASE Boot
  BY <1>0, <1>2 DEF Boot, ScheduleNext, ScheduleAt, BaseInv, TypeOK, Times, Never
<1>3. CASE Stop \/ Disable \/ SettingsUnreadable \/ \E m \in {"paper", "live"} : SetMode(m)
  BY <1>3 DEF Stop, Disable, SettingsUnreadable, SetMode
<1>4. CASE Enable
  BY <1>0, <1>4 DEF Enable, ScheduleNext, ScheduleAt
<1>5. CASE Fire
  BY <1>5 DEF Fire
<1>6. CASE CycleStep
  <2>1. ASSUME NEW s, NEW m \in Int, Ends(s, m)
        PROVE  ChainAlive'
    BY <1>0, <2>1 DEF Ends, ScheduleNext, ScheduleAt, BaseInv
  <2>2. CASE Begin \/ PlaceOrder
    BY <2>2 DEF Begin, PlaceOrder
  <2>3. CASE \E s \in Outcomes : DiesInEnd(s)
    BY <2>3 DEF DiesInEnd
  <2>4. CASE Blocked \/ Raises \/ \E m \in Proposed \cup {Default} : Completes(m)
    BY <2>1, <2>4 DEF Blocked, Raises, Completes
  <2> QED
    BY <1>6, <2>2, <2>3, <2>4 DEF CycleStep
<1>7. CASE Tick \/ \E d \in 1..MaxPause : Pause(d)
  BY <1>7 DEF Tick, Pause
<1>8. CASE Misfire
  BY <1>8, MisfireStalled
<1> QED
  BY <1>1, <1>2, <1>3, <1>4, <1>5, <1>6, <1>7, <1>8 DEF Next

\* As long as the process has not stood still beyond the grace time of the job
\* since it was started or switched on, the chain of decision cycles goes on.
THEOREM Chain == Spec => []ChainAlive
<1>1. Init => IInv
  BY InitBase DEF IInv, Init, ChainAlive, NeverSilent
<1>2. IInv /\ [Next]_vars => IInv'
  BY NextBase, NextAlive DEF IInv
<1>3. IInv => ChainAlive
  BY DEF IInv
<1> QED
  BY <1>1, <1>2, <1>3, PTL DEF Spec
=============================================================================
