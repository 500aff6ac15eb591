-------------------------- MODULE DecisionScheduler --------------------------
(***************************************************************************)
(* AdaptiveDecisionScheduler: a chain of one-shot decision cycles, each of *)
(* which schedules the next one, in an in-memory APScheduler; the time of  *)
(* the next cycle is also kept in scheduler.json for a restart.  The chain *)
(* must not break, whatever cycles raise, however the switch is toggled    *)
(* and whenever the process stops.                                         *)
(*                                                                         *)
(* APScheduler is external: a due job whose lateness exceeds its           *)
(* misfire_grace_time, or whose previous run has not ended, is dropped.    *)
(***************************************************************************)
EXTENDS Integers

CONSTANTS
    Default, Shortest, Longest,  \* decision_*_interval_minutes
    Proposed,                    \* intervals that the LLM may propose
    Grace,                       \* misfire_grace_time
    MaxPause,     \* the longest the host or the event loop may stand still
    MaxTime,      \* bound on the clock
    MaxRestarts   \* bound on the number of restarts

ASSUME ConstantsOK ==
    /\ Shortest \in Nat \ {0} /\ Longest \in Nat /\ Shortest <= Longest
    /\ Default \in Int /\ Proposed \subseteq Int
    /\ Grace \in Nat /\ MaxPause \in Nat
    /\ MaxTime \in Nat /\ MaxRestarts \in Nat

VARIABLES
    enabled, mode,   \* settings.json: scheduler_enabled, mode
    plan, report,    \* scheduler.json: next_decision_at, last_run
    up,              \* the process serves requests
    running,         \* APScheduler runs
    job,             \* run date of "adaptive-decision-cycle", if it exists
    cycle,           \* the coroutine _run_decision_cycle
    live,            \* ... the mode it read when it began
    ordered,         \* ... whether it has placed an order
    now, restarts,
    started,         \* history: when the last cycle began
    stalled          \* history: stood still beyond the grace time since
                     \* the process started or was switched on

settings == <<enabled, mode>>
state    == <<plan, report>>
sched    == <<up, running, job>>
run      == <<cycle, live, ordered, started, stalled>>
vars     == <<settings, state, sched, run, now, restarts>>

Never == -1
Times == Nat \cup {Never}
Reports == [status : {"none", "completed", "blocked", "failed"}, ordered : BOOLEAN]

TypeOK ==
    /\ enabled \in BOOLEAN /\ mode \in {"paper", "live"}
    /\ plan \in Times /\ job \in Times /\ started \in Times
    /\ report \in Reports
    /\ up \in BOOLEAN /\ running \in BOOLEAN
    /\ cycle \in {"idle", "fired", "running"}
    /\ live \in BOOLEAN /\ ordered \in BOOLEAN /\ stalled \in BOOLEAN
    /\ now \in Nat /\ restarts \in Nat

Init ==
    /\ enabled \in BOOLEAN /\ mode \in {"paper", "live"}
    /\ plan = Never /\ report = [status |-> "none", ordered |-> FALSE]
    /\ up = FALSE /\ running = FALSE /\ job = Never
    /\ cycle = "idle" /\ live = FALSE /\ ordered = FALSE
    /\ now = 0 /\ restarts = 0 /\ started = Never /\ stalled = FALSE

-----------------------------------------------------------------------------
\* config.clamp_decision_interval
Clamp(minutes) ==
    IF minutes > Longest THEN Longest ELSE IF minutes < Shortest THEN Shortest ELSE minutes

\* Mutant: the plan is only written down when APScheduler does not run.
ScheduleUnsaved(time, on) ==
    IF on THEN job' = time /\ plan' = plan ELSE job' = job /\ plan' = time

\* schedule_next / _schedule_at: replaces the job if APScheduler runs, and
\* writes the plan down.
ScheduleAt(time, on) ==
    /\ job' = IF on THEN time ELSE job
    /\ plan' = time

ScheduleNext(minutes, on) == ScheduleAt(now + Clamp(minutes), on)

\* Mutant: a plan that was missed is caught up with at once.
BootCatchesUp ==
    /\ ~up
    /\ up' = TRUE
    /\ running' = enabled /\ stalled' = FALSE
    /\ IF ~enabled THEN UNCHANGED <<job, plan>>
       ELSE IF plan # Never THEN ScheduleAt(IF plan > now THEN plan ELSE now, TRUE)
       ELSE ScheduleNext(Default, TRUE)
    /\ UNCHANGED <<settings, report, cycle, live, ordered, started, now, restarts>>

\* The process starts; start() honours a plan that still lies ahead.
Boot ==
    /\ ~up
    /\ up' = TRUE
    /\ running' = enabled /\ stalled' = FALSE
    /\ IF ~enabled THEN UNCHANGED <<job, plan>>
       ELSE IF plan > now THEN ScheduleAt(plan, TRUE)
       ELSE ScheduleNext(Default, TRUE)
    /\ UNCHANGED <<settings, report, cycle, live, ordered, started, now, restarts>>

\* set_enabled(True)
Enable ==
    /\ up
    /\ enabled' = TRUE
    /\ running' = TRUE /\ stalled' = FALSE
    /\ ScheduleNext(Default, TRUE)
    /\ UNCHANGED <<mode, report, up, cycle, live, ordered, started, now, restarts>>

\* set_enabled(False): every job is removed, a cycle that runs goes on.
Disable ==
    /\ up
    /\ enabled' = FALSE
    /\ job' = Never
    /\ plan' = Never
    /\ UNCHANGED <<mode, report, up, running, run, now, restarts>>

SetMode(m) ==
    /\ up
    /\ mode' = m
    /\ UNCHANGED <<enabled, state, sched, run, now, restarts>>

\* RuntimeSettingsService.get on an unreadable file.
SettingsUnreadable ==
    /\ up
    /\ enabled' = FALSE /\ mode' = "paper"
    /\ UNCHANGED <<state, sched, run, now, restarts>>

-----------------------------------------------------------------------------
(* The decision cycle *)

\* APScheduler hands the due job to the event loop, or drops it because the
\* previous run has not ended.  A date job leaves the store either way.
Fire ==
    /\ up /\ running
    /\ job # Never /\ job <= now /\ now - job <= Grace
    /\ job' = Never
    /\ cycle' = IF cycle = "idle" THEN "fired" ELSE cycle
    /\ UNCHANGED <<settings, state, up, running, live, ordered, started, stalled, now,
                   restarts>>

\* The job is late beyond its grace time.
Misfire ==
    /\ up /\ running
    /\ job # Never /\ now - job > Grace
    /\ job' = Never
    /\ UNCHANGED <<settings, state, up, running, run, now, restarts>>

\* _run_decision_cycle begins; it returns at once if it was switched off.
Begin ==
    /\ up /\ cycle = "fired"
    /\ IF enabled
       THEN cycle' = "running" /\ live' = (mode = "live") /\ started' = now
       ELSE cycle' = "idle" /\ UNCHANGED <<live, started>>
    /\ ordered' = FALSE
    /\ UNCHANGED <<settings, state, sched, stalled, now, restarts>>

\* The cycle places an order (PaperAutoCycleService, LiveAutoCycleService).
PlaceOrder ==
    /\ up /\ cycle = "running"
    /\ ordered' = TRUE
    /\ UNCHANGED <<settings, state, sched, cycle, live, started, stalled, now, restarts>>

\* Mutant: the next cycle is scheduled on success only.
EndsAndSchedules(status, minutes) ==
    /\ up /\ cycle = "running"
    /\ cycle' = "idle"
    /\ report' = [status |-> status, ordered |-> ordered]
    /\ IF enabled /\ status = "completed" THEN ScheduleNext(minutes, running)
       ELSE UNCHANGED <<job, plan>>
    /\ UNCHANGED <<settings, up, running, live, ordered, started, stalled, now, restarts>>

\* save_last_run, and the finally block.
Ends(status, minutes) ==
    /\ up /\ cycle = "running"
    /\ cycle' = "idle"
    /\ report' = [status |-> status, ordered |-> ordered]
    /\ IF enabled THEN ScheduleNext(minutes, running) ELSE UNCHANGED <<job, plan>>
    /\ UNCHANGED <<settings, up, running, live, ordered, started, stalled, now, restarts>>

\* run() returned "completed".  The report reads item.order, which the items
\* of a live cycle do not have: with any item it raises AttributeError.
Completes(minutes) ==
    /\ up /\ cycle = "running"
    /\ \E items \in IF ordered THEN {TRUE} ELSE BOOLEAN :
         Ends(IF live /\ items THEN "failed" ELSE "completed", minutes)

\* run() returned "blocked": nothing was decided.
Blocked == ~ordered /\ Ends("blocked", Default)

\* run() raised, at any point.
Raises == Ends("failed", Default)

Outcomes == {"failed"} \cup (IF ordered THEN {} ELSE {"blocked"})
                       \cup (IF ordered /\ live THEN {} ELSE {"completed"})

\* The process dies between save_last_run and the finally block.
DiesInEnd(status) ==
    /\ up /\ cycle = "running" /\ restarts < MaxRestarts
    /\ report' = [status |-> status, ordered |-> ordered]
    /\ up' = FALSE /\ running' = FALSE /\ job' = Never
    /\ cycle' = "idle"
    /\ restarts' = restarts + 1
    /\ UNCHANGED <<settings, plan, live, ordered, started, stalled, now>>

-----------------------------------------------------------------------------
\* The process ends.  On a shutdown the cancelled cycle may still run its
\* finally block, with APScheduler stopped: only the plan is written.
Stop ==
    /\ up /\ restarts < MaxRestarts
    /\ restarts' = restarts + 1
    /\ up' = FALSE /\ running' = FALSE /\ job' = Never
    /\ cycle' = "idle"
    /\ plan' \in {plan} \cup (IF cycle = "running" /\ enabled
                              THEN {now + Clamp(Default)} ELSE {})
    /\ UNCHANGED <<settings, report, live, ordered, started, stalled, now>>

\* While the process is awake, a job that is due runs before time goes on.
Prompt == up => (cycle # "fired" /\ (job = Never \/ now < job))

Tick ==
    /\ now < MaxTime /\ Prompt
    /\ now' = now + 1
    /\ UNCHANGED <<settings, state, sched, run, restarts>>

\* The host is suspended, or the event loop is blocked by synchronous code.
Pause(d) ==
    /\ up /\ now + d <= MaxTime
    /\ cycle # "fired" /\ (job = Never \/ now <= job)
    /\ now' = now + d
    /\ stalled' = (stalled \/ d > Grace)
    /\ UNCHANGED <<settings, state, sched, cycle, live, ordered, started, restarts>>

CycleStep ==
    \/ Begin \/ PlaceOrder \/ Blocked \/ Raises
    \/ \E m \in Proposed \cup {Default} : Completes(m)
    \/ \E s \in Outcomes : DiesInEnd(s)

Next ==
    \/ Boot \/ Stop
    \/ Enable \/ Disable \/ SettingsUnreadable
    \/ \E m \in {"paper", "live"} : SetMode(m)
    \/ Fire \/ Misfire
    \/ CycleStep
    \/ Tick
    \/ \E d \in 1..MaxPause : Pause(d)

Spec == Init /\ [][Next]_vars

-----------------------------------------------------------------------------
\* scheduler.py:335, 356: while the scheduler is switched on, a next cycle is
\* scheduled, or one runs that will schedule it; otherwise "automation would
\* silently stop".
NeverSilent == up /\ enabled => job # Never \/ cycle # "idle"

\* Toggling, failing and overlapping cycles and restarts never end the chain;
\* only a process that stood still beyond the grace time can have lost it, and
\* a restart or the switch mends it.
ChainAlive == ~stalled => NeverSilent

\* The plan on disk is what the job in memory will do, so that a restart at any
\* moment honours it (ARCHITECTURE.md 1211).
PlanIsDurable == job # Never => plan = job

\* Two decision cycles begin at least Shortest apart (ARCHITECTURE.md 549),
\* also across restarts, toggles and proposals outside the limits.
CyclesSpaced ==
    [][started' # started /\ started # Never => started' - started >= Shortest]_vars

\* scheduler.py:350: after a failed cycle the user is told that it ended
\* without new orders.
FailedWithoutOrders == report.status = "failed" => ~report.ordered

\* Why the spacing holds: every plan keeps its distance from the last start.
Spaced(time) == started # Never => time >= started + Shortest

\* What holds of the plan, the job and the last start.
BaseInv ==
    /\ TypeOK
    /\ up /\ enabled => running
    /\ ~up => job = Never /\ cycle = "idle"
    /\ job # Never => plan = job /\ Spaced(job) /\ (stalled \/ now - job <= Grace)
    /\ plan > now => Spaced(plan)
    /\ cycle = "fired" => /\ Spaced(now)
                          /\ job # Never => job >= now + Shortest
                          /\ plan > now => plan >= now + Shortest
    /\ started <= now

\* The inductive invariant of the proofs.
IInv == BaseInv /\ ChainAlive
=============================================================================
