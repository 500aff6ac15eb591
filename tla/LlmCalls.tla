------------------------------ MODULE LlmCalls ------------------------------
(***************************************************************************)
(* The calls of the LLM: decisions, the collection of news and the review  *)
(* of the algorithm.  Each asks the runtime state and the token budget     *)
(* before it calls and changes both with the answer; any number of other   *)
(* calls, the user and the clock come in between.  After an answer the     *)
(* usage that OpenAI reports is fetched under a lock of its own.           *)
(*                                                                         *)
(* The clock counts the periods of the news.  Tokens are counted in coarse *)
(* units.                                                                  *)
(***************************************************************************)
EXTENDS Proposals

CONSTANTS
    Decisions, News, Reviews,   \* tasks that call the LLM
    Refreshes,                  \* requests to fetch the usage only
    MaxUsage,       \* tokens of one call, the most there can be
    Estimates,      \* estimates of the input of one call
    CycleLimit,     \* llm_cycle_input_token_limit
    Budgets,        \* llm_daily_token_budget, of which the settings admit no 0
    PeriodsPerDay,  \* of the news: two, morning and afternoon
    DaysPerMonth,
    Waits,          \* periods a backoff may last; 0 and 1 for the usual minute
    Reports,        \* totals that OpenAI may report
    MaxTime, MaxTotal, MaxCrashes   \* bounds

Callers == Decisions \cup News \cup Reviews
Tasks   == Callers \cup Refreshes

ASSUME LlmOK ==
    /\ IsFiniteSet(Callers) /\ Cardinality(News) <= 1
    /\ Decisions \cap News = {} /\ Decisions \cap Reviews = {} /\ News \cap Reviews = {}
    /\ Refreshes \cap Callers = {}
    /\ MaxUsage \in Nat /\ Estimates \subseteq Nat \ {0} /\ CycleLimit \in Nat
    /\ Budgets \subseteq Nat \ {0} /\ PeriodsPerDay \in Nat \ {0} /\ DaysPerMonth \in Nat \ {0}
    /\ Waits \subseteq Nat /\ Reports \subseteq Nat
    /\ MaxTime \in Nat /\ MaxTotal \in Nat /\ MaxCrashes \in Nat

VARIABLES
    now,
    config,     \* whether there is an API key, whether the LLM is enabled
    budget,     \* llm_daily_token_budget of the runtime settings
    runtime,    \* llm_runtime.json
    usage,      \* llm_usage.json
    synced,     \* openai_usage.json
    published,  \* the last period with a block in the news, Never if none has one
    pc,         \* where each task is
    since,      \* when a collection of news began
    asked,      \* when a task asked OpenAI for the usage
    up,         \* the process is running
    crashes,
    peak,       \* history: the largest budget since the usage of the day was reset
    width,      \* history: the most calls at once since then
    witnesses,  \* history: who was calling when the LLM was paused
    reviewed    \* history: proposals made by a review

stores == <<budget, runtime, usage, synced, published>>
tasks  == <<pc, since, asked>>
vars == <<now, config, stores, tasks, up, crashes, peak, width, witnesses, reviewed, proposals>>

Day   == now \div PeriodsPerDay
Month == Day \div DaysPerMonth

Normal     == [mode |-> "normal",  until |-> 0]
Paused     == [mode |-> "paused",  until |-> 0]
Backoff(r) == [mode |-> "backoff", until |-> now + r]

NoUsage == [day |-> Day, month |-> Month, today |-> 0, total |-> 0]
Never == -1
Larger(a, b) == IF a >= b THEN a ELSE b

Calling  == {c \in Callers : pc[c] = "called"}
InFlight == {c \in Callers : pc[c] # "idle"}

Init ==
    /\ now = 0 /\ up = FALSE /\ crashes = 0
    /\ config = [key |-> TRUE, enabled |-> TRUE]
    /\ budget \in Budgets /\ runtime = Normal /\ usage = NoUsage
    /\ synced = [day |-> 0, ok |-> FALSE, total |-> 0]
    /\ published = Never
    /\ pc = [c \in Tasks |-> "idle"]
    /\ since = [c \in News |-> 0] /\ asked = [c \in Tasks |-> 0]
    /\ peak = budget /\ width = 0 /\ witnesses = {} /\ reviewed = {}
    /\ InitProposals

-----------------------------------------------------------------------------
(* The runtime state. *)

\* Mutant: a pause runs out like a backoff.
StatusForgetsPause == IF runtime.mode # "normal" /\ now >= runtime.until THEN Normal ELSE runtime

\* status(): a backoff that is over is resumed.
Status == IF runtime.mode = "backoff" /\ now >= runtime.until THEN Normal ELSE runtime

\* Every change of the runtime state.  Who is calling at the begin of a pause
\* may end it.
SetRuntime(r) ==
    /\ runtime' = r
    /\ witnesses' = CASE r.mode # "paused" -> {}
                      [] runtime.mode = "paused" -> witnesses
                      [] OTHER -> InFlight

-----------------------------------------------------------------------------
(* The budget. *)

\* get(): the counters are reset on the first use of a day and of a month.
Rolled ==
    CASE usage.month # Month -> NoUsage
      [] usage.day # Day -> [usage EXCEPT !.day = Day, !.today = 0]
      [] OTHER -> usage

ReadUsage == usage' = Rolled

\* status(): the larger of the local count and a good report of today.
Used == IF synced.ok /\ synced.day = Day THEN Larger(Rolled.today, synced.total)
                                         ELSE Rolled.today

\* Whatever the budget.
Refused(n) == ~config.enabled \/ (CycleLimit > 0 /\ n > CycleLimit)

\* Mutant: what OpenAI reports replaces what was counted.
BlockedByReport(n) ==
    \/ Refused(n)
    \/ IF synced.ok /\ synced.day = Day THEN synced.total + n > budget
       ELSE Rolled.today + n > budget \/ Rolled.total + n > budget * DaysPerMonth

\* block_reason() for an estimate of n tokens.
Blocked(n) == Refused(n) \/ Used + n > budget \/ Rolled.total + n > budget * DaysPerMonth

\* record_usage()
Charge(n) == usage' = [Rolled EXCEPT !.today = @ + n, !.total = @ + n]

\* The history kept by every action: budgets and calls of one day.
Observe ==
    LET reset == usage'.day # usage.day
    IN /\ peak'  = IF reset THEN budget' ELSE Larger(peak, budget')
       /\ width' = Larger(IF reset THEN Cardinality(Calling) ELSE width, Cardinality(Calling'))

-----------------------------------------------------------------------------
(* Calls. *)

Call(c) ==
    /\ usage.total < MaxTotal
    /\ pc' = [pc EXCEPT ![c] = "called"]
    /\ since' = IF c \in News THEN [since EXCEPT ![c] = now] ELSE since
    /\ UNCHANGED asked

\* can_start_cycle() for some estimate of the input, then the call.
CallIfAdmitted(c) ==
    \E n \in Estimates :
        /\ usage' = IF Refused(n) THEN usage ELSE Rolled
        /\ IF Blocked(n) THEN UNCHANGED tasks ELSE Call(c)

\* A cycle or a preview: the guard is asked, then the client is called, which
\* pauses the LLM if there is no key.
StartDecision(c) ==
    /\ up /\ pc[c] = "idle"
    /\ \E n \in Estimates :
          CASE Status.mode # "normal" -> SetRuntime(Status) /\ UNCHANGED <<tasks, usage>>
            [] Status.mode = "normal" /\ Blocked(n) ->
                  SetRuntime(Status) /\ ReadUsage /\ UNCHANGED tasks
            [] Status.mode = "normal" /\ ~Blocked(n) /\ ~config.key ->
                  SetRuntime(Paused) /\ ReadUsage /\ UNCHANGED tasks
            [] OTHER -> SetRuntime(Status) /\ ReadUsage /\ Call(c)
    /\ UNCHANGED <<now, config, budget, synced, published, up, crashes, reviewed, proposals>>
    /\ Observe

\* The collection of news, a job with one instance; at most once per period.
StartNews(c) ==
    /\ up /\ pc[c] = "idle"
    /\ SetRuntime(IF config.key THEN Status ELSE Paused)
    /\ IF config.key /\ Status.mode = "normal" /\ now # published
       THEN CallIfAdmitted(c)
       ELSE UNCHANGED <<tasks, usage>>
    /\ UNCHANGED <<now, config, budget, synced, published, up, crashes, reviewed, proposals>>
    /\ Observe

\* Mutant: a review does not look for proposals that are pending.
StartReviewAnyway(c) ==
    /\ up /\ pc[c] = "idle" /\ config.key
    /\ SetRuntime(Status)
    /\ Status.mode = "normal" /\ CallIfAdmitted(c)
    /\ UNCHANGED <<now, config, budget, synced, published, up, crashes, reviewed, proposals>>
    /\ Observe

\* A review, by the job or the endpoint, while no proposal is pending; there
\* may be too little history.
StartReview(c) ==
    /\ up /\ pc[c] = "idle"
    /\ Pending = {} /\ config.key
    /\ SetRuntime(Status)
    /\ \/ UNCHANGED <<tasks, usage>>
       \/ Status.mode = "normal" /\ CallIfAdmitted(c)
    /\ UNCHANGED <<now, config, budget, synced, published, up, crashes, reviewed, proposals>>
    /\ Observe

\* The task is over; what it remembered is forgotten.
Return(c) ==
    /\ pc' = [pc EXCEPT ![c] = "idle"]
    /\ since' = IF c \in News THEN [since EXCEPT ![c] = 0] ELSE since
    /\ asked' = [asked EXCEPT ![c] = 0]

\* The call fails: a rate limit, a timeout or an error of the server, any other
\* status, or an exception that is not expected.  What it cost is not known.
CallFails(c) ==
    /\ pc[c] = "called" /\ Return(c)
    /\ \/ \E w \in Waits : SetRuntime(Backoff(w))
       \/ SetRuntime(Paused)
       \/ UNCHANGED <<runtime, witnesses>>
    /\ UNCHANGED <<now, config, budget, usage, synced, published, up, crashes, reviewed,
                   proposals>>
    /\ Observe

\* An answer, with its usage or without.
Answered(c) ==
    /\ pc[c] = "called" /\ pc' = [pc EXCEPT ![c] = "queued"]
    /\ \/ \E n \in 0..MaxUsage : Charge(n)
       \/ UNCHANGED usage
    /\ UNCHANGED <<now, config, budget, runtime, synced, published, since, asked, up, crashes,
                   witnesses, reviewed, proposals>>
    /\ Observe

-----------------------------------------------------------------------------
(* OpenAIUsageSyncService.refresh, and what follows it in the same step. *)

AskRefresh(c) ==
    /\ up /\ pc[c] = "idle"
    /\ pc' = [pc EXCEPT ![c] = "queued"]
    /\ UNCHANGED <<now, config, stores, since, asked, up, crashes, witnesses, reviewed,
                   proposals>>
    /\ Observe

\* Mutant: the lock is missing.
BeginSyncUnlocked(c) ==
    /\ pc[c] = "queued"
    /\ pc' = [pc EXCEPT ![c] = "syncing"] /\ asked' = [asked EXCEPT ![c] = now]
    /\ UNCHANGED <<now, config, stores, since, up, crashes, witnesses, reviewed, proposals>>
    /\ Observe

BeginSync(c) ==
    /\ pc[c] = "queued" /\ \A d \in Tasks : pc[d] # "syncing"
    /\ pc' = [pc EXCEPT ![c] = "syncing"] /\ asked' = [asked EXCEPT ![c] = now]
    /\ UNCHANGED <<now, config, stores, since, up, crashes, witnesses, reviewed, proposals>>
    /\ Observe

\* The report is kept under the day it was asked for; a failure keeps the
\* totals of today, marked as an error.
Report(c) ==
    \/ \E n \in Reports : synced' = [day |-> asked[c] \div PeriodsPerDay, ok |-> TRUE, total |-> n]
    \/ synced' = [day |-> Day, ok |-> FALSE,
                  total |-> IF synced.day = Day THEN synced.total ELSE 0]

\* An answer that is empty, incomplete or invalid.
Unusable ==
    /\ \E w \in Waits : SetRuntime(Backoff(w))
    /\ UNCHANGED <<published, reviewed, proposals>>

Useful == SetRuntime(Normal) /\ UNCHANGED <<published, reviewed, proposals>>

\* The rest of NewsCollector.run: the block is added under the period in which
\* the collection began.
ConcludeNews(c) ==
    /\ published' = since[c]
    /\ SetRuntime(Normal) /\ UNCHANGED <<reviewed, proposals>>

\* The rest of review(): a proposal is filed, whatever is pending by now.
ConcludeReview ==
    /\ SetRuntime(Normal) /\ UNCHANGED published
    /\ \E p \in Ids : Create(p) /\ reviewed' = reviewed \cup {p}

EndSync(c) ==
    /\ pc[c] = "syncing" /\ Return(c)
    /\ Report(c)
    /\ \/ c \in Callers /\ Unusable
       \/ c \in Decisions \cup Reviews /\ Useful
       \/ c \in News /\ ConcludeNews(c)
       \/ c \in Reviews /\ ConcludeReview
       \/ /\ c \in Reviews \cup Refreshes   \* an incomplete proposal, a refresh
          /\ UNCHANGED <<runtime, witnesses, published, reviewed, proposals>>
    /\ UNCHANGED <<now, config, budget, usage, up, crashes>>
    /\ Observe

-----------------------------------------------------------------------------
(* The user and the clock. *)

\* GET /status
ShowStatus ==
    /\ up /\ ReadUsage /\ SetRuntime(Status)
    /\ UNCHANGED <<now, config, budget, synced, published, tasks, up, crashes, reviewed, proposals>>
    /\ Observe

\* POST /settings/llm/resume
Resume ==
    /\ up /\ SetRuntime(Normal)
    /\ UNCHANGED <<now, config, budget, usage, synced, published, tasks, up, crashes,
                   reviewed, proposals>>
    /\ Observe

SetBudget ==
    /\ up
    /\ budget' \in Budgets
    /\ UNCHANGED <<now, config, runtime, usage, synced, published, tasks, up, crashes, witnesses,
                   reviewed, proposals>>
    /\ Observe

EditProposals ==
    /\ up
    /\ \E p \in Ids : Create(p) \/ Apply(p) \/ Cancel(p)
    /\ UNCHANGED <<now, config, stores, tasks, up, crashes, witnesses, reviewed>>
    /\ Observe

Tick ==
    /\ now < MaxTime /\ now' = now + 1
    /\ UNCHANGED <<config, stores, tasks, up, crashes, witnesses, reviewed, proposals>>
    /\ Observe

-----------------------------------------------------------------------------
(* The process. *)

\* Settings of the environment are read once.
Boot ==
    /\ ~up /\ up' = TRUE
    /\ config' \in [key : BOOLEAN, enabled : BOOLEAN]
    /\ Prepare
    /\ UNCHANGED <<now, stores, tasks, crashes, witnesses, reviewed>>
    /\ Observe

BootDies ==
    /\ ~up /\ crashes < MaxCrashes /\ crashes' = crashes + 1
    /\ DieInPrepare
    /\ UNCHANGED <<now, config, stores, tasks, up, witnesses, reviewed>>
    /\ Observe

\* Every task is gone.  A request or a review may have been in the middle of
\* writing a proposal.
Die ==
    /\ up /\ up' = FALSE /\ crashes < MaxCrashes /\ crashes' = crashes + 1
    /\ pc' = [c \in Tasks |-> "idle"]
    /\ since' = [c \in News |-> 0] /\ asked' = [c \in Tasks |-> 0]
    /\ \/ UNCHANGED <<proposals, reviewed>>
       \/ \E p \in Ids : DieInApply(p) /\ UNCHANGED reviewed
       \/ \E p \in Ids :
             /\ DieInCreate(p)
             /\ \/ UNCHANGED reviewed
                \/ /\ \E c \in Reviews : pc[c] = "syncing"
                   /\ reviewed' = reviewed \cup {p}
    /\ UNCHANGED <<now, config, stores, witnesses>>
    /\ Observe

Next ==
    \/ \E c \in Decisions : StartDecision(c)
    \/ \E c \in News : StartNews(c)
    \/ \E c \in Reviews : StartReview(c)
    \/ \E c \in Callers : CallFails(c) \/ Answered(c)
    \/ \E c \in Refreshes : AskRefresh(c)
    \/ \E c \in Tasks : BeginSync(c) \/ EndSync(c)
    \/ ShowStatus \/ Resume \/ SetBudget \/ EditProposals \/ Tick
    \/ Boot \/ BootDies \/ Die

Spec == Init /\ [][Next]_vars

-----------------------------------------------------------------------------
(* Properties. *)

TypeOK ==
    /\ now \in 0..MaxTime /\ up \in BOOLEAN /\ crashes \in 0..MaxCrashes
    /\ config \in [key : BOOLEAN, enabled : BOOLEAN] /\ budget \in Budgets
    /\ runtime \in [mode : {"normal", "paused", "backoff"}, until : Nat]
    /\ usage \in [day : 0..Day, month : 0..Month, today : Nat, total : Nat]
    /\ usage.today <= usage.total
    /\ synced \in [day : 0..Day, ok : BOOLEAN, total : Nat]
    /\ published \in 0..now \cup {Never}
    /\ pc \in [Tasks -> {"idle", "called", "queued", "syncing"}]
    /\ since \in [News -> 0..now] /\ asked \in [Tasks -> 0..now]
    /\ peak \in Nat /\ width \in Nat /\ witnesses \subseteq Callers /\ reviewed \subseteq Ids
    /\ ProposalsTyped

\* The budget is checked before a call and charged after it: the usage of a day
\* exceeds the largest budget that was set that day by no more than as many
\* calls as were in flight at once (llm_budget.py:182, 220).
BudgetOvershoot ==
    usage.today + MaxUsage * Cardinality(Calling) <= peak + MaxUsage * width

\* A pause is ended by the user, or by a call that had begun before the pause
\* (llm_runtime.py:46-62); in particular it survives a restart.
PauseLasts ==
    [][runtime.mode = "paused" /\ runtime'.mode # "paused" =>
          \/ Resume
          \/ \E c \in witnesses : pc[c] # "idle" /\ pc'[c] = "idle"]_vars

\* "While the user has not looked at a proposal, no new ones are piled up"
\* (algorithm_review.py:84): reviews that overlap may file one each, and
\* nothing is added to those however often a review is asked for.
PendingAreFew ==
    Cardinality(Pending \cap reviewed) + Cardinality(InFlight \cap Reviews) <= Cardinality(Reviews)

\* The report of a day is never replaced by one of the day before, however
\* long the requests take (openai_usage_sync.py:83).
ReportsInOrder == [][synced'.day >= synced.day]_vars
=============================================================================
