----------------------------- MODULE AgentPool -----------------------------
(*******************************************************************************)
(* AgentPool.fan_out (ryuu_execution/pool.py): tasks of one scope executed     *)
(* concurrently by agents that share a RateLimiter, a CostTracker and an       *)
(* AuditLogger, each through BaseAgent.execute (ryuu_execution/agent.py).      *)
(*                                                                             *)
(* A step is the code between two awaits.  What an agent's _execute returns,   *)
(* costs or raises is its own choice.  The semaphore is first come, first      *)
(* served; here it lets in any task that waits.  Time advances in ticks: a     *)
(* token of the bucket is worth PerToken ticks, rps = 1 / PerToken.  Which     *)
(* agent gets which task is left out: the tasks differ in their estimates.     *)
(*******************************************************************************)
EXTENDS Integers, FiniteSets

CONSTANTS
    Tasks,          \* the tasks of the fan_out
    MaxConcurrency, \* AgentPool.max_concurrency
    Estimates,      \* what Task.estimated_cost may be
    NoEstimate,     \* estimated_cost is None, as the factory leaves it
    MinEstimate,    \* a lower bound of the estimates
    MaxCost,        \* an upper bound of what one call costs
    Cap,            \* the smallest cap of CostPolicy
    Burst,          \* RatePolicy.burst
    PerToken        \* ticks in which the bucket gains one token

ASSUME PoolAssumption ==
    /\ MaxConcurrency \in Nat \ {0}
    /\ MinEstimate \in Nat /\ MaxCost \in Nat /\ MinEstimate <= MaxCost
    /\ Cap \in Nat
    /\ NoEstimate \notin Int
    /\ Estimates \subseteq {e \in Nat : e >= MinEstimate} \cup {NoEstimate}
    /\ Burst \in Nat /\ PerToken \in Nat \ {0}
ASSUME TasksAssumption == IsFiniteSet(Tasks)

VARIABLES
    on_error,  \* "fail_fast" or "collect"
    estimate,  \* estimated_cost of each task
    pc,        \* what each task awaits, and how it ended
    results,   \* the results list of fan_out
    audit,     \* the last audit event of each task
    spent,     \* total_usd of the scope in the cost store
    bucket,    \* the scope's token bucket: tokens, and ticks since last_refill
    granted,   \* calls the rate limiter let through
    elapsed,   \* ticks since the first of them
    stop,      \* why the task group was cancelled
    fanout     \* what fan_out did: it runs, returned or raised

limiterVars == <<bucket, granted, elapsed>>
vars == <<on_error, estimate, pc, results, audit, spent, limiterVars, stop, fanout>>

-----------------------------------------------------------------------------
Full == Burst * PerToken
Horizon == Cardinality(Tasks) * PerToken   \* later ticks cannot break RateIsKept

Init ==
    /\ on_error \in {"fail_fast", "collect"}
    /\ estimate \in [Tasks -> Estimates]
    /\ pc = [t \in Tasks |-> "queued"]
    /\ results = [t \in Tasks |-> "none"]
    /\ audit = [t \in Tasks |-> "none"]
    /\ spent = 0
    /\ bucket = [tokens |-> Full, lag |-> 0]
    /\ granted = 0
    /\ elapsed = 0
    /\ stop = "none"
    /\ fanout = "running"

Waiting == {"queued", "limited", "executing"}
Holding == {t \in Tasks : pc[t] \in {"limited", "executing"}}
Executing == {t \in Tasks : pc[t] = "executing"}

-----------------------------------------------------------------------------
\* A task that raised ends the whole group, or leaves an error in its place.
Raise(t) ==
    /\ pc' = [pc EXCEPT ![t] = "raised"]
    /\ \/ /\ on_error = "fail_fast"
          /\ stop' = IF stop = "none" THEN "error" ELSE stop
          /\ UNCHANGED results
       \/ /\ on_error = "collect"
          /\ results' = [results EXCEPT ![t] = "error"]
          /\ UNCHANGED stop

\* async with semaphore
Enter(t) ==
    /\ pc[t] = "queued"
    /\ Cardinality(Holding) < MaxConcurrency
    /\ pc' = [pc EXCEPT ![t] = "limited"]
    /\ UNCHANGED <<on_error, estimate, results, audit, spent, limiterVars, stop, fanout>>

Tick ==
    /\ bucket' = [bucket EXCEPT !.lag = IF @ < Full THEN @ + 1 ELSE @]
    /\ elapsed' = IF granted > 0 /\ elapsed < Horizon THEN elapsed + 1 ELSE elapsed
    /\ UNCHANGED <<on_error, estimate, pc, results, audit, spent, granted, stop, fanout>>

\* RateLimiter._refill: the tokens the bucket has from now on.
Refilled == IF bucket.tokens + bucket.lag < Full THEN bucket.tokens + bucket.lag ELSE Full

\* Mutant of Limited: last_refill moves on, but part of a token is not kept.
LimitedLosingTime(t) ==
    /\ pc[t] = "limited"
    /\ Refilled < PerToken
    /\ bucket' = [bucket EXCEPT !.lag = 0]
    /\ UNCHANGED <<on_error, estimate, pc, results, audit, spent, granted, elapsed, stop, fanout>>

\* The rate limiter is polled and has no token: sleep for the backoff.
Limited(t) ==
    /\ pc[t] = "limited"
    /\ Refilled < PerToken
    /\ bucket' = [tokens |-> Refilled, lag |-> 0]
    /\ UNCHANGED <<on_error, estimate, pc, results, audit, spent, granted, elapsed, stop, fanout>>

\* Mutant of Grant: the token is seen but not taken.
GrantWithoutTaking ==
    /\ Refilled >= PerToken
    /\ bucket' = [tokens |-> Refilled, lag |-> 0]
    /\ granted' = granted + 1
    /\ UNCHANGED elapsed

\* It has a token.
Grant ==
    /\ Refilled >= PerToken
    /\ bucket' = [tokens |-> Refilled - PerToken, lag |-> 0]
    /\ granted' = granted + 1
    /\ UNCHANGED elapsed

\* Mutant of WithinBudget: what was spent is compared, not what is projected.
WithinSpent(t) == estimate[t] # NoEstimate => spent <= Cap

\* CostTracker.enforce
WithinBudget(t) == estimate[t] # NoEstimate => spent + estimate[t] <= Cap

\* acquire returned: enforce lets the call through, log_start, and _execute runs to
\* its first await.
Start(t) ==
    /\ pc[t] = "limited"
    /\ Grant
    /\ WithinBudget(t)
    /\ pc' = [pc EXCEPT ![t] = "executing"]
    /\ audit' = [audit EXCEPT ![t] = "start"]
    /\ UNCHANGED <<on_error, estimate, results, spent, stop, fanout>>

\* enforce raises BudgetExceededError, or the audit log cannot be written: the token
\* is spent, nothing is audited.
Refuse(t) ==
    /\ pc[t] = "limited"
    /\ Grant
    /\ Raise(t)
    /\ UNCHANGED <<on_error, estimate, audit, spent, fanout>>

\* _execute returned a result: its cost is recorded and its end is logged.
Complete(t) ==
    /\ pc[t] = "executing"
    /\ \E cost \in 0 .. MaxCost : spent' = spent + cost
    /\ audit' = [audit EXCEPT ![t] = "complete"]
    /\ results' = [results EXCEPT ![t] = "ok"]
    /\ pc' = [pc EXCEPT ![t] = "done"]
    /\ UNCHANGED <<on_error, estimate, limiterVars, stop, fanout>>

\* The cost is recorded, then the audit log cannot be written: execute raises.
AuditFails(t) ==
    /\ pc[t] = "executing"
    /\ \E cost \in 0 .. MaxCost : spent' = spent + cost
    /\ audit' \in {audit, [audit EXCEPT ![t] = "error"]}
    /\ Raise(t)
    /\ UNCHANGED <<on_error, estimate, limiterVars, fanout>>

\* _execute raised: whatever it had cost is not recorded.
Fail(t) ==
    /\ pc[t] = "executing"
    /\ audit' \in {audit, [audit EXCEPT ![t] = "error"]}
    /\ Raise(t)
    /\ UNCHANGED <<on_error, estimate, spent, limiterVars, fanout>>

\* CancelledError reaches the task: neither a cost nor an end is recorded.
CancelTask(t) ==
    /\ stop # "none"
    /\ pc[t] \in Waiting
    /\ pc' = [pc EXCEPT ![t] = "cancelled"]
    /\ UNCHANGED <<on_error, estimate, results, audit, spent, limiterVars, stop, fanout>>

-----------------------------------------------------------------------------
\* Whoever awaits fan_out is cancelled.
CancelFanOut ==
    /\ fanout = "running"
    /\ stop' = IF stop = "none" THEN "caller" ELSE stop
    /\ UNCHANGED <<on_error, estimate, pc, results, audit, spent, limiterVars, fanout>>

\* The task group has no task left.
FanOutEnds ==
    /\ fanout = "running"
    /\ \A t \in Tasks : pc[t] \notin Waiting
    /\ fanout' = IF stop = "none" THEN "returned" ELSE "raised"
    /\ UNCHANGED <<on_error, estimate, pc, results, audit, spent, limiterVars, stop>>

Poll(t) == Limited(t) \/ Start(t) \/ Refuse(t)
Execute(t) == Complete(t) \/ AuditFails(t) \/ Fail(t)

Next ==
    \/ \E t \in Tasks : Enter(t) \/ Poll(t) \/ Execute(t) \/ CancelTask(t)
    \/ Tick \/ CancelFanOut \/ FanOutEnds

\* The event loop resumes every task, agents return or raise, and time passes.
Spec ==
    /\ Init /\ [][Next]_vars
    /\ \A t \in Tasks : /\ WF_vars(Enter(t)) /\ WF_vars(Poll(t))
                        /\ WF_vars(Execute(t)) /\ WF_vars(CancelTask(t))
    /\ WF_vars(Tick) /\ WF_vars(FanOutEnds)

-----------------------------------------------------------------------------
TypeOK ==
    /\ on_error \in {"fail_fast", "collect"}
    /\ estimate \in [Tasks -> Estimates]
    /\ pc \in [Tasks -> Waiting \cup {"done", "raised", "cancelled"}]
    /\ results \in [Tasks -> {"none", "ok", "error"}]
    /\ audit \in [Tasks -> {"none", "start", "complete", "error"}]
    /\ spent \in Nat
    /\ bucket \in [tokens : 0 .. Full, lag : 0 .. Full]
    /\ granted \in Nat /\ elapsed \in 0 .. Horizon
    /\ stop \in {"none", "error", "caller"}
    /\ fanout \in {"running", "returned", "raised"}

\* enforce and record are an await apart, so a scope may spend more than its cap;
\* with estimates, no more than what max_concurrency calls cost.
BudgetOverrunIsBounded ==
    NoEstimate \notin Estimates =>
        spent + Cardinality(Executing) * MaxCost
            <= Cap - MinEstimate + MaxConcurrency * MaxCost

\* However the concurrent callers poll it, the bucket never lets through more than
\* the burst and what it gained since the first call.
RateIsKept ==
    elapsed < Horizon => granted * PerToken + bucket.tokens <= Full + elapsed

\* Rate limiter, semaphore and cancellation together never leave fan_out hanging.
FanOutReturns == fanout = "running" ~> fanout # "running"

=============================================================================
