-------------------------- MODULE AgentPoolProofs --------------------------
(*****************************************************************************)
(* The budget and the rate of a fan_out for every number of tasks, every     *)
(* concurrency and every policy; and what the readers of an evaluation run   *)
(* are told, for every number of runs, pages, cases and restarts.            *)
(*****************************************************************************)
EXTENDS AgentPool, EvalRuns, FiniteSetTheorems, SequenceTheorems, WellFoundedInduction, TLAPS

\* The semaphore: what the budget bound rests on.
Admitted == Cardinality(Holding) <= MaxConcurrency

\* What the bucket would hold if it were polled now, and what it has given away.
RateInv == elapsed < Horizon => granted * PerToken + Refilled <= Full + elapsed

Inv == TypeOK /\ Admitted /\ BudgetOverrunIsBounded /\ RateInv

-----------------------------------------------------------------------------
\* The assumptions on the policy constants, unpacked for the provers.
LEMMA Constants ==
    /\ MaxConcurrency \in Nat \ {0} /\ PerToken \in Nat \ {0}
    /\ MinEstimate \in Nat /\ MaxCost \in Nat /\ Cap \in Nat /\ Burst \in Nat
    /\ MinEstimate <= MaxCost
    /\ \A e \in Estimates : e # NoEstimate => e \in Nat /\ e >= MinEstimate
BY PoolAssumption

\* Products of counters and prices are natural numbers.
LEMMA ProductType ==
    ASSUME NEW m \in Nat, NEW n \in Nat
    PROVE  m * n \in Nat
OBVIOUS

\* A product when its counter goes up or down by one: a task starts or ends.
LEMMA ProductOfNext ==
    ASSUME NEW m \in Int, NEW n \in Int
    PROVE  (m + 1) * n = m * n + n /\ (m - 1) * n = m * n - n
OBVIOUS

\* Fewer calls cost no more.
LEMMA ProductMonotone ==
    ASSUME NEW k \in Nat, NEW m \in Nat, NEW n \in Nat, k <= m
    PROVE  k * n <= m * n
<1>1. PICK d \in Nat : m = k + d
  <2>1. m - k \in Nat /\ m = k + (m - k)
    OBVIOUS
  <2>2. QED  BY <2>1
<1>2. m * n = k * n + d * n
  BY <1>1
<1>3. k * n \in Nat /\ d * n \in Nat
  BY ProductType
<1>4. QED  BY <1>2, <1>3

\* The capacity of the bucket and the horizon are natural numbers.
LEMMA Sizes == Full \in Nat /\ Horizon \in Nat
<1>1. Full \in Nat
  BY Constants, ProductType DEF Full
<1>2. Cardinality(Tasks) \in Nat
  BY TasksAssumption, FS_CardinalityType
<1>3. QED  BY <1>1, <1>2, Constants, ProductType DEF Horizon

\* Tasks inside the semaphore, and the tasks in execution among them.
LEMMA Counts ==
    ASSUME TypeOK
    PROVE  /\ IsFiniteSet(Holding) /\ IsFiniteSet(Executing)
           /\ Cardinality(Holding) \in Nat /\ Cardinality(Executing) \in Nat
           /\ Cardinality(Executing) <= Cardinality(Holding)
<1>1. Holding \subseteq Tasks /\ Executing \subseteq Holding
  BY DEF Holding, Executing
<1>2. IsFiniteSet(Holding)
  BY <1>1, TasksAssumption, FS_Subset
<1>3. IsFiniteSet(Executing) /\ Cardinality(Executing) <= Cardinality(Holding)
  BY <1>1, <1>2, FS_Subset
<1>4. QED  BY <1>2, <1>3, FS_CardinalityType

\* The same of the sets of a next state, as facts about any two sets of tasks.
LEMMA SubsetCount ==
    ASSUME NEW S \in SUBSET Tasks, NEW T \in SUBSET S
    PROVE  /\ Cardinality(S) \in Nat /\ Cardinality(T) \in Nat
           /\ Cardinality(T) <= Cardinality(S)
<1>1. IsFiniteSet(S)
  BY TasksAssumption, FS_Subset
<1>2. IsFiniteSet(T) /\ Cardinality(T) <= Cardinality(S)
  BY <1>1, FS_Subset
<1>3. QED  BY <1>1, <1>2, FS_CardinalityType

\* RateLimiter._refill never lowers the balance and caps it at the burst.
LEMMA RefilledType ==
    ASSUME TypeOK
    PROVE  Refilled \in 0 .. Full /\ bucket.tokens <= Refilled
BY Sizes DEF TypeOK, Refilled

-----------------------------------------------------------------------------
\* fan_out starts with nothing spent, nothing granted and a full bucket.
LEMMA InitInv == Init => Inv
<1> SUFFICES ASSUME Init PROVE Inv
  OBVIOUS
<1>1. TypeOK
  BY Sizes DEF Init, TypeOK, Waiting
<1>2. Holding = {} /\ Executing = {}
  BY DEF Init, Holding, Executing
<1>3. Admitted
  BY <1>2, FS_EmptySet, Constants DEF Admitted
<1>4. BudgetOverrunIsBounded
  <2>1. 1 * MaxCost <= MaxConcurrency * MaxCost
    BY Constants, ProductMonotone
  <2>2. MaxConcurrency * MaxCost \in Nat /\ 0 * MaxCost = 0 /\ 1 * MaxCost = MaxCost
    BY Constants, ProductType
  <2>3. Cardinality(Executing) = 0
    BY <1>2, FS_EmptySet
  <2>4. spent = 0
    BY DEF Init
  <2>5. QED  BY <2>1, <2>2, <2>3, <2>4, Constants DEF BudgetOverrunIsBounded
<1>5. RateInv
  <2>1. granted = 0 /\ elapsed = 0
    BY DEF Init
  <2>2. granted * PerToken = 0
    BY <2>1, Constants
  <2>3. QED  BY <2>1, <2>2, RefilledType, <1>1, Sizes DEF RateInv
<1>6. QED  BY <1>1, <1>3, <1>4, <1>5 DEF Inv

\* A task that raises only writes what it ended as.
LEMMA RaiseType ==
    ASSUME TypeOK, NEW t \in Tasks, Raise(t)
    PROVE  /\ pc' = [pc EXCEPT ![t] = "raised"]
           /\ pc' \in [Tasks -> Waiting \cup {"done", "raised", "cancelled"}]
           /\ results' \in [Tasks -> {"none", "ok", "error"}]
           /\ stop' \in {"none", "error", "caller"}
BY DEF TypeOK, Raise

\* A grant takes one token and leaves a balance within the burst.
LEMMA GrantType ==
    ASSUME TypeOK, Grant
    PROVE  /\ bucket' \in [tokens : 0 .. Full, lag : 0 .. Full]
           /\ granted' \in Nat /\ elapsed' \in 0 .. Horizon
<1>1. Refilled \in 0 .. Full /\ Refilled >= PerToken
  BY RefilledType DEF Grant
<1>2. Refilled - PerToken \in 0 .. Full /\ 0 \in 0 .. Full
  BY <1>1, Constants, Sizes
<1>3. QED  BY <1>2 DEF Grant, TypeOK

\* Every step of the pool keeps the types.
LEMMA TypeStep == TypeOK /\ [Next]_vars => TypeOK'
<1> SUFFICES ASSUME TypeOK, [Next]_vars PROVE TypeOK'
  OBVIOUS
<1>1. ASSUME NEW t \in Tasks, Enter(t) PROVE TypeOK'
  BY <1>1 DEF TypeOK, Enter, limiterVars, Waiting
<1>2. ASSUME NEW t \in Tasks, Limited(t) PROVE TypeOK'
  <2>1. bucket' \in [tokens : 0 .. Full, lag : 0 .. Full]
    BY <1>2, RefilledType, Sizes DEF Limited
  <2>2. QED  BY <1>2, <2>1 DEF TypeOK, Limited
<1>3. ASSUME NEW t \in Tasks, Start(t) PROVE TypeOK'
  BY <1>3, GrantType DEF TypeOK, Start, Waiting
<1>4. ASSUME NEW t \in Tasks, Refuse(t) PROVE TypeOK'
  BY <1>4, GrantType, RaiseType DEF TypeOK, Refuse
<1>5. ASSUME NEW t \in Tasks, Complete(t) PROVE TypeOK'
  <2>1. spent' \in Nat
    BY <1>5, Constants DEF TypeOK, Complete
  <2>2. QED  BY <1>5, <2>1 DEF TypeOK, Complete, limiterVars
<1>6. ASSUME NEW t \in Tasks, AuditFails(t) PROVE TypeOK'
  <2>1. spent' \in Nat
    BY <1>6, Constants DEF TypeOK, AuditFails
  <2>2. audit' \in [Tasks -> {"none", "start", "complete", "error"}]
    BY <1>6 DEF TypeOK, AuditFails
  <2>3. QED  BY <1>6, <2>1, <2>2, RaiseType DEF TypeOK, AuditFails, limiterVars
<1>7. ASSUME NEW t \in Tasks, Fail(t) PROVE TypeOK'
  <2>1. audit' \in [Tasks -> {"none", "start", "complete", "error"}]
    BY <1>7 DEF TypeOK, Fail
  <2>2. QED  BY <1>7, <2>1, RaiseType DEF TypeOK, Fail, limiterVars
<1>8. ASSUME NEW t \in Tasks, CancelTask(t) PROVE TypeOK'
  BY <1>8 DEF TypeOK, CancelTask, limiterVars
<1>9. CASE Tick
  <2>1. bucket' \in [tokens : 0 .. Full, lag : 0 .. Full]
    BY <1>9, Sizes DEF Tick, TypeOK
  <2>2. elapsed' \in 0 .. Horizon
    BY <1>9, Sizes DEF Tick, TypeOK
  <2>3. QED  BY <1>9, <2>1, <2>2 DEF Tick, TypeOK
<1>10. CASE CancelFanOut
  BY <1>10 DEF TypeOK, CancelFanOut, limiterVars
<1>11. CASE FanOutEnds
  BY <1>11 DEF TypeOK, FanOutEnds, limiterVars
<1>12. CASE UNCHANGED vars
  BY <1>12 DEF TypeOK, vars, limiterVars
<1>13. QED
  BY <1>1, <1>2, <1>3, <1>4, <1>5, <1>6, <1>7, <1>8, <1>9, <1>10, <1>11, <1>12
  DEF Next, Poll, Execute

\* The type invariant of a fan_out.
THEOREM PoolTypeCorrect == Spec => []TypeOK
<1>1. Init => TypeOK
  BY InitInv DEF Inv
<1>2. QED  BY <1>1, TypeStep, PTL DEF Spec

-----------------------------------------------------------------------------
\* Steps that let nobody into the semaphore keep it.
LEMMA AdmittedKept ==
    ASSUME TypeOK, Admitted, TypeOK', Holding' \subseteq Holding
    PROVE  Admitted'
<1>1. Holding \subseteq Tasks
  BY DEF Holding
<1>2. QED  BY <1>1, SubsetCount, Constants DEF Admitted

\* The semaphore: no step lets in more tasks than max_concurrency.
LEMMA AdmittedStep == TypeOK /\ TypeOK' /\ Admitted /\ [Next]_vars => Admitted'
<1> SUFFICES ASSUME TypeOK, TypeOK', Admitted, [Next]_vars PROVE Admitted'
  OBVIOUS
<1>1. ASSUME NEW t \in Tasks, Enter(t) PROVE Admitted'
  <2>1. Holding' = Holding \cup {t}
    BY <1>1 DEF Enter, Holding, TypeOK
  <2>2. t \notin Holding
    BY <1>1 DEF Enter, Holding
  <2>3. Cardinality(Holding') = Cardinality(Holding) + 1
    BY <2>1, <2>2, Counts, FS_AddElement
  <2>4. Cardinality(Holding) < MaxConcurrency
    BY <1>1 DEF Enter
  <2>5. QED  BY <2>3, <2>4, Counts, Constants DEF Admitted
<1>2. ASSUME NEW t \in Tasks, Poll(t) \/ Execute(t) \/ CancelTask(t) PROVE Admitted'
  <2>1. Holding' \subseteq Holding
    BY <1>2 DEF Poll, Execute, Limited, Start, Refuse, Complete, AuditFails, Fail,
                CancelTask, Raise, Holding, TypeOK
  <2>2. QED  BY <2>1, AdmittedKept
<1>3. ASSUME Tick \/ CancelFanOut \/ FanOutEnds \/ UNCHANGED vars PROVE Admitted'
  <2>1. Holding' \subseteq Holding
    BY <1>3 DEF Tick, CancelFanOut, FanOutEnds, vars, Holding
  <2>2. QED  BY <2>1, AdmittedKept
<1>4. QED  BY <1>1, <1>2, <1>3 DEF Next

\* Steps that record nothing and start no execution keep the budget bound.
LEMMA BudgetKept ==
    ASSUME TypeOK, TypeOK', BudgetOverrunIsBounded, spent' = spent,
           Executing' \subseteq Executing
    PROVE  BudgetOverrunIsBounded'
<1>1. Executing \subseteq Tasks
  BY DEF Executing
<1>2. /\ Cardinality(Executing) \in Nat /\ Cardinality(Executing') \in Nat
      /\ Cardinality(Executing') <= Cardinality(Executing)
  BY <1>1, SubsetCount
<1>3. Cardinality(Executing') * MaxCost <= Cardinality(Executing) * MaxCost
  BY <1>2, ProductMonotone, Constants
<1>4. /\ Cardinality(Executing') * MaxCost \in Nat
      /\ Cardinality(Executing) * MaxCost \in Nat
      /\ MaxConcurrency * MaxCost \in Nat /\ spent \in Nat
  BY <1>2, ProductType, Constants DEF TypeOK
<1>5. QED  BY <1>3, <1>4, Constants DEF BudgetOverrunIsBounded

\* A call that ends records at most MaxCost and frees the room held for it.
LEMMA BudgetRecorded ==
    ASSUME TypeOK, TypeOK', BudgetOverrunIsBounded, NEW t \in Executing,
           NEW cost \in 0 .. MaxCost, spent' = spent + cost,
           Executing' = Executing \ {t}
    PROVE  BudgetOverrunIsBounded'
<1>1. /\ Cardinality(Executing) \in Nat
      /\ Cardinality(Executing') = Cardinality(Executing) - 1
  BY Counts, FS_RemoveElement
<1>2. Cardinality(Executing') * MaxCost = Cardinality(Executing) * MaxCost - MaxCost
  BY <1>1, ProductOfNext, Constants
<1>3. /\ Cardinality(Executing) * MaxCost \in Nat
      /\ MaxConcurrency * MaxCost \in Nat /\ spent \in Nat
  BY <1>1, ProductType, Constants DEF TypeOK
<1>4. QED  BY <1>2, <1>3, Constants DEF BudgetOverrunIsBounded

\* A start passes enforce with what is spent, and a recorded cost is no more
\* than what the bound reserves for a call: the budget bound is kept.
LEMMA BudgetStep ==
    TypeOK /\ TypeOK' /\ Admitted /\ Admitted' /\ BudgetOverrunIsBounded /\ [Next]_vars
        => BudgetOverrunIsBounded'
<1> SUFFICES ASSUME TypeOK, TypeOK', Admitted, Admitted', BudgetOverrunIsBounded,
                    [Next]_vars
             PROVE  BudgetOverrunIsBounded'
  OBVIOUS
<1>1. ASSUME NEW t \in Tasks, Enter(t) \/ Limited(t) \/ Refuse(t) \/ Fail(t) \/ CancelTask(t)
      PROVE  BudgetOverrunIsBounded'
  <2>1. Executing' \subseteq Executing /\ spent' = spent
    BY <1>1 DEF Enter, Limited, Refuse, Fail, CancelTask, Raise, Executing, TypeOK
  <2>2. QED  BY <2>1, BudgetKept
<1>2. ASSUME NEW t \in Tasks, Start(t) PROVE BudgetOverrunIsBounded'
  <2> SUFFICES ASSUME NoEstimate \notin Estimates
               PROVE  spent' + Cardinality(Executing') * MaxCost
                        <= Cap - MinEstimate + MaxConcurrency * MaxCost
    BY DEF BudgetOverrunIsBounded
  <2>1. estimate[t] \in Nat /\ estimate[t] >= MinEstimate /\ estimate[t] # NoEstimate
    BY Constants DEF TypeOK
  <2>2. spent' = spent /\ spent \in Nat /\ spent + estimate[t] <= Cap
    BY <1>2, <2>1 DEF Start, WithinBudget, TypeOK
  <2>3. /\ Holding' \subseteq Tasks /\ Executing' \subseteq Holding'
    BY DEF Holding, Executing
  <2>4. /\ Cardinality(Executing') \in Nat
        /\ Cardinality(Executing') <= MaxConcurrency
    BY <2>3, SubsetCount, Constants DEF Admitted
  <2>5. /\ Cardinality(Executing') * MaxCost <= MaxConcurrency * MaxCost
        /\ Cardinality(Executing') * MaxCost \in Nat /\ MaxConcurrency * MaxCost \in Nat
    BY <2>4, ProductMonotone, ProductType, Constants
  <2>6. QED  BY <2>1, <2>2, <2>5, Constants
<1>3. ASSUME NEW t \in Tasks, Complete(t) \/ AuditFails(t) PROVE BudgetOverrunIsBounded'
  <2>1. PICK cost \in 0 .. MaxCost : spent' = spent + cost
    BY <1>3 DEF Complete, AuditFails
  <2>2. t \in Executing /\ Executing' = Executing \ {t}
    BY <1>3 DEF Complete, AuditFails, Raise, Executing, TypeOK
  <2>3. QED  BY <2>1, <2>2, BudgetRecorded
<1>4. ASSUME Tick \/ CancelFanOut \/ FanOutEnds \/ UNCHANGED vars
      PROVE  BudgetOverrunIsBounded'
  <2>1. Executing' \subseteq Executing /\ spent' = spent
    BY <1>4 DEF Tick, CancelFanOut, FanOutEnds, vars, Executing
  <2>2. QED  BY <2>1, BudgetKept
<1>5. QED  BY <1>1, <1>2, <1>3, <1>4 DEF Next, Poll, Execute

-----------------------------------------------------------------------------
\* Steps that leave the limiter alone.
LEMMA RateKept ==
    ASSUME RateInv, UNCHANGED limiterVars
    PROVE  RateInv'
BY DEF RateInv, Refilled, limiterVars

\* Waiting and polling earn at most what the clock gives, a grant pays in full.
LEMMA RateStep == TypeOK /\ RateInv /\ [Next]_vars => RateInv'
<1> SUFFICES ASSUME TypeOK, RateInv, [Next]_vars PROVE RateInv'
  OBVIOUS
<1> DEFINE given == granted * PerToken
<1>1. /\ given \in Nat /\ elapsed \in Nat /\ Full \in Nat /\ Horizon \in Nat
      /\ bucket.tokens \in 0 .. Full /\ bucket.lag \in 0 .. Full
      /\ Refilled \in 0 .. Full
  BY Constants, Sizes, ProductType, RefilledType DEF TypeOK
<1>2. ASSUME NEW t \in Tasks, Enter(t) \/ Execute(t) \/ CancelTask(t) PROVE RateInv'
  <2>1. UNCHANGED limiterVars
    BY <1>2 DEF Enter, Execute, Complete, AuditFails, Fail, CancelTask
  <2>2. QED  BY <2>1, RateKept
<1>3. ASSUME NEW t \in Tasks, Limited(t) PROVE RateInv'
  <2>1. granted' = granted /\ elapsed' = elapsed /\ Refilled' = Refilled
    BY <1>3, <1>1 DEF Limited, Refilled
  <2>2. QED  BY <2>1 DEF RateInv
<1>4. ASSUME NEW t \in Tasks, Start(t) \/ Refuse(t) PROVE RateInv'
  <2>1. Grant
    BY <1>4 DEF Start, Refuse
  <2>2. granted' = granted + 1 /\ elapsed' = elapsed
    BY <2>1 DEF Grant
  <2>3. Refilled' = Refilled - PerToken
    BY <2>1, <1>1, Constants DEF Grant, Refilled
  <2>4. granted' * PerToken = given + PerToken
    BY <2>2, ProductOfNext, Constants DEF TypeOK
  <2>5. QED  BY <2>2, <2>3, <2>4, <1>1, Constants DEF RateInv
<1>5. CASE Tick
  <2>1. granted' = granted /\ Refilled' <= Refilled + 1 /\ Refilled' \in 0 .. Full
    BY <1>5, <1>1 DEF Tick, Refilled
  <2>2. CASE granted > 0 /\ elapsed < Horizon
    <3>1. elapsed' = elapsed + 1
      BY <1>5, <2>2 DEF Tick
    <3>2. given' = given
      BY <2>1
    <3>3. QED  BY <3>1, <3>2, <2>1, <2>2, <1>1 DEF RateInv
  <2>3. CASE granted = 0
    <3>1. granted' * PerToken = 0
      BY <2>1, <2>3, Constants
    <3>2. elapsed' = elapsed
      BY <1>5, <2>3 DEF Tick
    <3>3. QED  BY <3>1, <3>2, <2>1, <1>1 DEF RateInv
  <2>4. CASE elapsed >= Horizon
    <3>1. elapsed' = elapsed
      BY <1>5, <2>4, <1>1 DEF Tick
    <3>2. QED  BY <3>1, <2>4, <1>1, Sizes DEF RateInv, Horizon
  <2>5. QED  BY <2>2, <2>3, <2>4, <1>1 DEF TypeOK
<1>6. ASSUME CancelFanOut \/ FanOutEnds \/ UNCHANGED vars PROVE RateInv'
  <2>1. UNCHANGED limiterVars
    BY <1>6 DEF CancelFanOut, FanOutEnds, vars
  <2>2. QED  BY <2>1, RateKept
<1>7. QED  BY <1>2, <1>3, <1>4, <1>5, <1>6 DEF Next, Poll

-----------------------------------------------------------------------------
\* What the theorems on budget and rate rest on: every state a fan_out reaches has
\* the semaphore's limit kept, the overrun reserved for, and the bucket in balance.
THEOREM PoolInvariant == Spec => []Inv
<1>1. Inv /\ [Next]_vars => Inv'
  BY TypeStep, AdmittedStep, BudgetStep, RateStep DEF Inv
<1>2. QED  BY InitInv, <1>1, PTL DEF Spec

\* CostTracker.enforce and record bracket an await.  Whatever the tasks cost, fail
\* or are cancelled, a fan_out whose tasks carry estimates overruns the cap by less
\* than what max_concurrency calls cost.
THEOREM BudgetCorrect == Spec => []BudgetOverrunIsBounded
<1>1. Inv => BudgetOverrunIsBounded
  BY DEF Inv
<1>2. QED  BY <1>1, PoolInvariant, PTL

\* RateLimiter.acquire: callers that poll one bucket in any order get no more tokens
\* than the burst and what the time since the first call is worth.
THEOREM RateCorrect == Spec => []RateIsKept
<1>1. Inv => RateIsKept
  <2> SUFFICES ASSUME Inv, elapsed < Horizon
               PROVE  granted * PerToken + bucket.tokens <= Full + elapsed
    BY DEF RateIsKept
  <2>1. bucket.tokens <= Refilled /\ Refilled \in 0 .. Full /\ bucket.tokens \in 0 .. Full
    BY RefilledType DEF Inv, TypeOK
  <2>2. granted * PerToken + Refilled <= Full + elapsed
    BY DEF Inv, RateInv
  <2>3. granted * PerToken \in Nat /\ Full \in Nat /\ elapsed \in Nat
    BY Constants, Sizes, ProductType DEF Inv, TypeOK
  <2>4. QED  BY <2>1, <2>2, <2>3
<1>2. QED  BY <1>1, PoolInvariant, PTL

-----------------------------------------------------------------------------
(***************************************************************************)
(* Runs and the pages that watch them: the copies of a result, the events  *)
(* of a run and what its only reader has read of them.                     *)
(***************************************************************************)
RunRecords ==
    [phase : {"new", "creating", "running", "kv", "store", "ended", "lost"},
     mode : {"parallel", "sequential"}, budget : Budgets \cup {None}, cancel : BOOLEAN,
     at : [Cases -> {"waiting", "target", "scoring", "done"}], meta : Cases \cup {None},
     result : SUBSET CaseResults]
RowRecords == [status : {"none", "running", "completed"}, cases : SUBSET CaseResults, total : Nat]
PlainEvents == [event : {"run_start", "case_start", "case_done", "error"}, case : Cases \cup {0}]
RunEvents   == PlainEvents \cup [event : Closing \cup {"end"}, case : {0}]
Statuses    == {"running", "done", "cancelled", "error"}
RunPages ==
    [page : {"run", "batch"}, run : Runs \cup {None}, conn : {"open", "closed"},
     status : Statuses, total : Nat, completed : Nat]

RunsTypeOK ==
    /\ deploy \in [kv : BOOLEAN, store : BOOLEAN] /\ restarts \in Nat
    /\ run \in [Runs -> RunRecords]
    /\ emitted \in [Runs -> Seq(RunEvents)] /\ taken \in [Runs -> Nat]
    /\ active = {r \in Runs : run[r].phase = "running"}
    /\ memory \in [Runs -> Results \cup {None}] /\ files \in [Runs -> Results \cup {None}]
    /\ kv \in [Runs -> Results \cup {None}] /\ row \in [Runs -> RowRecords]
    /\ getting \in [run : Runs, total : Nat] \cup {None}
    /\ monitor \in [Monitors -> RunPages]
    /\ \A m \in Monitors : monitor[m].conn = "open" => monitor[m].run # None

\* A runner, between two steps.
RunnerSane(rn) ==
    /\ IsFiniteSet(rn.result)
    /\ rn.phase # "running" => InFlight(rn) = {}
    /\ rn.phase \in {"new", "creating"} => rn.result = {}
    /\ rn.phase = "running" => \A x \in rn.result : rn.at[x.case] = "done"
    /\ rn.mode = "sequential" =>
          /\ \A c, d \in InFlight(rn) : c = d
          /\ \A c \in Cases : rn.at[c] = "scoring" => rn.meta = c
          /\ \A x \in rn.result : x.ok => x.meta = x.case

\* A copy of a result is of a suite that is over, and is all of it.
Whole(r, copy) ==
    copy # None => /\ run[r].phase \notin {"new", "creating", "running"}
                   /\ copy = [cases |-> run[r].result, total |-> Cardinality(run[r].result)]
CopiesAreWhole ==
    /\ ~deploy.store => getting = None
    /\ \A r \in Runs : Whole(r, files[r])
    /\ ~deploy.store => \A r \in Runs : Whole(r, memory[r]) /\ Whole(r, kv[r])

\* The events of a run: one case_done for each result, and nothing after the closing ones
\* but the sentinel.
DoneEvents(es) == {n \in DOMAIN es : es[n].event = "case_done"}
LogOf(rn, es) ==
    /\ Cardinality(DoneEvents(es)) = Cardinality(rn.result)
    /\ rn.phase \in {"new", "creating"} => es = <<>>
    /\ rn.phase = "running" => \A n \in DOMAIN es : es[n] \in PlainEvents
    /\ \A n \in DOMAIN es : es[n].event = "end" => n > 1 /\ es[n - 1].event \in Closing
    /\ \A n, k \in DOMAIN es : es[n].event = "run_done" /\ es[k].event = "case_done" => k < n
ResultKept(r) == run[r].phase \notin {"new", "creating", "running"} => memory[r] # None

\* What the only reader of a run has made of the events it has taken.
ReadSoFar(m) ==
    LET pg == monitor[m]
        r  == pg.run
    IN  /\ run[r].phase \notin {"new", "creating"}
        /\ pg.conn = "open" =>
              /\ pg.status \in (IF pg.page = "run" THEN {"running", "error"} ELSE {"running"})
              /\ \A n \in 1 .. taken[r] : emitted[r][n] \in PlainEvents
              /\ pg.completed = Cardinality({n \in DoneEvents(emitted[r]) : n <= taken[r]})
        /\ pg.conn = "closed" => pg.status # "running"
        /\ pg.status = "done" => run[r].phase # "running"
        /\ pg.page = "run" /\ pg.status = "done" /\ pg.total > 0 =>
              pg.completed = Cardinality(run[r].result)

Unread(r) == (\A m \in Monitors : monitor[m].run # r) => taken[r] = 0

MonitorsInv ==
    restarts = 0 =>
        /\ \A r \in Runs : /\ LogOf(run[r], emitted[r]) /\ ResultKept(r) /\ Unread(r)
                           /\ run[r].phase # "lost" /\ taken[r] <= Len(emitted[r])
        /\ \A m \in Monitors : monitor[m].run # None /\ OnlyReader(m) => ReadSoFar(m)

\* A runner that has emitted nothing has not begun.
BegunWithEvents ==
    \A r \in Runs : run[r].phase = "running" /\ emitted[r] = <<>> =>
        InFlight(run[r]) = {} /\ run[r].result = {}

RunsInv ==
    /\ RunsTypeOK /\ CopiesAreWhole /\ MonitorsInv /\ BegunWithEvents
    /\ \A r \in Runs : RunnerSane(run[r])
    /\ ReadersAreToldTheRun

-----------------------------------------------------------------------------
(* Sequences of events.                                                      *)

Extends(s, t) == Len(s) <= Len(t) /\ \A n \in 1 .. Len(s) : t[n] = s[n]

\* A run whose suite goes on; one that has told its end, before and with the sentinel.
Open(es, k) ==
    es \in Seq(RunEvents) /\ Cardinality(DoneEvents(es)) = k
        /\ \A n \in DOMAIN es : es[n] \in PlainEvents
DoneComesFirst(es) ==
    \A n, k \in DOMAIN es : es[n].event = "run_done" /\ es[k].event = "case_done" => k < n
Shut(es, k) ==
    /\ es \in Seq(RunEvents) /\ Cardinality(DoneEvents(es)) = k /\ DoneComesFirst(es)
    /\ Len(es) > 0 /\ es[Len(es)].event \in Closing
    /\ \A n \in DOMAIN es : es[n].event # "end"
Final(es, k) ==
    /\ es \in Seq(RunEvents) /\ Cardinality(DoneEvents(es)) = k /\ DoneComesFirst(es)
    /\ \A n \in DOMAIN es : es[n].event = "end" => n > 1 /\ es[n - 1].event \in Closing

LEMMA EventOneMore ==
    ASSUME NEW es \in Seq(RunEvents), NEW e \in RunEvents
    PROVE  LET t == Append(es, e) IN
           /\ t \in Seq(RunEvents) /\ Len(t) = Len(es) + 1 /\ t # <<>> /\ Extends(es, t)
           /\ DOMAIN t = 1 .. Len(es) + 1 /\ DOMAIN es = 1 .. Len(es) /\ Len(es) \in Nat
           /\ t[Len(es) + 1] = e /\ \A n \in DOMAIN es : t[n] = es[n]
           /\ IsFiniteSet(DoneEvents(es)) /\ Cardinality(DoneEvents(es)) \in Nat
           /\ Cardinality(DoneEvents(t)) =
                 IF e.event = "case_done" THEN Cardinality(DoneEvents(es)) + 1
                 ELSE Cardinality(DoneEvents(es))
<1> DEFINE t == Append(es, e)
<1>1. /\ t \in Seq(RunEvents) /\ Len(t) = Len(es) + 1 /\ t # <<>>
      /\ t[Len(es) + 1] = e /\ \A n \in 1 .. Len(es) : t[n] = es[n]
  BY AppendProperties
<1>2. DOMAIN es = 1 .. Len(es) /\ Len(es) \in Nat
  OBVIOUS
<1>3. DOMAIN t = 1 .. Len(es) + 1
  BY <1>1
<1>4. IsFiniteSet(DoneEvents(es)) /\ Cardinality(DoneEvents(es)) \in Nat
  <2>1. IsFiniteSet(1 .. Len(es))
    BY <1>2, FS_Interval
  <2>2. DoneEvents(es) \in SUBSET (1 .. Len(es))
    BY <1>2 DEF DoneEvents
  <2>3. IsFiniteSet(DoneEvents(es))
    BY <2>1, <2>2, FS_Subset
  <2>4. QED  BY <2>3, FS_CardinalityType
<1> HIDE DEF t
<1>5. Len(es) + 1 \notin DoneEvents(es)
  BY <1>2 DEF DoneEvents
<1>6. CASE e.event = "case_done"
  <2>1. DoneEvents(t) = DoneEvents(es) \cup {Len(es) + 1}
    BY <1>1, <1>2, <1>3, <1>6 DEF DoneEvents
  <2>2. Cardinality(DoneEvents(t)) = Cardinality(DoneEvents(es)) + 1
    BY <1>4, <1>5, <2>1, FS_AddElement
  <2>3. QED  BY <1>1, <1>2, <1>3, <1>4, <1>6, <2>2 DEF t, Extends
<1>7. CASE e.event # "case_done"
  <2>1. DoneEvents(t) = DoneEvents(es)
    BY <1>1, <1>2, <1>3, <1>7 DEF DoneEvents
  <2>2. QED  BY <1>1, <1>2, <1>3, <1>4, <1>7, <2>1 DEF t, Extends
<1>8. QED  BY <1>6, <1>7

LEMMA OpenOneMore ==
    ASSUME NEW es, NEW k, Open(es, k), NEW e \in PlainEvents
    PROVE  /\ Open(Append(es, e), IF e.event = "case_done" THEN k + 1 ELSE k)
           /\ Append(es, e) # <<>>
<1>1. es \in Seq(RunEvents) /\ e \in RunEvents
  BY DEF Open, RunEvents
<1>2. QED  BY <1>1, EventOneMore DEF Open

LEMMA OpenShuts ==
    ASSUME NEW es, NEW k, Open(es, k) \/ Shut(es, k), NEW e \in [event : Closing, case : {0}]
    PROVE  Shut(Append(es, e), k)
<1>1. /\ es \in Seq(RunEvents) /\ e \in RunEvents /\ e.event \in Closing
      /\ Cardinality(DoneEvents(es)) = k
  BY DEF Open, Shut, RunEvents
<1>2. e.event # "case_done" /\ e.event # "end"
  BY <1>1 DEF Closing
<1>3. \A n \in DOMAIN es : es[n].event # "end"
  BY DEF Open, Shut, PlainEvents
<1>4. DoneComesFirst(es)
  BY DEF Open, Shut, PlainEvents, DoneComesFirst
<1> DEFINE t == Append(es, e)
<1>5. /\ t \in Seq(RunEvents) /\ Len(t) = Len(es) + 1 /\ t[Len(es) + 1] = e
      /\ DOMAIN t = 1 .. Len(es) + 1 /\ DOMAIN es = 1 .. Len(es) /\ Len(es) \in Nat
      /\ \A n \in DOMAIN es : t[n] = es[n]
      /\ Cardinality(DoneEvents(t)) = k
  BY <1>1, <1>2, EventOneMore
<1> HIDE DEF t
<1>6. DoneComesFirst(t)
  BY <1>2, <1>4, <1>5 DEF DoneComesFirst
<1>7. Shut(t, k)
  BY <1>1, <1>2, <1>3, <1>5, <1>6 DEF Shut
<1>8. QED  BY <1>7 DEF t

LEMMA ShutEnds ==
    ASSUME NEW es, NEW k, Shut(es, k)
    PROVE  Final(Append(es, Ev("end")), k)
<1> DEFINE e == Ev("end")
           t == Append(es, e)
<1>1. e \in RunEvents /\ e.event = "end"
  BY DEF Ev, RunEvents
<1>2. /\ es \in Seq(RunEvents) /\ Len(es) > 0 /\ es[Len(es)].event \in Closing
      /\ Cardinality(DoneEvents(es)) = k /\ DoneComesFirst(es)
      /\ \A n \in DOMAIN es : es[n].event # "end"
  BY DEF Shut
<1> HIDE DEF e
<1>3. /\ t \in Seq(RunEvents) /\ Len(t) = Len(es) + 1 /\ t[Len(es) + 1] = e
      /\ DOMAIN t = 1 .. Len(es) + 1 /\ DOMAIN es = 1 .. Len(es) /\ Len(es) \in Nat
      /\ \A n \in DOMAIN es : t[n] = es[n]
      /\ Cardinality(DoneEvents(t)) = k
  BY <1>1, <1>2, EventOneMore
<1> HIDE DEF t
<1>4. DoneComesFirst(t)
  BY <1>1, <1>2, <1>3 DEF DoneComesFirst
<1>5. \A n \in DOMAIN t : t[n].event = "end" => n > 1 /\ t[n - 1].event \in Closing
  <2> SUFFICES ASSUME NEW n \in DOMAIN t, t[n].event = "end"
               PROVE  n > 1 /\ t[n - 1].event \in Closing
    OBVIOUS
  <2>1. n = Len(es) + 1
    BY <1>2, <1>3
  <2>2. Len(es) \in DOMAIN es /\ n - 1 = Len(es)
    BY <1>2, <1>3, <2>1
  <2>3. QED  BY <1>2, <1>3, <2>1, <2>2
<1>6. Final(t, k)
  BY <1>3, <1>4, <1>5 DEF Final
<1>7. QED  BY <1>6 DEF t, e

\* What a step emits is one event after the other.
LEMMA EmittedInTurn ==
    ASSUME NEW es \in Seq(RunEvents), NEW more \in Seq(RunEvents), NEW e \in RunEvents
    PROVE  /\ es \o Append(more, e) = Append(es \o more, e)
           /\ Append(more, e) \in Seq(RunEvents) /\ es \o more \in Seq(RunEvents)
<1>1. es \o Append(more, e) = Append(es \o more, e)
  BY AppendIsConcat, ConcatAssociative, ConcatProperties
<1>2. QED  BY <1>1, ConcatProperties, AppendProperties

LEMMA EmittedAlone ==
    ASSUME NEW es \in Seq(RunEvents), NEW a \in RunEvents, NEW b \in RunEvents
    PROVE  /\ <<>> \in Seq(RunEvents) /\ <<a>> \in Seq(RunEvents) /\ <<a, b>> \in Seq(RunEvents)
           /\ es \o <<>> = es /\ es \o <<a>> = Append(es, a)
           /\ es \o <<a, b>> = Append(Append(es, a), b)
<1>1. /\ <<a>> \in Seq(RunEvents) /\ <<a, b>> \in Seq(RunEvents) /\ <<>> \in Seq(RunEvents)
      /\ <<a, b>> = Append(<<a>>, b)
  OBVIOUS
<1>2. es \o <<a>> = Append(es, a)
  BY AppendIsConcat
<1>3. es \o <<a, b>> = Append(Append(es, a), b)
  BY <1>1, <1>2, EmittedInTurn
<1>4. es \o <<>> = es
  BY ConcatEmptySeq
<1>5. QED  BY <1>1, <1>2, <1>3, <1>4
-----------------------------------------------------------------------------
(* What a step of a run has to show for itself.                              *)

Early == {"new", "creating"}
Going == {"new", "creating", "running"}

LEMMA PromisesKept ==
    ASSUME RunsTypeOK', CopiesAreWhole', MonitorsInv', \A r \in Runs : RunnerSane(run[r])'
    PROVE  ReadersAreToldTheRun'
<1>1. SequentialMetaIsOwn'
  BY DEF SequentialMetaIsOwn, RunnerSane, RunsTypeOK, RunRecords
<1>2. ServedFromCopiesIsWhole'
  BY DEF ServedFromCopiesIsWhole, CopiesAreWhole, Whole
<1>3. MonitorKnowsTheRun'
  BY DEF MonitorKnowsTheRun, MonitorsInv, ReadSoFar
<1>4. QED  BY <1>1, <1>2, <1>3 DEF ReadersAreToldTheRun

\* The pages have read nothing: what they know of a run stays true of it.
LEMMA TaskKeeps ==
    ASSUME RunsInv, UNCHANGED <<monitor, taken, restarts>>,
           RunsTypeOK', CopiesAreWhole', BegunWithEvents',
           \A q \in Runs : RunnerSane(run[q])',
           \A q \in Runs : run[q].phase \notin Early => run'[q].phase \notin Early,
           \A q \in Runs : run[q].phase \notin Going =>
               run'[q].phase \notin Going /\ run'[q].result = run[q].result,
           restarts = 0 => \A q \in Runs :
               /\ Extends(emitted[q], emitted'[q]) /\ LogOf(run[q], emitted[q])'
               /\ ResultKept(q)' /\ run'[q].phase # "lost"
    PROVE  RunsInv'
<1>1. RunsTypeOK /\ MonitorsInv
  BY DEF RunsInv
<1>2. ASSUME restarts = 0, NEW m \in Monitors, monitor[m].run # None, OnlyReader(m)
      PROVE  ReadSoFar(m)'
  <2> DEFINE r  == monitor[m].run
             es == emitted[r]
             fs == emitted'[r]
  <2>1. r \in Runs /\ ReadSoFar(m) /\ taken[r] <= Len(es)
    BY <1>1, <1>2 DEF RunsTypeOK, RunPages, MonitorsInv
  <2>2. /\ es \in Seq(RunEvents) /\ fs \in Seq(RunEvents) /\ taken[r] \in Nat
        /\ Len(es) \in Nat /\ Len(fs) \in Nat /\ DOMAIN es = 1 .. Len(es) /\ DOMAIN fs = 1 .. Len(fs)
    BY <1>1, <2>1 DEF RunsTypeOK
  <2>3. Extends(es, fs)
    BY <1>2, <2>1
  <2>4. \A n \in 1 .. taken[r] : fs[n] = es[n] /\ n \in DOMAIN es /\ n \in DOMAIN fs
    <3> HIDE DEF es, fs
    <3>1. QED  BY <2>1, <2>2, <2>3 DEF Extends
  <2>5. {n \in DoneEvents(fs) : n <= taken[r]} = {n \in DoneEvents(es) : n <= taken[r]}
    <3> HIDE DEF es, fs
    <3>1. \A n \in DOMAIN es \cup DOMAIN fs : n <= taken[r] => n \in 1 .. taken[r]
      BY <2>2
    <3>2. QED  BY <2>4, <3>1 DEF DoneEvents
  <2>6. monitor' = monitor /\ taken' = taken
    OBVIOUS
  <2>7. run[r].phase \notin Early
    BY <2>1 DEF ReadSoFar, Early
  <2>8. /\ run'[r].phase \notin {"new", "creating"}
        /\ monitor[m].status = "done" => run'[r].phase # "running" /\ run'[r].result = run[r].result
    BY <2>1, <2>7 DEF ReadSoFar, Early, Going
  <2>9. monitor[m].conn = "open" =>
          /\ \A n \in 1 .. taken[r] : fs[n] \in PlainEvents
          /\ monitor[m].completed = Cardinality({n \in DoneEvents(fs) : n <= taken[r]})
    BY <2>1, <2>4, <2>5 DEF ReadSoFar
  <2>10. QED  BY <2>1, <2>6, <2>8, <2>9 DEF ReadSoFar
<1>3. MonitorsInv'
  <2>1. \A m \in Monitors : OnlyReader(m)' <=> OnlyReader(m)
    BY DEF OnlyReader
  <2>2. ASSUME restarts = 0, NEW r \in Runs PROVE Unread(r)' /\ taken'[r] <= Len(emitted'[r])
    <3>1. Unread(r) /\ taken[r] <= Len(emitted[r]) /\ Extends(emitted[r], emitted'[r])
      BY <1>1, <2>2 DEF MonitorsInv
    <3>2. taken[r] \in Nat /\ Len(emitted[r]) \in Nat /\ Len(emitted'[r]) \in Nat
      BY <1>1 DEF RunsTypeOK
    <3>3. QED  BY <3>1, <3>2 DEF Unread, Extends
  <2>3. QED  BY <1>2, <2>1, <2>2 DEF MonitorsInv
<1>4. QED  BY <1>3, PromisesKept DEF RunsInv

WholeOf(rn) == [cases |-> rn.result, total |-> Cardinality(rn.result)]

\* A step of one run, which touches no other, and of whose copies each is as it was or
\* whole.
LEMMA OneRun ==
    ASSUME RunsInv, NEW r \in Runs, UNCHANGED <<server, taken, monitor>>,
           run' = [run EXCEPT ![r] = run'[r]], run'[r] \in RunRecords, RunnerSane(run'[r]),
           emitted' = [emitted EXCEPT ![r] = emitted'[r]], emitted'[r] \in Seq(RunEvents),
           Extends(emitted[r], emitted'[r]),
           run[r].phase \notin Early => run'[r].phase \notin Early,
           run[r].phase \notin Going =>
               run'[r].phase \notin Going /\ run'[r].result = run[r].result,
           run'[r].phase = "running" /\ emitted'[r] = <<>> =>
               InFlight(run'[r]) = {} /\ run'[r].result = {},
           restarts = 0 => LogOf(run'[r], emitted'[r]) /\ run'[r].phase # "lost",
           active' = IF run'[r].phase = "running" THEN active \cup {r} ELSE active \ {r},
           memory' = [memory EXCEPT ![r] = memory'[r]],
           memory'[r] = memory[r] \/ (memory'[r] = WholeOf(run'[r]) /\ run'[r].phase \notin Going),
           restarts = 0 /\ run'[r].phase \notin Going => memory'[r] # None,
           files' = [files EXCEPT ![r] = files'[r]],
           files'[r] = files[r] \/ (files'[r] = WholeOf(run'[r]) /\ run'[r].phase \notin Going),
           kv' = kv \/ (kv' = [kv EXCEPT ![r] = memory[r]] /\ run[r].phase \notin Going),
           row' \in [Runs -> RowRecords]
    PROVE  RunsInv'
<1>1. RunsTypeOK /\ CopiesAreWhole /\ MonitorsInv /\ BegunWithEvents
  BY DEF RunsInv
<1>2. \A q \in Runs : q # r => run'[q] = run[q] /\ emitted'[q] = emitted[q]
                               /\ memory'[q] = memory[q] /\ files'[q] = files[q]
  BY <1>1 DEF RunsTypeOK
<1>3. deploy' = deploy /\ getting' = getting /\ restarts' = restarts
  BY DEF server
<1>4. WholeOf(run'[r]) \in Results
  BY FS_CardinalityType DEF WholeOf, Results, RunRecords, RunnerSane
<1>5. RunsTypeOK'
  <2>1. run' \in [Runs -> RunRecords] /\ emitted' \in [Runs -> Seq(RunEvents)]
    <3>1. PICK rn \in RunRecords : run' = [run EXCEPT ![r] = rn]
      OBVIOUS
    <3>2. PICK es \in Seq(RunEvents) : emitted' = [emitted EXCEPT ![r] = es]
      OBVIOUS
    <3>3. QED  BY <1>1, <3>1, <3>2 DEF RunsTypeOK
  <2>2. memory' \in [Runs -> Results \cup {None}] /\ files' \in [Runs -> Results \cup {None}]
    <3>1. memory'[r] \in Results \cup {None} /\ files'[r] \in Results \cup {None}
      BY <1>1, <1>4 DEF RunsTypeOK
    <3>2. PICK new \in Results \cup {None} : memory' = [memory EXCEPT ![r] = new]
      BY <3>1
    <3>3. PICK kept \in Results \cup {None} : files' = [files EXCEPT ![r] = kept]
      BY <3>1
    <3>4. QED  BY <1>1, <3>2, <3>3 DEF RunsTypeOK
  <2>3. kv' \in [Runs -> Results \cup {None}]
    BY <1>1 DEF RunsTypeOK
  <2>4. active' = {q \in Runs : run'[q].phase = "running"}
    BY <1>1, <1>2 DEF RunsTypeOK
  <2>5. QED  BY <1>1, <1>3, <2>1, <2>2, <2>3, <2>4 DEF RunsTypeOK
<1>6. \A q \in Runs : run[q].phase \notin Going =>
          run'[q].phase \notin Going /\ run'[q].result = run[q].result
  BY <1>2
<1>7. CopiesAreWhole'
  <2>1. \A q \in Runs : Whole(q, files[q])'
    <3> SUFFICES ASSUME NEW q \in Runs PROVE Whole(q, files[q])'
      OBVIOUS
    <3>1. Whole(q, files[q])
      BY <1>1 DEF CopiesAreWhole
    <3>2. CASE files'[q] = files[q]
      BY <1>6, <3>1, <3>2 DEF Whole, Going
    <3>3. CASE files'[q] # files[q]
      BY <1>2, <3>3 DEF Whole, WholeOf, Going
    <3>4. QED  BY <3>2, <3>3
  <2>2. ASSUME ~deploy.store, NEW q \in Runs PROVE Whole(q, memory[q])' /\ Whole(q, kv[q])'
    <3>1. Whole(q, memory[q]) /\ Whole(q, kv[q])
      BY <1>1, <2>2 DEF CopiesAreWhole
    <3>2. memory'[q] = memory[q] => Whole(q, memory[q])'
      BY <1>6, <3>1 DEF Whole, Going
    <3>3. memory'[q] # memory[q] => Whole(q, memory[q])'
      BY <1>2 DEF Whole, WholeOf, Going
    <3>4. kv'[q] = kv[q] \/ kv'[q] = memory[q]
      BY <1>1 DEF RunsTypeOK
    <3>5. Whole(q, kv[q])'
      BY <1>6, <3>1, <3>4 DEF Whole, Going
    <3>6. QED  BY <3>2, <3>3, <3>5
  <2>3. QED  BY <1>1, <1>3, <2>1, <2>2 DEF CopiesAreWhole
<1>8. BegunWithEvents'
  BY <1>1, <1>2 DEF BegunWithEvents
<1>9. \A q \in Runs : RunnerSane(run'[q])
  BY <1>2 DEF RunsInv
<1>10. \A q \in Runs : run[q].phase \notin Early => run'[q].phase \notin Early
  BY <1>2
<1>11. ASSUME restarts = 0, NEW q \in Runs
       PROVE  /\ Extends(emitted[q], emitted'[q]) /\ LogOf(run[q], emitted[q])'
              /\ ResultKept(q)' /\ run'[q].phase # "lost"
  <2>1. CASE q = r
    BY <1>11, <2>1 DEF ResultKept, Going
  <2>2. CASE q # r
    <3>1. emitted[q] \in Seq(RunEvents) /\ Len(emitted[q]) \in Nat
      BY <1>1 DEF RunsTypeOK
    <3>2. Extends(emitted[q], emitted'[q])
      BY <1>2, <2>2, <3>1 DEF Extends
    <3>3. LogOf(run[q], emitted[q]) /\ ResultKept(q) /\ run[q].phase # "lost"
      BY <1>1, <1>11 DEF MonitorsInv
    <3>4. QED  BY <1>2, <2>2, <3>2, <3>3 DEF ResultKept, LogOf
  <2>3. QED  BY <2>1, <2>2
<1>12. QED  BY <1>3, <1>5, <1>6, <1>7, <1>8, <1>9, <1>10, <1>11, TaskKeeps


-----------------------------------------------------------------------------
(* What the background task does to its run.                                 *)

LEMMA LogIsOpen ==
    ASSUME NEW rn, NEW es \in Seq(RunEvents), rn.phase = "running"
    PROVE  LogOf(rn, es) <=> Open(es, Cardinality(rn.result))
BY DEF LogOf, Open, PlainEvents, Closing

LEMMA LogIsFinal ==
    ASSUME NEW rn, NEW es, rn.phase \notin Going, Final(es, Cardinality(rn.result))
    PROVE  LogOf(rn, es)
BY DEF LogOf, Final, DoneComesFirst, Going

LEMMA ExtendsMore ==
    ASSUME NEW s \in Seq(RunEvents), NEW t \in Seq(RunEvents)
    PROVE  /\ Extends(s, s) /\ Extends(s, s \o t)
           /\ \A e \in RunEvents : Extends(s, t) => Extends(s, Append(t, e))
<1>1. Extends(s, s) /\ Extends(s, s \o t)
  BY ConcatProperties DEF Extends
<1>2. ASSUME NEW e \in RunEvents, Extends(s, t) PROVE Extends(s, Append(t, e))
  <2>1. /\ Len(Append(t, e)) = Len(t) + 1 /\ DOMAIN t = 1 .. Len(t) /\ Len(t) \in Nat
        /\ Len(s) \in Nat /\ \A n \in DOMAIN t : Append(t, e)[n] = t[n]
    BY EventOneMore
  <2>2. QED  BY <1>2, <2>1 DEF Extends
<1>3. QED  BY <1>1, <1>2

LEMMA LeastCase ==
    ASSUME EvalRunsAssumption, NEW rn, NotStarted(rn) # {}
    PROVE  NextCase(rn) \in NotStarted(rn)
<1> DEFINE Q == NotStarted(rn)
           R == OpToRel(<, Nat)
<1>1. Q \in SUBSET Nat /\ Q # {}
  BY DEF NotStarted, Cases, EvalRunsAssumption
<1>2. IsWellFoundedOn(R, Nat)
  BY NatLessThanWellFounded
<1>3. \A x, y \in Nat : x < y => <<x, y>> \in R
  BY DEF OpToRel
<1> HIDE DEF R
<1>4. PICK q \in Q : \A y \in Q : ~(<<y, q>> \in R)
  BY <1>1, <1>2, WFMin
<1>5. \A y \in Q : y \in Nat /\ q \in Nat
  BY <1>1
<1>6. \A y \in Q : q <= y
  <2> SUFFICES ASSUME NEW y \in Q PROVE q <= y
    OBVIOUS
  <2> HIDE DEF Q
  <2>1. y \in Nat /\ q \in Nat
    BY <1>5
  <2>2. ~(y < q)
    BY <1>3, <1>4, <2>1
  <2>3. QED  BY <2>1, <2>2
<1>7. QED  BY <1>4, <1>6 DEF NextCase

LEMMA PagesHaveEvents ==
    ASSUME NEW c \in Cases
    PROVE  /\ CaseEv("case_start", c) \in PlainEvents /\ CaseEv("case_done", c) \in PlainEvents
           /\ CaseEv("error", c) \in PlainEvents /\ Ev("error") \in PlainEvents
           /\ Ev("run_start") \in PlainEvents /\ PlainEvents \subseteq RunEvents
           /\ Ev("run_cancel") \in [event : Closing, case : {0}] /\ Ev("end") \in RunEvents
           /\ [event : Closing, case : {0}] \subseteq RunEvents
           /\ CaseEv("case_start", c).event = "case_start" /\ CaseEv("case_done", c).event = "case_done"
           /\ CaseEv("error", c).event = "error" /\ Ev("error").event = "error"
           /\ Ev("run_start").event = "run_start"
BY DEF CaseEv, Ev, PlainEvents, RunEvents, Closing

\* A suite that ends: its result is kept whole and its events are closed.
LEMMA SuiteEnds ==
    ASSUME EvalRunsAssumption, RunsInv, NEW r \in Runs, run[r].phase = "running",
           NEW rn \in RunRecords, IsFiniteSet(rn.result),
           rn.mode = "sequential" => \A x \in rn.result : x.ok => x.meta = x.case,
           NEW events \in Seq(RunEvents), NEW es, es = emitted[r] \o events,
           restarts = 0 => \/ Open(es, Cardinality(rn.result))
                           \/ Shut(es, Cardinality(rn.result)),
           EndSuite(r, rn, events), UNCHANGED <<server, taken, monitor, kv, row>>
    PROVE  RunsInv'
<1> DEFINE k    == Cardinality(rn.result)
           told == Append(Append(es, Verdict(rn)), Ev("end"))
<1>1. RunsTypeOK /\ emitted[r] \in Seq(RunEvents) /\ r \in active
  BY DEF RunsInv, RunsTypeOK
<1>2. Verdict(rn) \in [event : Closing, case : {0}]
  BY DEF Verdict, Ev, Closing
<1>3. Verdict(rn) \in RunEvents /\ Ev("end") \in RunEvents
  BY <1>2 DEF RunEvents, Ev, Closing
<1>4. es \in Seq(RunEvents) /\ Append(es, Verdict(rn)) \in Seq(RunEvents)
  BY <1>1, <1>3, ConcatProperties, AppendProperties
<1>5. emitted' = [emitted EXCEPT ![r] = told]
  <2> DEFINE a == Verdict(rn)
             b == Ev("end")
             more == Append(events, a)
  <2>1. a \in RunEvents /\ b \in RunEvents
    BY <1>3
  <2> HIDE DEF a, b
  <2>2. emitted[r] \o more = Append(es, a)
    BY <1>1, <2>1, EmittedInTurn, ZenonT(40)
  <2>3. more \in Seq(RunEvents)
    BY <1>1, <2>1, EmittedInTurn
  <2> HIDE DEF more
  <2>4. emitted[r] \o Append(more, b) = Append(emitted[r] \o more, b)
    BY <1>1, <2>1, <2>3, EmittedInTurn, ZenonT(40)
  <2>5. emitted[r] \o Told(rn, events) = told
    BY <2>2, <2>4 DEF Told, a, b, more
  <2>6. QED  BY <1>1, <2>5 DEF EndSuite, Emit, RunsTypeOK
<1>6. told \in Seq(RunEvents) /\ told # <<>>
  BY <1>3, <1>4, EventOneMore
<1>7. Extends(emitted[r], told)
  BY <1>1, <1>3, <1>4, ExtendsMore
<1>8. restarts = 0 => Final(told, k)
  BY <1>2, OpenShuts, ShutEnds
<1> HIDE DEF told
<1>9. /\ Over(rn) \in RunRecords /\ RunnerSane(Over(rn))
      /\ Over(rn).phase = "kv" /\ Over(rn).result = rn.result
  BY EvalRunsAssumption DEF Over, Fresh, RunRecords, RunnerSane, InFlight
<1>10. run' = [run EXCEPT ![r] = Over(rn)]
  BY DEF EndSuite
<1> HIDE DEF Going, Early
<1>11. run'[r] = Over(rn) /\ emitted'[r] = told
  BY <1>1, <1>5, <1>10 DEF RunsTypeOK
<1>12. "kv" \notin Going /\ "kv" \notin Early /\ "running" \in Going
  BY DEF Going, Early
<1>13. restarts = 0 => LogOf(Over(rn), told)
  BY <1>8, <1>9, <1>12, LogIsFinal
<1>14. memory' = [memory EXCEPT ![r] = WholeOf(rn)] /\ memory'[r] = WholeOf(rn)
  BY <1>1 DEF EndSuite, WholeOf, RunsTypeOK
<1>15. WholeOf(rn) \in Results
  BY FS_CardinalityType DEF WholeOf, Results, RunRecords
<1>16. files' = [files EXCEPT ![r] = files'[r]] /\ files'[r] \in {files[r], WholeOf(rn)}
  BY <1>1, <1>14 DEF EndSuite, RunsTypeOK
<1>17. WholeOf(rn) = WholeOf(run'[r])
  BY <1>9, <1>11 DEF WholeOf
<1>18. WholeOf(rn) # None
  BY <1>15 DEF EvalRunsAssumption
<1>19. row' \in [Runs -> RowRecords] /\ kv' = kv /\ active' = active \ {r}
  BY <1>1 DEF RunsTypeOK, EndSuite
<1>20. QED
  BY <1>5, <1>6, <1>7, <1>9, <1>10, <1>11, <1>12, <1>13, <1>14, <1>16, <1>17, <1>18, <1>19, OneRun

\* A suite that goes on.
LEMMA SuiteGoes ==
    ASSUME RunsInv, NEW r \in Runs, run[r].phase = "running",
           NEW rn \in RunRecords, rn.phase = "running", RunnerSane(rn),
           NEW es \in Seq(RunEvents), Extends(emitted[r], es),
           es = <<>> => InFlight(rn) = {} /\ rn.result = {},
           restarts = 0 => Open(es, Cardinality(rn.result)),
           run' = [run EXCEPT ![r] = rn], emitted' = [emitted EXCEPT ![r] = es],
           UNCHANGED <<server, taken, monitor, active, memory, files, kv, row>>
    PROVE  RunsInv'
<1>1. RunsTypeOK /\ r \in active
  BY DEF RunsInv, RunsTypeOK
<1>2. run'[r] = rn /\ emitted'[r] = es
  BY <1>1 DEF RunsTypeOK
<1>3. restarts = 0 => LogOf(rn, es)
  BY LogIsOpen
<1>4. /\ memory' = [memory EXCEPT ![r] = memory'[r]] /\ memory'[r] = memory[r]
      /\ files' = [files EXCEPT ![r] = files'[r]] /\ files'[r] = files[r]
      /\ kv' = kv /\ row' \in [Runs -> RowRecords] /\ active' = active \cup {r}
  BY <1>1 DEF RunsTypeOK
<1>5. "running" \notin Early /\ "running" \in Going
  BY DEF Early, Going
<1>6. /\ run' = [run EXCEPT ![r] = run'[r]] /\ run'[r] \in RunRecords /\ RunnerSane(run'[r])
      /\ emitted' = [emitted EXCEPT ![r] = emitted'[r]] /\ emitted'[r] \in Seq(RunEvents)
      /\ Extends(emitted[r], emitted'[r]) /\ run'[r].phase = "running"
      /\ emitted'[r] = <<>> => InFlight(run'[r]) = {} /\ run'[r].result = {}
      /\ restarts = 0 => LogOf(run'[r], emitted'[r])
  BY <1>2, <1>3
<1>7. QED  BY <1>4, <1>5, <1>6, OneRun

\* The sequential loop after a case, or at its beginning.
LEMMA LoopGoesOn ==
    ASSUME EvalRunsAssumption, RunsInv, NEW r \in Runs, run[r].phase = "running",
           NEW rn \in RunRecords, rn.phase = "running", RunnerSane(rn),
           rn.mode = "sequential" => InFlight(rn) = {},
           NEW events \in Seq(RunEvents),
           restarts = 0 => Open(emitted[r] \o events, Cardinality(rn.result)),
           NextInLine(r, rn, events), UNCHANGED <<server, taken, monitor, kv, row>>
    PROVE  RunsInv'
<1>1. RunsTypeOK /\ emitted[r] \in Seq(RunEvents)
  BY DEF RunsInv, RunsTypeOK
<1>2. PICK es : es = emitted[r] \o events
  OBVIOUS
<1>3. es \in Seq(RunEvents)
  BY <1>1, <1>2, ConcatProperties
<1>4. restarts = 0 => Open(es, Cardinality(rn.result))
  BY <1>2
<1>5. IsFiniteSet(rn.result) /\ (rn.mode = "sequential" => \A x \in rn.result : x.ok => x.meta = x.case)
  BY DEF RunnerSane
<1>6. CASE EndSuite(r, rn, events)
  BY <1>2, <1>4, <1>5, <1>6, SuiteEnds
<1>7. CASE EndSuite(r, rn, Append(events, Ev("run_cancel")))
  <2> DEFINE c == Ev("run_cancel")
  <2>1. c \in RunEvents /\ c \in [event : Closing, case : {0}]
    BY DEF Ev, RunEvents, Closing
  <2> HIDE DEF c
  <2>2. Append(events, c) \in Seq(RunEvents)
    BY <1>1, <2>1, EmittedInTurn
  <2>3. PICK fs : fs = Append(es, c)
    OBVIOUS
  <2>4. emitted[r] \o Append(events, c) = Append(es, c)
    <3>1. c \in RunEvents
      BY <2>1
    <3>2. emitted[r] \o Append(events, c) = Append(emitted[r] \o events, c)
      BY <1>1, <3>1, EmittedInTurn, ZenonT(40)
    <3>3. QED  BY <1>2, <3>2
  <2>5. fs = emitted[r] \o Append(events, c)
    BY <2>3, <2>4
  <2>6. restarts = 0 => Shut(fs, Cardinality(rn.result))
    BY <1>4, <2>1, <2>3, OpenShuts
  <2>7. EndSuite(r, rn, Append(events, c))
    BY <1>7 DEF c
  <2>8. QED  BY <1>5, <2>2, <2>5, <2>6, <2>7, SuiteEnds
<1>8. CASE /\ NotStarted(rn) # {}
           /\ run' = [run EXCEPT ![r] = Begun(rn, NextCase(rn))]
           /\ Emit(r, Append(events, CaseEv("case_start", NextCase(rn))))
           /\ UNCHANGED <<active, memory, files>>
  <2>1. PICK c \in Cases : c = NextCase(rn) /\ rn.at[c] = "waiting"
    BY <1>8, LeastCase DEF NotStarted
  <2> DEFINE e  == CaseEv("case_start", c)
             fs == Append(es, e)
  <2>2. e \in PlainEvents /\ e \in RunEvents /\ e.event = "case_start"
    BY DEF CaseEv, PlainEvents, RunEvents
  <2> HIDE DEF e
  <2>3. emitted[r] \o Append(events, e) = Append(es, e)
    <3>1. e \in RunEvents
      BY <2>2
    <3>2. emitted[r] \o Append(events, e) = Append(emitted[r] \o events, e)
      BY <1>1, <3>1, EmittedInTurn, Zenon
    <3>3. QED  BY <1>2, <3>2
  <2>4. emitted' = [emitted EXCEPT ![r] = fs]
    <3>1. emitted' = [emitted EXCEPT ![r] = emitted[r] \o Append(events, e)]
      BY <1>1, <1>8, <2>1 DEF Emit, e, RunsTypeOK
    <3>2. QED  BY <2>3, <3>1
  <2>5. fs \in Seq(RunEvents) /\ fs # <<>>
    BY <1>3, <2>2, EventOneMore
  <2>6. Extends(emitted[r], fs)
    <3>1. Extends(emitted[r], es)
      BY <1>1, <1>2, ExtendsMore
    <3>2. QED  BY <1>1, <1>3, <2>2, <3>1, ExtendsMore
  <2>7. restarts = 0 => Open(fs, Cardinality(rn.result))
    BY <1>4, <2>2, OpenOneMore
  <2> HIDE DEF fs
  <2>8. PICK next : next = Begun(rn, c)
    OBVIOUS
  <2>9. /\ next \in RunRecords /\ next.phase = "running" /\ next.result = rn.result
        /\ next.mode = rn.mode /\ next.at = [rn.at EXCEPT ![c] = "target"]
    BY <2>8 DEF Begun, RunRecords
  <2>10. RunnerSane(next)
    BY <2>1, <2>9 DEF RunnerSane, InFlight, RunRecords
  <2>11. run' = [run EXCEPT ![r] = next]
    BY <1>8, <2>1, <2>8
  <2>12. QED  BY <1>8, <2>4, <2>5, <2>6, <2>7, <2>9, <2>10, <2>11, SuiteGoes
<1>9. QED  BY <1>6, <1>7, <1>8 DEF NextInLine

\* The suite begins, with the first case where cases go one after the other.
LEMMA BeginStep ==
    ASSUME EvalRunsAssumption, RunsInv, NEW r \in Runs, BeginSuite(r),
           UNCHANGED <<server, taken, monitor, kv, row>>
    PROVE  RunsInv'
<1> DEFINE e == Ev("run_start")
<1>1. RunsTypeOK /\ emitted[r] = <<>> /\ run[r].phase = "running"
  BY DEF RunsInv, BeginSuite
<1>2. PICK rn \in RunRecords : rn = run[r]
  BY <1>1 DEF RunsTypeOK
<1>3. RunnerSane(rn) /\ InFlight(rn) = {} /\ rn.result = {}
  BY <1>1, <1>2 DEF RunsInv, BegunWithEvents
<1>4. e \in PlainEvents /\ e \in RunEvents /\ e.event = "run_start" /\ <<>> \in Seq(RunEvents)
  BY DEF Ev, PlainEvents, RunEvents
<1>5. restarts = 0 => Open(emitted[r], Cardinality(rn.result))
  BY <1>1, <1>2, LogIsOpen DEF RunsInv, MonitorsInv, RunsTypeOK
<1> HIDE DEF e
<1>6. PICK es : es = Append(emitted[r], e)
  OBVIOUS
<1>7. restarts = 0 => Open(es, Cardinality(rn.result))
  BY <1>4, <1>5, <1>6, OpenOneMore
<1>8. <<e>> \in Seq(RunEvents) /\ emitted[r] \in Seq(RunEvents)
  BY <1>1, <1>4
<1>9. emitted[r] \o <<e>> = es
  BY <1>4, <1>6, <1>8, EmittedAlone
<1>10. es \in Seq(RunEvents) /\ es # <<>> /\ Extends(emitted[r], es)
  BY <1>4, <1>6, <1>8, EventOneMore
<1>11. CASE NextInLine(r, run[r], <<e>>)
  <2>1. NextInLine(r, rn, <<e>>)
    BY <1>2, <1>11
  <2>2. restarts = 0 => Open(emitted[r] \o <<e>>, Cardinality(rn.result))
    BY <1>7, <1>9
  <2>3. QED  BY <1>1, <1>2, <1>3, <1>8, <2>1, <2>2, LoopGoesOn
<1>12. CASE Emit(r, <<e>>) /\ UNCHANGED <<run, active, memory, files>>
  <2>1. emitted' = [emitted EXCEPT ![r] = es] /\ run' = [run EXCEPT ![r] = rn]
    BY <1>1, <1>2, <1>9, <1>12 DEF Emit, RunsTypeOK
  <2>2. QED  BY <1>1, <1>2, <1>3, <1>7, <1>10, <1>12, <2>1, SuiteGoes
<1>13. QED  BY <1>11, <1>12 DEF BeginSuite, e

LEMMA WorkerStep ==
    ASSUME EvalRunsAssumption, RunsInv, NEW r \in Runs, WorkerStarts(r),
           UNCHANGED <<server, taken, monitor, kv, row>>
    PROVE  RunsInv'
<1>1. RunsTypeOK /\ run[r].phase = "running" /\ emitted[r] \in Seq(RunEvents)
  BY DEF RunsInv, WorkerStarts, RunsTypeOK
<1>2. PICK rn \in RunRecords : rn = run[r]
  BY <1>1 DEF RunsTypeOK
<1>3. RunnerSane(rn) /\ rn.mode # "sequential"
  BY <1>2 DEF RunsInv, WorkerStarts, Sequential
<1>4. PICK c \in Cases : c = NextCase(rn) /\ rn.at[c] = "waiting"
  BY <1>2, LeastCase DEF WorkerStarts, NotStarted
<1>5. PICK e : e = CaseEv("case_start", c)
  OBVIOUS
<1>6. e \in PlainEvents /\ e \in RunEvents /\ e.event = "case_start"
  BY <1>5 DEF CaseEv, PlainEvents, RunEvents
<1>7. PICK es : es = Append(emitted[r], e)
  OBVIOUS
<1>8. restarts = 0 => Open(es, Cardinality(rn.result))
  <2>1. restarts = 0 => Open(emitted[r], Cardinality(rn.result))
    BY <1>1, <1>2, LogIsOpen DEF RunsInv, MonitorsInv
  <2>2. QED  BY <1>6, <1>7, <2>1, OpenOneMore
<1>9. es \in Seq(RunEvents) /\ es # <<>> /\ Extends(emitted[r], es)
  BY <1>1, <1>6, <1>7, EventOneMore
<1>10. emitted' = [emitted EXCEPT ![r] = es]
  <2>1. emitted[r] \o <<e>> = es
    BY <1>1, <1>6, <1>7, EmittedAlone
  <2>2. emitted' = [emitted EXCEPT ![r] = emitted[r] \o <<e>>]
    BY <1>1, <1>2, <1>4, <1>5 DEF WorkerStarts, Emit, RunsTypeOK
  <2>3. QED  BY <2>1, <2>2
<1>11. PICK next : next = Begun(rn, c)
  OBVIOUS
<1>12. /\ next \in RunRecords /\ next.phase = "running" /\ next.result = rn.result
       /\ next.mode = rn.mode /\ next.at = [rn.at EXCEPT ![c] = "target"]
  BY <1>1, <1>2, <1>11 DEF Begun, RunRecords
<1>13. RunnerSane(next)
  <2>1. \A x \in next.result : x.case \in Cases /\ rn.at[x.case] = "done"
    BY <1>1, <1>2, <1>3, <1>12 DEF RunnerSane, RunRecords, CaseResults
  <2>2. rn.at \in [Cases -> {"waiting", "target", "scoring", "done"}]
    BY DEF RunRecords
  <2>3. \A x \in next.result : next.at[x.case] = "done"
    BY <1>4, <1>12, <2>1, <2>2
  <2>4. QED  BY <1>3, <1>12, <2>3 DEF RunnerSane
<1>14. run' = [run EXCEPT ![r] = next]
  BY <1>2, <1>4, <1>11 DEF WorkerStarts
<1>15. UNCHANGED <<active, memory, files>>
  BY DEF WorkerStarts
<1>16. QED  BY <1>1, <1>8, <1>9, <1>10, <1>12, <1>13, <1>14, <1>15, SuiteGoes

LEMMA TargetStep ==
    ASSUME RunsInv, NEW r \in Runs, NEW c \in Cases, TargetAnswers(r, c),
           UNCHANGED <<server, taken, monitor, kv, row>>
    PROVE  RunsInv'
<1>1. RunsTypeOK /\ emitted[r] \in Seq(RunEvents)
  BY DEF RunsInv, RunsTypeOK
<1>2. PICK rn \in RunRecords : rn = run[r]
  BY <1>1 DEF RunsTypeOK
<1>3. RunnerSane(rn) /\ rn.at[c] = "target" /\ c \in InFlight(rn)
  BY <1>2 DEF RunsInv, TargetAnswers, InFlight
<1>4. rn.phase = "running" /\ emitted[r] # <<>>
  BY <1>2, <1>3 DEF RunnerSane, RunsInv, BegunWithEvents
<1>5. PICK next : next = [rn EXCEPT !.at[c] = "scoring", !.meta = c]
  OBVIOUS
<1>6. /\ next \in RunRecords /\ next.phase = "running" /\ next.result = rn.result
      /\ next.mode = rn.mode /\ next.at = [rn.at EXCEPT ![c] = "scoring"] /\ next.meta = c
  BY <1>4, <1>5 DEF RunRecords
<1>7. RunnerSane(next)
  BY <1>3, <1>6 DEF RunnerSane, InFlight, RunRecords
<1>8. run' = [run EXCEPT ![r] = next]
  BY <1>2, <1>5 DEF TargetAnswers
<1>9. PICK es \in Seq(RunEvents) : es = emitted[r]
  BY <1>1
<1>10. restarts = 0 => Open(es, Cardinality(rn.result))
  BY <1>2, <1>4, <1>9, LogIsOpen DEF RunsInv, MonitorsInv
<1>11. /\ emitted' = [emitted EXCEPT ![r] = es] /\ Extends(emitted[r], es) /\ es # <<>>
       /\ UNCHANGED <<active, memory, files>>
  BY <1>1, <1>4, <1>9, ExtendsMore DEF TargetAnswers, RunsTypeOK
<1>12. QED  BY <1>2, <1>4, <1>6, <1>7, <1>8, <1>10, <1>11, SuiteGoes

\* A case that has its result, which no other result is about.
LEMMA CaseStep ==
    ASSUME EvalRunsAssumption, RunsInv, NEW r \in Runs, NEW c \in Cases,
           run[r].at[c] \in {"target", "scoring"},
           NEW x \in CaseResults, x.case = c,
           run[r].mode = "sequential" /\ x.ok => x.meta = c,
           NEW events \in Seq(RunEvents),
           restarts = 0 /\ run[r].phase = "running" =>
               Open(emitted[r] \o events, Cardinality(run[r].result) + 1),
           emitted[r] \o events # <<>>,
           CaseEnds(r, c, x, events), UNCHANGED <<server, taken, monitor, kv, row>>
    PROVE  RunsInv'
<1>1. RunsTypeOK /\ emitted[r] \in Seq(RunEvents)
  BY DEF RunsInv, RunsTypeOK
<1>2. PICK old \in RunRecords : old = run[r]
  BY <1>1 DEF RunsTypeOK
<1>3. RunnerSane(old) /\ old.at[c] # "done" /\ c \in InFlight(old) /\ old.phase = "running"
  BY <1>2 DEF RunsInv, InFlight, RunnerSane
<1>4. PICK rn : rn = [old EXCEPT !.at[c] = "done", !.result = @ \cup {x}]
  OBVIOUS
<1>5. /\ rn \in RunRecords /\ rn.phase = "running" /\ rn.mode = old.mode /\ rn.meta = old.meta
      /\ rn.result = old.result \cup {x} /\ rn.at = [old.at EXCEPT ![c] = "done"]
      /\ rn.cancel = old.cancel
  BY <1>3, <1>4 DEF RunRecords
<1>6. old.at \in [Cases -> {"waiting", "target", "scoring", "done"}] /\ old.result \subseteq CaseResults
  BY DEF RunRecords
<1>7. x \notin old.result
  BY <1>3 DEF RunnerSane
<1>8. IsFiniteSet(rn.result) /\ Cardinality(rn.result) = Cardinality(old.result) + 1
  BY <1>3, <1>5, <1>7, FS_AddElement DEF RunnerSane
<1>9. InFlight(rn) = InFlight(old) \ {c}
  BY <1>5, <1>6 DEF InFlight
<1>10. RunnerSane(rn)
  <2>1. \A y \in rn.result : rn.at[y.case] = "done"
    <3> SUFFICES ASSUME NEW y \in rn.result PROVE rn.at[y.case] = "done"
      OBVIOUS
    <3>1. CASE y = x
      BY <1>5, <1>6, <3>1
    <3>2. CASE y \in old.result
      BY <1>3, <1>5, <1>6, <3>2 DEF RunnerSane, CaseResults
    <3>3. QED  BY <1>5, <3>1, <3>2
  <2>2. rn.mode = "sequential" =>
           /\ \A d, e \in InFlight(rn) : d = e
           /\ \A d \in Cases : rn.at[d] = "scoring" => rn.meta = d
           /\ \A y \in rn.result : y.ok => y.meta = y.case
    BY <1>2, <1>3, <1>5, <1>6, <1>9 DEF RunnerSane
  <2>3. QED  BY <1>5, <1>8, <2>1, <2>2 DEF RunnerSane
<1>11. rn.mode = "sequential" => InFlight(rn) = {}
  BY <1>3, <1>5, <1>9 DEF RunnerSane
<1>12. restarts = 0 => Open(emitted[r] \o events, Cardinality(rn.result))
  BY <1>2, <1>3, <1>8
<1>13. run[r].phase = "running"
  BY <1>2, <1>3
<1>14. CASE run' = [run EXCEPT ![r] = rn] /\ Emit(r, events) /\ UNCHANGED <<active, memory, files>>
  <2>1. PICK es : es = emitted[r] \o events
    OBVIOUS
  <2>2. es \in Seq(RunEvents) /\ Extends(emitted[r], es)
    BY <1>1, <2>1, ExtendsMore, ConcatProperties
  <2>3. restarts = 0 => Open(es, Cardinality(rn.result))
    BY <1>12, <2>1
  <2>4. emitted' = [emitted EXCEPT ![r] = es]
    BY <1>1, <1>14, <2>1 DEF Emit, RunsTypeOK
  <2>5. QED  BY <1>5, <1>10, <1>13, <1>14, <2>1, <2>2, <2>3, <2>4, SuiteGoes
<1>15. CASE EndSuite(r, rn, Append(events, Ev("error")))
  <2> DEFINE e == Ev("error")
  <2>1. e \in RunEvents /\ e \in PlainEvents /\ e.event = "error"
    BY DEF Ev, RunEvents, PlainEvents
  <2>2. EndSuite(r, rn, Append(events, e))
    BY <1>15
  <2> HIDE DEF e
  <2>3. e \in RunEvents
    BY <2>1
  <2>4. Append(events, e) \in Seq(RunEvents)
    BY <2>3, EmittedInTurn
  <2>5. emitted[r] \o Append(events, e) = Append(emitted[r] \o events, e)
    <3>1. \A s \in Seq(RunEvents) : s \o Append(events, e) = Append(s \o events, e)
      BY <2>3, EmittedInTurn
    <3>2. QED  BY <1>1, <3>1
  <2>6. PICK old1 : old1 = emitted[r] \o events
    OBVIOUS
  <2>7. PICK es : es = Append(old1, e)
    OBVIOUS
  <2>8. restarts = 0 => Open(es, Cardinality(rn.result))
    BY <1>12, <2>1, <2>6, <2>7, OpenOneMore
  <2>9. es = emitted[r] \o Append(events, e)
    BY <2>5, <2>6, <2>7
  <2>10. rn.mode = "sequential" => \A y \in rn.result : y.ok => y.meta = y.case
    BY <1>10 DEF RunnerSane
  <2>11. QED  BY <1>5, <1>8, <1>13, <2>2, <2>4, <2>8, <2>9, <2>10, SuiteEnds
<1>16. CASE NextInLine(r, rn, events)
  BY <1>5, <1>10, <1>11, <1>12, <1>13, <1>16, LoopGoesOn
<1>17. QED  BY <1>2, <1>4, <1>14, <1>15, <1>16 DEF CaseEnds

LEMMA ScoreStep ==
    ASSUME EvalRunsAssumption, RunsInv, NEW r \in Runs, NEW c \in Cases,
           CaseScored(r, c) \/ CaseFails(r, c), UNCHANGED <<server, taken, monitor, kv, row>>
    PROVE  RunsInv'
<1>1. RunsTypeOK /\ emitted[r] \in Seq(RunEvents) /\ run[r] \in RunRecords
  BY DEF RunsInv, RunsTypeOK
<1>2. RunnerSane(run[r]) /\ run[r].meta \in Cases \cup {None}
  BY <1>1 DEF RunsInv, RunRecords
<1>3. PICK k : k = Cardinality(run[r].result)
  OBVIOUS
<1>4. PICK old \in Seq(RunEvents) : old = emitted[r]
  BY <1>1
<1>5. restarts = 0 /\ run[r].phase = "running" => Open(old, k)
  BY <1>1, <1>3, <1>4, LogIsOpen DEF RunsInv, MonitorsInv
<1>6. PICK e, d : e = CaseEv("error", c) /\ d = CaseEv("case_done", c)
  OBVIOUS
<1>7. /\ e \in PlainEvents /\ e \in RunEvents /\ e.event = "error"
      /\ d \in PlainEvents /\ d \in RunEvents /\ d.event = "case_done"
  BY <1>6 DEF CaseEv, PlainEvents, RunEvents
<1>8. PICK x \in CaseResults, events \in {<<d>>, <<e, d>>} :
           /\ x.case = c /\ run[r].at[c] \in {"target", "scoring"}
           /\ run[r].mode = "sequential" /\ x.ok => x.meta = c
           /\ CaseEnds(r, c, x, events)
  <2>1. Endings(c) = {<<d>>, <<e, d>>}
    BY <1>6 DEF Endings
  <2>2. CASE CaseScored(r, c)
    <3>1. PICK x : x = [case |-> c, meta |-> run[r].meta, ok |-> TRUE]
      OBVIOUS
    <3>2. PICK events \in Endings(c) : CaseEnds(r, c, x, events)
      BY <2>2, <3>1 DEF CaseScored
    <3>3. x \in CaseResults /\ x.case = c /\ x.meta = run[r].meta
      BY <1>2, <3>1 DEF CaseResults
    <3>4. run[r].at[c] = "scoring" /\ (run[r].mode = "sequential" => x.meta = c)
      BY <1>2, <2>2, <3>3 DEF RunnerSane, CaseScored
    <3>5. QED  BY <2>1, <3>2, <3>3, <3>4
  <2>3. CASE CaseFails(r, c)
    <3>1. PICK x : x = [case |-> c, meta |-> None, ok |-> FALSE]
      OBVIOUS
    <3>2. PICK events \in Endings(c) : CaseEnds(r, c, x, events)
      BY <2>3, <3>1 DEF CaseFails
    <3>3. x \in CaseResults /\ x.case = c /\ ~x.ok
      BY <3>1 DEF CaseResults
    <3>4. run[r].at[c] \in {"target", "scoring"}
      BY <2>3 DEF CaseFails
    <3>5. QED  BY <2>1, <3>2, <3>3, <3>4
  <2>4. QED  BY <2>2, <2>3
<1>9. CASE events = <<d>>
  <2>1. restarts = 0 /\ run[r].phase = "running" => Open(Append(old, d), k + 1)
    BY <1>5, <1>7, OpenOneMore
  <2>2. emitted[r] \o <<d>> = Append(old, d) /\ <<d>> \in Seq(RunEvents) /\ Append(old, d) # <<>>
    <3>1. old \o <<d>> = Append(old, d) /\ <<d>> \in Seq(RunEvents)
      BY <1>7, EmittedAlone
    <3>2. Append(old, d) # <<>>
      BY <1>7, EventOneMore
    <3>3. QED  BY <1>4, <3>1, <3>2
  <2>3. QED  BY <1>3, <1>8, <1>9, <2>1, <2>2, CaseStep
<1>10. CASE events = <<e, d>>
  <2>1. PICK mid : mid = Append(old, e)
    OBVIOUS
  <2>2. restarts = 0 /\ run[r].phase = "running" => Open(mid, k)
    BY <1>5, <1>7, <2>1, OpenOneMore
  <2>3. restarts = 0 /\ run[r].phase = "running" => Open(Append(mid, d), k + 1)
    BY <1>7, <2>2, OpenOneMore
  <2>4. emitted[r] \o <<e, d>> = Append(mid, d) /\ <<e, d>> \in Seq(RunEvents)
        /\ Append(mid, d) # <<>>
    <3>1. old \o <<e, d>> = Append(Append(old, e), d) /\ <<e, d>> \in Seq(RunEvents)
      BY <1>7, EmittedAlone
    <3>2. mid \in Seq(RunEvents)
      BY <1>7, <2>1, EventOneMore
    <3>3. Append(mid, d) # <<>>
      BY <1>7, <3>2, EventOneMore
    <3>4. QED  BY <1>4, <2>1, <3>1, <3>3
  <2>5. QED  BY <1>3, <1>8, <1>10, <2>3, <2>4, CaseStep
<1>11. QED  BY <1>8, <1>9, <1>10

LEMMA ParallelStep ==
    ASSUME EvalRunsAssumption, RunsInv, NEW r \in Runs, ParallelEnds(r),
           UNCHANGED <<server, taken, monitor, kv, row>>
    PROVE  RunsInv'
<1>1. RunsTypeOK /\ emitted[r] \in Seq(RunEvents) /\ run[r].phase = "running"
  BY DEF RunsInv, RunsTypeOK, ParallelEnds
<1>2. PICK rn \in RunRecords : rn = run[r]
  BY <1>1 DEF RunsTypeOK
<1>3. PICK es \in Seq(RunEvents) : es = emitted[r]
  BY <1>1
<1>4. restarts = 0 => Open(es, Cardinality(rn.result))
  BY <1>1, <1>2, <1>3, LogIsOpen DEF RunsInv, MonitorsInv
<1>5. es = emitted[r] \o <<>> /\ <<>> \in Seq(RunEvents)
  BY <1>3, ConcatEmptySeq
<1>6. /\ IsFiniteSet(rn.result) /\ EndSuite(r, rn, <<>>)
      /\ rn.mode = "sequential" => \A x \in rn.result : x.ok => x.meta = x.case
  BY <1>2 DEF RunsInv, RunnerSane, ParallelEnds
<1>7. QED  BY <1>1, <1>4, <1>5, <1>6, SuiteEnds

\* A step of a run outside of its suite.
LEMMA QuietRun ==
    ASSUME RunsInv, NEW r \in Runs, NEW rn \in RunRecords, RunnerSane(rn),
           InFlight(rn) = {}, run' = [run EXCEPT ![r] = rn], rn.result = run[r].result,
           run[r].phase # "running", rn.phase # "lost",
           rn.phase \in Early => run[r].phase \in Early,
           run[r].phase \notin Going <=> rn.phase \notin Going,
           active' = (IF rn.phase = "running" THEN active \cup {r} ELSE active \ {r}),
           kv' = kv \/ (kv' = [kv EXCEPT ![r] = memory[r]] /\ run[r].phase \notin Going),
           row' \in [Runs -> RowRecords],
           UNCHANGED <<server, taken, monitor, emitted, memory, files>>
    PROVE  RunsInv'
<1>1. RunsTypeOK /\ MonitorsInv /\ RunnerSane(run[r]) /\ emitted[r] \in Seq(RunEvents)
  BY DEF RunsInv, RunsTypeOK
<1>2. run'[r] = rn
  BY <1>1 DEF RunsTypeOK
<1>3. rn.phase = "running" => run[r].phase \in Early
  BY DEF Early, Going
<1>4. rn.phase = "running" => rn.result = {}
  BY <1>1, <1>3 DEF RunnerSane, Early
<1>5. restarts = 0 => LogOf(rn, emitted[r])
  <2> SUFFICES ASSUME restarts = 0 PROVE LogOf(rn, emitted[r])
    OBVIOUS
  <2>1. LogOf(run[r], emitted[r])
    BY <1>1 DEF MonitorsInv
  <2>2. rn.phase \in {"new", "creating"} \/ rn.phase = "running" => emitted[r] = <<>>
    BY <1>3, <2>1 DEF LogOf, Early
  <2>3. QED  BY <2>1, <2>2 DEF LogOf
<1>6. restarts = 0 /\ rn.phase \notin Going => memory[r] # None
  BY <1>1 DEF MonitorsInv, ResultKept, Going
<1>7. PICK es \in Seq(RunEvents) : es = emitted[r]
  BY <1>1
<1>8. Extends(es, es)
  BY ExtendsMore
<1>9. /\ emitted' = [emitted EXCEPT ![r] = emitted'[r]] /\ emitted'[r] = emitted[r]
      /\ memory' = [memory EXCEPT ![r] = memory'[r]] /\ memory'[r] = memory[r]
      /\ files' = [files EXCEPT ![r] = files'[r]] /\ files'[r] = files[r]
  BY <1>1 DEF RunsTypeOK
<1>10. /\ run' = [run EXCEPT ![r] = run'[r]] /\ run'[r] \in RunRecords /\ RunnerSane(run'[r])
       /\ run'[r].phase = "running" => InFlight(run'[r]) = {} /\ run'[r].result = {}
       /\ run'[r].phase # "lost" /\ run'[r].result = run[r].result
       /\ active' = (IF run'[r].phase = "running" THEN active \cup {r} ELSE active \ {r})
       /\ run'[r].phase \in Early => run[r].phase \in Early
       /\ run[r].phase \notin Going <=> run'[r].phase \notin Going
  BY <1>2, <1>4
<1>11. emitted'[r] \in Seq(RunEvents) /\ Extends(emitted[r], emitted'[r])
  BY <1>1, <1>7, <1>8, <1>9
<1>12. restarts = 0 => LogOf(run'[r], emitted'[r])
  BY <1>2, <1>5, <1>9
<1>13. restarts = 0 /\ run'[r].phase \notin Going => memory'[r] # None
  BY <1>2, <1>6, <1>9
<1>14. QED  BY <1>9, <1>10, <1>11, <1>12, <1>13, OneRun

LEMMA PostStep ==
    ASSUME EvalRunsAssumption, RunsInv, NEW r \in Runs, CreateRun(r) \/ Register(r)
    PROVE  RunsInv'
<1>1. RunsTypeOK /\ RunnerSane(run[r]) /\ run[r] \in RunRecords /\ row[r] \in RowRecords
  BY DEF RunsInv, RunsTypeOK
<1>2. CASE CreateRun(r)
  <2>1. PICK q \in Requests :
           run' = [run EXCEPT ![r].phase = "creating", ![r].mode = q.mode, ![r].budget = q.budget]
    BY <1>2 DEF CreateRun
  <2>2. PICK rn : rn = [run[r] EXCEPT !.phase = "creating", !.mode = q.mode, !.budget = q.budget]
    OBVIOUS
  <2>3. run[r].phase = "new"
    BY <1>2 DEF CreateRun
  <2>4. /\ rn \in RunRecords /\ rn.phase = "creating" /\ rn.result = run[r].result
        /\ rn.at = run[r].at
    BY <1>1, <2>2 DEF RunRecords, Requests
  <2>5. InFlight(run[r]) = {} /\ rn.result = {} /\ IsFiniteSet(rn.result)
    BY <1>1, <2>3, <2>4 DEF RunnerSane
  <2>6. InFlight(rn) = {}
    BY <2>4, <2>5 DEF InFlight
  <2>7. RunnerSane(rn)
    BY <2>4, <2>5, <2>6 DEF RunnerSane, InFlight
  <2>8. run' = [run EXCEPT ![r] = rn]
    BY <1>1, <2>1, <2>2 DEF RunsTypeOK
  <2>9. row' \in [Runs -> RowRecords]
    <3>1. PICK new : new = [row[r] EXCEPT !.status = "running"]
      OBVIOUS
    <3>2. new \in RowRecords
      BY <1>1, <3>1 DEF RowRecords
    <3>3. row' = row \/ row' = [row EXCEPT ![r] = new]
      BY <1>1, <1>2, <3>1 DEF CreateRun, RunsTypeOK
    <3>4. QED  BY <1>1, <3>2, <3>3 DEF RunsTypeOK
  <2>10. r \notin active /\ kv' = kv /\ UNCHANGED <<server, taken, monitor, active, emitted, memory, files>>
    BY <1>1, <1>2, <2>3 DEF CreateRun, RunsTypeOK
  <2>11. QED  BY <2>3, <2>4, <2>6, <2>7, <2>8, <2>9, <2>10, QuietRun DEF Early, Going
<1>3. CASE Register(r)
  <2>1. PICK rn : rn = [run[r] EXCEPT !.phase = "running"]
    OBVIOUS
  <2>2. run[r].phase = "creating"
    BY <1>3 DEF Register
  <2>3. /\ rn \in RunRecords /\ rn.phase = "running" /\ rn.result = run[r].result
        /\ rn.at = run[r].at
    BY <1>1, <2>1 DEF RunRecords
  <2>4. InFlight(run[r]) = {} /\ rn.result = {} /\ IsFiniteSet(rn.result)
    BY <1>1, <2>2, <2>3 DEF RunnerSane
  <2>5. InFlight(rn) = {}
    BY <2>3, <2>4 DEF InFlight
  <2>6. RunnerSane(rn)
    BY <2>3, <2>4, <2>5 DEF RunnerSane, InFlight
  <2>7. run' = [run EXCEPT ![r] = rn] /\ active' = active \cup {r}
    BY <1>1, <1>3, <2>1 DEF RunsTypeOK, Register
  <2>8. row' \in [Runs -> RowRecords] /\ kv' = kv /\ UNCHANGED <<server, taken, monitor, emitted, memory, files>>
    BY <1>1, <1>3 DEF Register, RunsTypeOK, stores
  <2>9. QED  BY <2>2, <2>3, <2>5, <2>6, <2>7, <2>8, QuietRun DEF Early, Going
<1>4. QED  BY <1>2, <1>3

\* What is saved of a run after its suite.
LEMMA SaveSteps ==
    ASSUME EvalRunsAssumption, RunsInv, NEW r \in Runs, PutKv(r) \/ SaveResult(r) \/ FinishRow(r),
           UNCHANGED <<server, taken, monitor>>
    PROVE  RunsInv'
<1>1. RunsTypeOK /\ RunnerSane(run[r]) /\ run[r] \in RunRecords /\ row[r] \in RowRecords
  BY DEF RunsInv, RunsTypeOK
<1>2. PICK phase \in {"store", "ended", run[r].phase} : run' = [run EXCEPT ![r].phase = phase]
  BY <1>1 DEF PutKv, SaveResult, FinishRow, RunsTypeOK, RunRecords
<1>3. PICK rn : rn = [run[r] EXCEPT !.phase = phase]
  OBVIOUS
<1>4. run[r].phase \in {"kv", "store"}
  BY DEF PutKv, SaveResult, FinishRow
<1>5. /\ rn \in RunRecords /\ rn.phase = phase /\ rn.result = run[r].result
      /\ rn.at = run[r].at /\ rn.mode = run[r].mode
  BY <1>1, <1>2, <1>3, <1>4 DEF RunRecords
<1>6. InFlight(run[r]) = {} /\ rn.phase \in {"kv", "store", "ended"}
  BY <1>1, <1>2, <1>4, <1>5 DEF RunnerSane
<1>7. InFlight(rn) = {}
  BY <1>5, <1>6 DEF InFlight
<1>8. RunnerSane(rn)
  BY <1>1, <1>5, <1>6, <1>7 DEF RunnerSane, InFlight
<1>9. run' = [run EXCEPT ![r] = rn]
  BY <1>1, <1>2, <1>3 DEF RunsTypeOK
<1>10. row' \in [Runs -> RowRecords]
  <2>1. CASE row' = row
    BY <1>1, <2>1 DEF RunsTypeOK
  <2>2. CASE \E x \in run[r].result \ row[r].cases : row' = [row EXCEPT ![r].cases = @ \cup {x}]
    <3>1. PICK x \in run[r].result : row' = [row EXCEPT ![r].cases = @ \cup {x}]
      BY <2>2
    <3>2. PICK new : new = [row[r] EXCEPT !.cases = @ \cup {x}]
      OBVIOUS
    <3>3. new \in RowRecords
      BY <1>1, <3>2 DEF RowRecords, RunRecords
    <3>4. row' = [row EXCEPT ![r] = new]
      BY <1>1, <3>1, <3>2 DEF RunsTypeOK
    <3>5. QED  BY <1>1, <3>3, <3>4 DEF RunsTypeOK
  <2>3. CASE row' = [row EXCEPT ![r].status = "completed", ![r].total = Cardinality(run[r].result)]
    <3>1. Cardinality(run[r].result) \in Nat
      BY <1>1, FS_CardinalityType DEF RunnerSane
    <3>2. QED  BY <1>1, <2>3, <3>1 DEF RunsTypeOK, RowRecords
  <2>4. QED  BY <2>1, <2>2, <2>3 DEF PutKv, SaveResult, FinishRow
<1>11. /\ UNCHANGED <<active, emitted, memory, files>> /\ r \notin active
       /\ kv' = kv \/ kv' = [kv EXCEPT ![r] = memory[r]]
  BY <1>1, <1>4 DEF PutKv, SaveResult, FinishRow, RunsTypeOK
<1>12. QED
  BY <1>4, <1>5, <1>6, <1>7, <1>8, <1>9, <1>10, <1>11, QuietRun, ZenonT(40) DEF Early, Going

-----------------------------------------------------------------------------
(* What GET /runs, the pages and a restart do.                               *)

\* An answer is kept in memory: nothing of a run changes.
LEMMA GetKeeps ==
    ASSUME RunsInv, UNCHANGED <<deploy, restarts, run, emitted, taken, active, files, row, monitor>>,
           memory' \in [Runs -> Results \cup {None}], kv' \in [Runs -> Results \cup {None}],
           getting' \in [run : Runs, total : Nat] \cup {None},
           \A r \in Runs : memory[r] # None => memory'[r] # None,
           ~deploy.store => /\ getting' = None
                            /\ \A r \in Runs : Whole(r, memory'[r]) /\ Whole(r, kv'[r])
    PROVE  RunsInv'
<1>1. RunsTypeOK /\ CopiesAreWhole /\ MonitorsInv /\ BegunWithEvents
  BY DEF RunsInv
<1>2. RunsTypeOK'
  BY <1>1 DEF RunsTypeOK
<1>3. CopiesAreWhole'
  BY <1>1 DEF CopiesAreWhole, Whole
<1>4. BegunWithEvents' /\ \A q \in Runs : RunnerSane(run[q])'
  BY <1>1 DEF BegunWithEvents, RunsInv
<1>5. ASSUME restarts = 0, NEW q \in Runs
      PROVE  /\ Extends(emitted[q], emitted'[q]) /\ LogOf(run[q], emitted[q])'
             /\ ResultKept(q)' /\ run'[q].phase # "lost"
  <2>1. emitted[q] \in Seq(RunEvents)
    BY <1>1 DEF RunsTypeOK
  <2>2. PICK es \in Seq(RunEvents) : es = emitted[q]
    BY <2>1
  <2>3. Extends(es, es)
    BY ExtendsMore
  <2>4. LogOf(run[q], emitted[q]) /\ ResultKept(q) /\ run[q].phase # "lost"
    BY <1>1, <1>5 DEF MonitorsInv
  <2>5. QED  BY <2>2, <2>3, <2>4 DEF ResultKept
<1>6. QED  BY <1>1, <1>2, <1>3, <1>4, <1>5, TaskKeeps

LEMMA GetStep ==
    ASSUME EvalRunsAssumption, RunsInv, GetRun
    PROVE  RunsInv'
<1>1. RunsTypeOK /\ CopiesAreWhole
  BY DEF RunsInv
<1>2. UNCHANGED <<deploy, restarts, run, emitted, taken, active, files, row, monitor>>
  BY DEF GetRun
<1>3. CASE GetCases
  <2>1. PICK r \in Runs, n \in Nat : getting.run = r /\ getting.total = n
    BY <1>1, <1>3 DEF GetCases, RunsTypeOK
  <2>2. PICK new : new = [cases |-> row[r].cases, total |-> n]
    OBVIOUS
  <2>3. new \in Results /\ new # None
    BY <1>1, <2>2 DEF Results, RunsTypeOK, RowRecords, EvalRunsAssumption
  <2>4. memory' = [memory EXCEPT ![r] = new] /\ getting' = None /\ kv' = kv
    BY <1>3, <2>1, <2>2 DEF GetCases
  <2>5. deploy.store
    BY <1>1, <1>3 DEF GetCases, CopiesAreWhole
  <2>6. QED  BY <1>1, <1>2, <2>3, <2>4, <2>5, GetKeeps DEF RunsTypeOK
<1>4. ASSUME NEW r \in Runs, GetRow(r) PROVE RunsInv'
  <2>1. memory' = memory /\ kv' = kv /\ getting' = [run |-> r, total |-> row[r].total] /\ deploy.store
    BY <1>4 DEF GetRow, HasRow
  <2>2. getting' \in [run : Runs, total : Nat]
    BY <1>1, <2>1 DEF RunsTypeOK, RowRecords
  <2>3. QED  BY <1>1, <1>2, <2>1, <2>2, GetKeeps DEF RunsTypeOK
<1>5. ASSUME NEW r \in Runs, GetFromKv(r) PROVE RunsInv'
  <2>1. PICK new \in Results : new = kv[r]
    BY <1>1, <1>5 DEF GetFromKv, RunsTypeOK
  <2>2. memory' = [memory EXCEPT ![r] = new] /\ kv' = kv /\ getting' = getting /\ new # None
    BY <1>5, <2>1 DEF GetFromKv
  <2>3. memory' \in [Runs -> Results \cup {None}] /\ \A q \in Runs : memory'[q] \in {memory[q], new}
    BY <1>1, <2>2 DEF RunsTypeOK
  <2>4. memory'[r] = new /\ \A q \in Runs : q # r => memory'[q] = memory[q]
    BY <1>1, <2>2 DEF RunsTypeOK
  <2>5. ~deploy.store => \A q \in Runs : Whole(q, memory'[q]) /\ Whole(q, kv'[q])
    BY <1>1, <2>1, <2>2, <2>4 DEF CopiesAreWhole
  <2>6. QED  BY <1>1, <1>2, <2>2, <2>3, <2>4, <2>5, GetKeeps DEF RunsTypeOK, CopiesAreWhole
<1>6. ASSUME NEW r \in Runs, GetFromFile(r) PROVE RunsInv'
  <2>1. PICK new \in Results : new = files[r]
    BY <1>1, <1>6 DEF GetFromFile, RunsTypeOK
  <2>2. /\ memory' = [memory EXCEPT ![r] = new] /\ getting' = getting /\ new # None
        /\ kv' = kv \/ kv' = [kv EXCEPT ![r] = new]
    BY <1>6, <2>1 DEF GetFromFile
  <2>3. memory' \in [Runs -> Results \cup {None}] /\ kv' \in [Runs -> Results \cup {None}]
    <3>1. memory \in [Runs -> Results \cup {None}] /\ kv \in [Runs -> Results \cup {None}]
      BY <1>1 DEF RunsTypeOK
    <3>2. QED  BY <2>2, <3>1
  <2>4. memory'[r] = new /\ \A q \in Runs : q # r => memory'[q] = memory[q] /\ kv'[q] = kv[q]
    BY <1>1, <2>2 DEF RunsTypeOK
  <2>5. kv'[r] = kv[r] \/ kv'[r] = new
    BY <1>1, <2>2 DEF RunsTypeOK
  <2>6. ~deploy.store => \A q \in Runs : Whole(q, memory'[q]) /\ Whole(q, kv'[q])
    BY <1>1, <2>1, <2>4, <2>5 DEF CopiesAreWhole
  <2>7. QED  BY <1>1, <1>2, <2>2, <2>3, <2>4, <2>6, GetKeeps DEF RunsTypeOK, CopiesAreWhole
<1>7. QED  BY <1>3, <1>4, <1>5, <1>6 DEF GetRun

LEMMA RestartStep ==
    ASSUME EvalRunsAssumption, RunsInv, Restart
    PROVE  RunsInv'
<1>1. RunsTypeOK /\ CopiesAreWhole
  BY DEF RunsInv
<1>2. /\ restarts' = restarts + 1 /\ emitted' = [r \in Runs |-> <<>>] /\ taken' = [r \in Runs |-> 0]
      /\ active' = {} /\ memory' = [r \in Runs |-> None] /\ getting' = None
      /\ monitor' = [m \in Monitors |-> [monitor[m] EXCEPT !.conn = "closed"]]
      /\ UNCHANGED <<deploy, files, kv, row>>
  BY Zenon DEF Restart
<1>3. run' = [r \in Runs |-> IF run[r].phase \in {"new", "ended"} THEN run[r]
                             ELSE [Fresh EXCEPT !.phase = "lost", !.result = run[r].result]]
  BY Zenon DEF Restart
<1>4. restarts' # 0 /\ restarts' \in Nat
  <2>1. restarts \in Nat
    BY <1>1 DEF RunsTypeOK
  <2>2. QED  BY <1>2, <2>1
<1>5. MonitorsInv'
  BY <1>4 DEF MonitorsInv
<1>6. ASSUME NEW r \in Runs
      PROVE  /\ run'[r] \in RunRecords /\ RunnerSane(run'[r]) /\ run'[r].result = run[r].result
             /\ run'[r].phase # "running"
             /\ run[r].phase \notin Going => run'[r].phase \notin Going
  <2>1. RunnerSane(run[r]) /\ run[r] \in RunRecords
    BY <1>1 DEF RunsInv, RunsTypeOK
  <2>2. CASE run[r].phase \in {"new", "ended"}
    <3>1. run'[r] = run[r]
      BY <1>3, <2>2
    <3>2. QED  BY <2>1, <2>2, <3>1
  <2>3. CASE run[r].phase \notin {"new", "ended"}
    <3>1. PICK rn : rn = [Fresh EXCEPT !.phase = "lost", !.result = run[r].result]
      OBVIOUS
    <3>2. run'[r] = rn
      BY <1>3, <2>3, <3>1
    <3>3. /\ rn.phase = "lost" /\ rn.result = run[r].result /\ rn.mode = "parallel"
          /\ rn.at = [c \in Cases |-> "waiting"]
      BY <3>1 DEF Fresh
    <3>4. run[r].result \in SUBSET CaseResults
      BY <2>1 DEF RunRecords
    <3>5. rn \in RunRecords
      BY <3>1, <3>4 DEF Fresh, RunRecords
    <3>6. IsFiniteSet(rn.result)
      BY <2>1, <3>3 DEF RunnerSane
    <3>7. RunnerSane(rn)
      BY <3>3, <3>6 DEF RunnerSane, InFlight
    <3>8. QED  BY <3>2, <3>3, <3>5, <3>7 DEF Going
  <2>4. QED  BY <2>2, <2>3
<1>7. RunsTypeOK'
  <2>1. run' \in [Runs -> RunRecords]
    BY <1>3, <1>6
  <2>2. emitted' \in [Runs -> Seq(RunEvents)]
    <3>1. <<>> \in Seq(RunEvents)
      OBVIOUS
    <3>2. QED  BY <1>2, <3>1
  <2>3. active' = {r \in Runs : run'[r].phase = "running"}
    <3>1. active' = {}
      BY <1>2
    <3>2. \A r \in Runs : run'[r].phase # "running"
      BY <1>6
    <3>3. QED  BY <3>1, <3>2
  <2>4. memory' \in [Runs -> Results \cup {None}] /\ getting' = None /\ taken' \in [Runs -> Nat]
    BY <1>2
  <2>5. ASSUME NEW m \in Monitors
        PROVE  [monitor[m] EXCEPT !.conn = "closed"] \in RunPages
               /\ [monitor[m] EXCEPT !.conn = "closed"].conn = "closed"
    <3>1. monitor[m] \in RunPages
      BY <1>1 DEF RunsTypeOK
    <3>2. QED  BY <3>1 DEF RunPages
  <2>6. monitor' \in [Monitors -> RunPages] /\ \A m \in Monitors : monitor'[m].conn = "closed"
    BY <1>2, <2>5
  <2>7. QED  BY <1>1, <1>2, <1>4, <2>1, <2>2, <2>3, <2>4, <2>6 DEF RunsTypeOK
<1>8. CopiesAreWhole'
  <2>1. ASSUME NEW r \in Runs
        PROVE  /\ Whole(r, files[r]) => Whole(r, files[r])'
               /\ Whole(r, kv[r]) => Whole(r, kv[r])'
               /\ Whole(r, memory[r])'
    <3>1. files' = files /\ kv' = kv /\ memory'[r] = None
      BY <1>2
    <3>2. /\ run'[r].result = run[r].result
          /\ run[r].phase \notin Going => run'[r].phase \notin Going
      BY <1>6
    <3>3. QED  BY <3>1, <3>2 DEF Whole, Going
  <2>2. deploy' = deploy /\ getting' = None
    BY <1>2
  <2>3. QED  BY <1>1, <2>1, <2>2 DEF CopiesAreWhole
<1>9. BegunWithEvents' /\ \A q \in Runs : RunnerSane(run[q])'
  BY <1>6 DEF BegunWithEvents
<1>10. QED  BY <1>5, <1>7, <1>8, <1>9, PromisesKept DEF RunsInv

\* A step of a page, which at most cancels a run.
LEMMA PageKeeps ==
    ASSUME RunsInv, UNCHANGED <<server, emitted, active, stores>>,
           run' \in [Runs -> RunRecords],
           \A r \in Runs : /\ run'[r].phase = run[r].phase /\ run'[r].mode = run[r].mode
                           /\ run'[r].at = run[r].at /\ run'[r].meta = run[r].meta
                           /\ run'[r].result = run[r].result,
           monitor' \in [Monitors -> RunPages], taken' \in [Runs -> Nat],
           \A m \in Monitors : monitor'[m].conn = "open" => monitor'[m].run # None,
           restarts = 0 => \A r \in Runs : Unread(r)' /\ taken'[r] <= Len(emitted[r]),
           restarts = 0 => \A m \in Monitors :
               monitor'[m].run # None /\ OnlyReader(m)' => ReadSoFar(m)'
    PROVE  RunsInv'
<1>1. RunsTypeOK /\ CopiesAreWhole /\ MonitorsInv /\ BegunWithEvents /\ \A r \in Runs : RunnerSane(run[r])
  BY DEF RunsInv
<1>2. UNCHANGED <<deploy, getting, restarts, emitted, active, memory, files, kv, row>>
  BY DEF server, stores
<1>3. RunsTypeOK'
  BY <1>1, <1>2 DEF RunsTypeOK
<1>4. CopiesAreWhole'
  BY <1>1, <1>2 DEF CopiesAreWhole, Whole
<1>5. \A r \in Runs : RunnerSane(run[r])' /\ InFlight(run'[r]) = InFlight(run[r])
  BY <1>1 DEF RunnerSane, InFlight
<1>6. BegunWithEvents'
  BY <1>1, <1>2, <1>5 DEF BegunWithEvents
<1>7. MonitorsInv'
  <2>1. ASSUME restarts = 0, NEW r \in Runs
        PROVE  LogOf(run[r], emitted[r])' /\ ResultKept(r)' /\ run'[r].phase # "lost"
    <3>1. LogOf(run[r], emitted[r]) /\ ResultKept(r) /\ run[r].phase # "lost"
      BY <1>1, <2>1 DEF MonitorsInv
    <3>2. QED  BY <1>2, <3>1 DEF LogOf, ResultKept
  <2>2. QED  BY <1>2, <2>1 DEF MonitorsInv
<1>8. QED  BY <1>3, <1>4, <1>5, <1>6, <1>7, PromisesKept DEF RunsInv

\* A page that is not about it stays as true as it was.
LEMMA OtherPage ==
    ASSUME MonitorsInv, RunsTypeOK, restarts = 0, NEW n \in Monitors,
           UNCHANGED <<emitted, run>>, monitor'[n] = monitor[n], monitor[n].run # None,
           taken'[monitor[n].run] = taken[monitor[n].run], OnlyReader(n)
    PROVE  ReadSoFar(n)'
<1>1. ReadSoFar(n)
  BY DEF MonitorsInv
<1>2. QED  BY <1>1 DEF ReadSoFar

LEMMA OpenStep ==
    ASSUME EvalRunsAssumption, RunsInv, NEW m \in Monitors, OpenMonitor(m)
    PROVE  RunsInv'
<1>1. RunsTypeOK /\ MonitorsInv /\ monitor[m].run = None /\ None \notin Runs
  BY DEF RunsInv, OpenMonitor, EvalRunsAssumption
<1>2. UNCHANGED <<server, run, emitted, taken, active, stores>>
  BY DEF OpenMonitor
<1>3. PICK r \in Runs : \E opened \in {RunPage(r), BatchRow(r)} :
         /\ run[r].phase \notin {"new", "creating"}
         /\ monitor' = [monitor EXCEPT ![m] =
               CASE r \in active -> [opened EXCEPT !.conn = "open"]
                 [] r \notin active /\ memory[r] # None -> Handled(opened, Ev("run_done"))
                 [] OTHER -> opened]
  BY DEF OpenMonitor
<1>4. PICK opened \in {RunPage(r), BatchRow(r)} :
         /\ run[r].phase \notin {"new", "creating"}
         /\ monitor' = [monitor EXCEPT ![m] =
               CASE r \in active -> [opened EXCEPT !.conn = "open"]
                 [] r \notin active /\ memory[r] # None -> Handled(opened, Ev("run_done"))
                 [] OTHER -> opened]
  BY <1>3
<1>5. PICK pg :
         /\ run[r].phase \notin {"new", "creating"} /\ monitor' = [monitor EXCEPT ![m] = pg]
         /\ pg = CASE r \in active -> [opened EXCEPT !.conn = "open"]
                   [] r \notin active /\ memory[r] # None -> Handled(opened, Ev("run_done"))
                   [] OTHER -> opened
  BY <1>4
<1>6. /\ opened \in RunPages /\ opened.run = r /\ opened.conn = "closed" /\ opened.status = "running"
      /\ opened.total = 0 /\ opened.completed = 0
  BY DEF RunPage, BatchRow, Page, RunPages, Statuses
<1>7. /\ pg \in RunPages /\ pg.run = r /\ pg.completed = 0
      /\ \/ r \in active /\ pg.conn = "open" /\ pg.status = "running"
         \/ r \notin active /\ memory[r] # None /\ pg.conn = "closed" /\ pg.status = "done" /\ pg.total = 0
         \/ r \notin active /\ memory[r] = None /\ pg.conn = "closed" /\ pg.status = "running"
  <2>1. CASE r \in active
    <3>1. pg = [opened EXCEPT !.conn = "open"]
      BY <1>5, <2>1
    <3>2. QED  BY <1>6, <2>1, <3>1 DEF RunPages
  <2>2. CASE r \notin active /\ memory[r] # None
    <3>1. pg = Handled(opened, Ev("run_done"))
      BY <1>5, <2>2
    <3>2. QED
      BY <1>6, <2>2, <3>1 DEF Handled, RunHandled, BatchHandled, Counted, StatusAfter, Ev, Closing,
         RunPages, Statuses
  <2>3. CASE r \notin active /\ memory[r] = None
    <3>1. pg = opened
      BY <1>5, <2>3
    <3>2. QED  BY <1>6, <2>3, <3>1
  <2>4. QED  BY <2>1, <2>2, <2>3
<1>8. /\ monitor' \in [Monitors -> RunPages] /\ monitor'[m] = pg
      /\ \A n \in Monitors \ {m} : monitor'[n] = monitor[n]
  BY <1>1, <1>5, <1>7 DEF RunsTypeOK
<1>9. ASSUME restarts = 0, NEW q \in Runs PROVE Unread(q)' /\ taken'[q] <= Len(emitted[q])
  <2>1. Unread(q) /\ taken[q] <= Len(emitted[q])
    BY <1>1, <1>9 DEF MonitorsInv
  <2>2. QED  BY <1>1, <1>2, <1>8, <2>1 DEF Unread
<1>10. ASSUME restarts = 0, OnlyReader(m)' PROVE ReadSoFar(m)'
  <2>1. taken[r] = 0
    <3>1. \A n \in Monitors : monitor[n].run # r
      BY <1>1, <1>7, <1>8, <1>10 DEF OnlyReader
    <3>2. QED  BY <1>1, <1>10, <3>1 DEF MonitorsInv, Unread
  <2>2. DOMAIN emitted[r] = 1 .. Len(emitted[r]) /\ Len(emitted[r]) \in Nat
    BY <1>1 DEF RunsTypeOK
  <2>3. {n \in DoneEvents(emitted[r]) : n <= taken[r]} = {} /\ 1 .. taken[r] = {}
    BY <2>1, <2>2 DEF DoneEvents
  <2>4. Cardinality({n \in DoneEvents(emitted[r]) : n <= taken[r]}) = 0
    BY <2>3, FS_EmptySet
  <2>5. r \in active <=> run[r].phase = "running"
    BY <1>1 DEF RunsTypeOK
  <2>6. r \notin active => memory[r] # None
    BY <1>1, <1>5, <1>10, <2>5 DEF MonitorsInv, ResultKept
  <2>7. UNCHANGED <<run, emitted, taken>>
    BY <1>2
  <2>8. QED  BY <1>5, <1>7, <1>8, <2>3, <2>4, <2>5, <2>6, <2>7, SMTT(30) DEF ReadSoFar
<1>11. ASSUME restarts = 0, NEW n \in Monitors \ {m}, monitor'[n].run # None, OnlyReader(n)'
      PROVE  ReadSoFar(n)'
  <2>1. monitor'[n] = monitor[n] /\ OnlyReader(n)
    BY <1>1, <1>8, <1>11 DEF OnlyReader
  <2>2. QED  BY <1>1, <1>2, <1>11, <2>1, OtherPage
<1>12. \A n \in Monitors : monitor'[n].conn = "open" => monitor'[n].run # None
  BY <1>1, <1>7, <1>8 DEF RunsTypeOK
<1>13. run' \in [Runs -> RunRecords] /\ taken' \in [Runs -> Nat] /\ run' = run
  BY <1>1, <1>2 DEF RunsTypeOK
<1>14. QED  BY <1>2, <1>8, <1>9, <1>10, <1>11, <1>12, <1>13, PageKeeps

LEMMA CancelStep ==
    ASSUME EvalRunsAssumption, RunsInv, NEW m \in Monitors, PressCancel(m) \/ PressCancelRow(m)
    PROVE  RunsInv'
<1>1. RunsTypeOK /\ MonitorsInv
  BY DEF RunsInv
<1>2. UNCHANGED <<server, emitted, taken, active, stores>>
  BY DEF PressCancel, PressCancelRow
<1>3. PICK r \in Runs : run' = [run EXCEPT ![r].cancel = TRUE]
  BY <1>1 DEF PressCancel, PressCancelRow, Cancel, RunsTypeOK
<1>4. PICK rn : rn = [run[r] EXCEPT !.cancel = TRUE]
  OBVIOUS
<1>5. /\ rn \in RunRecords /\ rn.phase = run[r].phase /\ rn.mode = run[r].mode
      /\ rn.at = run[r].at /\ rn.meta = run[r].meta /\ rn.result = run[r].result
  <2>1. run[r] \in RunRecords
    BY <1>1 DEF RunsTypeOK
  <2>2. QED  BY <1>4, <2>1 DEF RunRecords
<1>6. run' = [run EXCEPT ![r] = rn]
  BY <1>1, <1>3, <1>4 DEF RunsTypeOK
<1>7. /\ run' \in [Runs -> RunRecords]
      /\ \A q \in Runs : /\ run'[q].phase = run[q].phase /\ run'[q].mode = run[q].mode
                         /\ run'[q].at = run[q].at /\ run'[q].meta = run[q].meta
                         /\ run'[q].result = run[q].result
  BY <1>1, <1>5, <1>6 DEF RunsTypeOK
<1>8. /\ monitor' \in [Monitors -> RunPages]
      /\ \A n \in Monitors : /\ monitor'[n].run = monitor[n].run
                             /\ \/ monitor'[n] = monitor[n]
                                \/ monitor'[n].conn = "closed" /\ monitor'[n].status = "cancelled"
  <2>1. CASE PressCancelRow(m)
    BY <1>1, <2>1 DEF PressCancelRow, RunsTypeOK
  <2>2. CASE PressCancel(m)
    <3>1. PICK pg : pg = [monitor[m] EXCEPT !.status = "cancelled", !.conn = "closed"]
      OBVIOUS
    <3>2. /\ pg \in RunPages /\ pg.run = monitor[m].run
          /\ pg.conn = "closed" /\ pg.status = "cancelled"
      <4>1. monitor[m] \in RunPages
        BY <1>1 DEF RunsTypeOK
      <4>2. QED  BY <3>1, <4>1 DEF RunPages, Statuses
    <3>3. monitor' = [monitor EXCEPT ![m] = pg]
      BY <1>1, <2>2, <3>1 DEF PressCancel, RunsTypeOK
    <3>4. QED  BY <1>1, <3>2, <3>3 DEF RunsTypeOK
  <2>3. QED  BY <2>1, <2>2
<1>9. ASSUME restarts = 0, NEW q \in Runs PROVE Unread(q)' /\ taken'[q] <= Len(emitted[q])
  <2>1. Unread(q) /\ taken[q] <= Len(emitted[q])
    BY <1>1, <1>9 DEF MonitorsInv
  <2>2. QED  BY <1>2, <1>8, <2>1 DEF Unread
<1>10. ASSUME restarts = 0, NEW n \in Monitors, monitor'[n].run # None, OnlyReader(n)'
       PROVE  ReadSoFar(n)'
  <2>1. OnlyReader(n) /\ monitor[n].run \in Runs
    BY <1>1, <1>8, <1>10 DEF OnlyReader, RunsTypeOK, RunPages
  <2>2. ReadSoFar(n)
    BY <1>1, <1>8, <1>10, <2>1 DEF MonitorsInv
  <2>3. emitted' = emitted /\ taken' = taken
    BY <1>2
  <2>4. CASE monitor'[n] = monitor[n]
    BY <1>7, <2>1, <2>2, <2>3, <2>4 DEF ReadSoFar
  <2>5. CASE monitor'[n].conn = "closed" /\ monitor'[n].status = "cancelled"
    BY <1>7, <1>8, <2>1, <2>2, <2>5 DEF ReadSoFar
  <2>6. QED  BY <1>8, <2>4, <2>5
<1>11. \A n \in Monitors : monitor'[n].conn = "open" => monitor'[n].run # None
  BY <1>1, <1>8 DEF RunsTypeOK
<1>12. taken' \in [Runs -> Nat]
  BY <1>1, <1>2 DEF RunsTypeOK
<1>13. QED  BY <1>2, <1>7, <1>8, <1>9, <1>10, <1>11, <1>12, PageKeeps

LEMMA PageHandles ==
    ASSUME EvalRunsAssumption, NEW old \in RunPages, NEW e \in RunEvents, NEW pg, pg = Handled(old, e)
    PROVE  /\ pg \in RunPages /\ pg.run = old.run /\ pg.page = old.page
           /\ pg.status = StatusAfter(old, e) /\ StatusAfter(old, e) \in Statuses
           /\ pg.completed = IF e.event = "case_done" THEN old.completed + 1 ELSE old.completed
           /\ pg.conn = IF (IF old.page = "run" THEN e.event \notin Closing
                            ELSE StatusAfter(old, e) = "running") THEN old.conn ELSE "closed"
<1>1. StatusAfter(old, e) \in Statuses
  BY DEF StatusAfter, Statuses, RunPages
<1>2. PICK readsOn \in BOOLEAN :
         /\ pg = Counted(old, e, readsOn)
         /\ readsOn = IF old.page = "run" THEN e.event \notin Closing
                      ELSE StatusAfter(old, e) = "running"
  <2>1. CASE old.page = "run"
    BY <2>1 DEF Handled, RunHandled
  <2>2. CASE old.page # "run"
    BY <2>2 DEF Handled, BatchHandled
  <2>3. QED  BY <2>1, <2>2
<1>3. NCases \in Nat
  BY DEF EvalRunsAssumption
<1> HIDE DEF StatusAfter
<1>4. QED  BY <1>1, <1>2, <1>3 DEF Counted, RunPages

LEMMA CountOneMore ==
    ASSUME NEW es \in Seq(RunEvents), NEW n \in Nat, n + 1 \in DOMAIN es
    PROVE  Cardinality({i \in DoneEvents(es) : i <= n + 1}) =
              IF es[n + 1].event = "case_done" THEN Cardinality({i \in DoneEvents(es) : i <= n}) + 1
              ELSE Cardinality({i \in DoneEvents(es) : i <= n})
<1> DEFINE D == {i \in DoneEvents(es) : i <= n}
           F == {i \in DoneEvents(es) : i <= n + 1}
<1>1. IsFiniteSet(D)
  <2>1. IsFiniteSet(1 .. n)
    BY FS_Interval
  <2>2. D \in SUBSET (1 .. n)
    BY DEF DoneEvents
  <2>3. QED  BY <2>1, <2>2, FS_Subset
<1>2. n + 1 \notin D /\ \A i \in DOMAIN es : i <= n + 1 <=> i <= n \/ i = n + 1
  OBVIOUS
<1>3. CASE es[n + 1].event = "case_done"
  <2>1. F = D \cup {n + 1}
    BY <1>2, <1>3 DEF DoneEvents
  <2>2. Cardinality(F) = Cardinality(D) + 1
    BY <1>1, <1>2, <2>1, FS_AddElement
  <2>3. QED  BY <1>3, <2>2
<1>4. CASE es[n + 1].event # "case_done"
  <2>1. F = D
    BY <1>2, <1>4 DEF DoneEvents
  <2>2. QED  BY <1>4, <2>1
<1>5. QED  BY <1>3, <1>4

\* What the only reader of a run knows after one more event.
LEMMA ReadOneMore ==
    ASSUME EvalRunsAssumption, RunsInv, restarts = 0,
           NEW m \in Monitors, NEW r \in Runs, NEW e, NEW pg, OnlyReader(m),
           monitor[m].run = r, monitor[m].conn = "open", taken[r] < Len(emitted[r]),
           e = emitted[r][taken[r] + 1],
           e.event # "end" => pg = Handled(monitor[m], e),
           UNCHANGED <<run, emitted>>, monitor'[m] = pg, taken'[r] = taken[r] + 1
    PROVE  ReadSoFar(m)'
<1>1. RunsTypeOK /\ MonitorsInv /\ None \notin Runs
  BY DEF RunsInv, EvalRunsAssumption
<1>2. PICK old \in RunPages : old = monitor[m]
  BY <1>1 DEF RunsTypeOK
<1>3. PICK es \in Seq(RunEvents), n \in Nat : es = emitted[r] /\ n = taken[r]
  BY <1>1 DEF RunsTypeOK
<1>4. /\ ReadSoFar(m) /\ LogOf(run[r], es) /\ n < Len(es) /\ e = es[n + 1]
      /\ DOMAIN es = 1 .. Len(es) /\ Len(es) \in Nat
  BY <1>1, <1>2, <1>3 DEF MonitorsInv
<1>5. e \in RunEvents /\ n + 1 \in DOMAIN es
  BY <1>4
<1>6. /\ old.status \in (IF old.page = "run" THEN {"running", "error"} ELSE {"running"})
      /\ \A i \in 1 .. n : es[i] \in PlainEvents
      /\ old.completed = Cardinality({i \in DoneEvents(es) : i <= n})
      /\ run[r].phase \notin {"new", "creating"}
  BY <1>2, <1>3, <1>4 DEF ReadSoFar
<1>7. e.event # "end"
  <2> SUFFICES ASSUME e.event = "end" PROVE FALSE
    OBVIOUS
  <2>1. \A i \in DOMAIN es : es[i].event = "end" => i > 1 /\ es[i - 1].event \in Closing
    BY <1>4 DEF LogOf
  <2>2. PICK k \in DOMAIN es : k = n + 1 /\ es[k].event = "end"
    BY <1>4, <1>5
  <2>3. k > 1 /\ es[k - 1].event \in Closing
    BY <2>1, <2>2
  <2>4. n \in 1 .. n /\ k - 1 = n
    BY <2>2, <2>3
  <2>5. es[n].event \in Closing /\ es[n] \in PlainEvents
    BY <1>6, <2>3, <2>4
  <2>6. QED  BY <2>5 DEF PlainEvents, Closing
<1>8. /\ pg \in RunPages /\ pg.run = r /\ pg.page = old.page /\ pg.status = StatusAfter(old, e)
      /\ pg.completed = IF e.event = "case_done" THEN old.completed + 1 ELSE old.completed
      /\ pg.conn = IF (IF old.page = "run" THEN e.event \notin Closing
                       ELSE StatusAfter(old, e) = "running") THEN "open" ELSE "closed"
  <2>1. pg = Handled(old, e) /\ old.run = r /\ old.conn = "open"
    BY <1>2, <1>7
  <2>2. /\ pg \in RunPages /\ pg.run = old.run /\ pg.page = old.page
        /\ pg.status = StatusAfter(old, e)
        /\ pg.completed = IF e.event = "case_done" THEN old.completed + 1 ELSE old.completed
        /\ pg.conn = IF (IF old.page = "run" THEN e.event \notin Closing
                         ELSE StatusAfter(old, e) = "running") THEN old.conn ELSE "closed"
    <3>1. pg = Handled(old, e) /\ e \in RunEvents
      BY <1>5, <2>1
    <3>2. QED  BY ONLY <3>1, old \in RunPages, EvalRunsAssumption, PageHandles
  <2>3. QED  BY <2>1, <2>2
<1>9. /\ monitor'[m] = pg /\ run' = run /\ emitted'[r] = es /\ taken'[r] = n + 1
  BY <1>3
<1>10. CASE e \in PlainEvents
  <2>1. e.event \notin Closing /\ e.event # "run_done"
    BY <1>10 DEF PlainEvents, Closing
  <2>2. /\ pg.status # "done"
        /\ pg.conn = "open" => pg.status \in (IF pg.page = "run" THEN {"running", "error"} ELSE {"running"})
        /\ pg.conn = "closed" => pg.status # "running"
    BY <1>6, <1>8, <2>1 DEF StatusAfter, Closing
  <2>3. \A i \in 1 .. (n + 1) : es[i] \in PlainEvents
    <3> SUFFICES ASSUME NEW i \in 1 .. (n + 1) PROVE es[i] \in PlainEvents
      OBVIOUS
    <3>1. i \in 1 .. n \/ i = n + 1
      OBVIOUS
    <3>2. QED  BY <1>4, <1>6, <1>10, <3>1
  <2>4. pg.completed = Cardinality({i \in DoneEvents(es) : i <= n + 1})
    BY <1>4, <1>5, <1>6, <1>8, CountOneMore
  <2>5. QED  BY <1>6, <1>8, <1>9, <2>2, <2>3, <2>4 DEF ReadSoFar
<1>11. CASE e.event \in Closing
  <2>1. /\ pg.conn = "closed" /\ pg.status \in {"done", "cancelled"} /\ pg.completed = old.completed
        /\ pg.status = "done" <=> e.event = "run_done"
    BY <1>8, <1>11 DEF StatusAfter, Closing
  <2>2. run[r].phase # "running"
    <3> SUFFICES ASSUME run[r].phase = "running" PROVE FALSE
      OBVIOUS
    <3>1. e \in PlainEvents
      BY <1>4, <1>5 DEF LogOf
    <3>2. QED  BY <1>11, <3>1 DEF PlainEvents, Closing
  <2>3. e.event = "run_done" => old.completed = Cardinality(run[r].result)
    <3> SUFFICES ASSUME e.event = "run_done" PROVE old.completed = Cardinality(run[r].result)
      OBVIOUS
    <3>1. \A i \in DoneEvents(es) : i < n + 1
      BY <1>4, <1>5 DEF LogOf, DoneEvents
    <3>2. \A i \in DoneEvents(es) : i <= n
      BY <1>4, <3>1 DEF DoneEvents
    <3>3. {i \in DoneEvents(es) : i <= n} = DoneEvents(es)
      BY <3>2
    <3>4. QED  BY <1>4, <1>6, <3>3 DEF LogOf
  <2>4. QED  BY <1>6, <1>8, <1>9, <2>1, <2>2, <2>3 DEF ReadSoFar
<1>12. QED  BY <1>5, <1>7, <1>10, <1>11 DEF RunEvents

LEMMA ReadStep ==
    ASSUME EvalRunsAssumption, RunsInv, NEW m \in Monitors, ReadEvent(m)
    PROVE  RunsInv'
<1>1. RunsTypeOK /\ MonitorsInv /\ None \notin Runs
  BY DEF RunsInv, EvalRunsAssumption
<1>2. UNCHANGED <<server, run, emitted, active, stores>> /\ monitor[m].conn = "open"
  BY DEF ReadEvent
<1>3. PICK r \in Runs : r = monitor[m].run
  BY <1>1, <1>2 DEF RunsTypeOK, RunPages
<1>4. PICK e : e = emitted[r][taken[r] + 1]
  OBVIOUS
<1>5. PICK pg : pg = IF e.event = "end" THEN [monitor[m] EXCEPT !.conn = "closed"]
                     ELSE Handled(monitor[m], e)
  OBVIOUS
<1>6. /\ taken[r] < Len(emitted[r]) /\ taken' = [taken EXCEPT ![r] = @ + 1]
      /\ monitor' = [monitor EXCEPT ![m] = pg]
  BY <1>1, <1>3, <1>4, <1>5 DEF ReadEvent, RunsTypeOK
<1>7. emitted[r] \in Seq(RunEvents) /\ taken[r] \in Nat /\ Len(emitted[r]) \in Nat
  BY <1>1 DEF RunsTypeOK
<1>8. e \in RunEvents
  BY <1>4, <1>6, <1>7
<1>9. pg \in RunPages /\ pg.run = r
  <2>1. monitor[m] \in RunPages
    BY <1>1 DEF RunsTypeOK
  <2>2. CASE e.event = "end"
    BY <1>3, <1>5, <2>1, <2>2 DEF RunPages
  <2>3. CASE e.event # "end"
    BY <1>3, <1>5, <1>8, <2>1, <2>3, PageHandles
  <2>4. QED  BY <2>2, <2>3
<1>10. /\ monitor' \in [Monitors -> RunPages] /\ monitor'[m] = pg
       /\ \A n \in Monitors : n # m => monitor'[n] = monitor[n]
  BY <1>1, <1>6, <1>9 DEF RunsTypeOK
<1>11. /\ taken' \in [Runs -> Nat] /\ taken'[r] = taken[r] + 1
       /\ \A q \in Runs : q # r => taken'[q] = taken[q]
  <2>1. taken \in [Runs -> Nat]
    BY <1>1 DEF RunsTypeOK
  <2>2. QED  BY <1>6, <2>1
<1>12. \A n \in Monitors : monitor'[n].run = monitor[n].run
  BY <1>3, <1>9, <1>10
<1>13. ASSUME restarts = 0, NEW q \in Runs PROVE Unread(q)' /\ taken'[q] <= Len(emitted[q])
  <2>1. Unread(q) /\ taken[q] <= Len(emitted[q])
    BY <1>1, <1>13 DEF MonitorsInv
  <2>2. CASE q = r
    BY <1>3, <1>6, <1>7, <1>11, <1>12, <2>2 DEF Unread
  <2>3. CASE q # r
    BY <1>11, <1>12, <2>1, <2>3 DEF Unread
  <2>4. QED  BY <2>2, <2>3
<1>14. ASSUME restarts = 0, NEW n \in Monitors, monitor'[n].run # None, OnlyReader(n)'
       PROVE  ReadSoFar(n)'
  <2>1. OnlyReader(n) /\ monitor[n].run # None
    BY <1>12, <1>14 DEF OnlyReader
  <2>2. CASE n = m
    BY <1>2, <1>3, <1>4, <1>5, <1>6, <1>10, <1>11, <1>14, <2>1, <2>2, ReadOneMore
  <2>3. CASE n # m
    <3>1. monitor[n].run # r /\ monitor[n].run \in Runs
      BY <1>1, <1>3, <2>1, <2>3 DEF OnlyReader, RunsTypeOK, RunPages
    <3>2. monitor'[n] = monitor[n] /\ taken'[monitor[n].run] = taken[monitor[n].run]
      BY <1>10, <1>11, <2>3, <3>1
    <3>3. QED  BY <1>1, <1>2, <1>14, <2>1, <3>2, OtherPage
  <2>4. QED  BY <2>2, <2>3
<1>15. \A n \in Monitors : monitor'[n].conn = "open" => monitor'[n].run # None
  BY <1>1, <1>3, <1>9, <1>10 DEF RunsTypeOK
<1>16. run' \in [Runs -> RunRecords] /\ run' = run
  BY <1>1, <1>2 DEF RunsTypeOK
<1>17. QED  BY <1>2, <1>10, <1>11, <1>13, <1>14, <1>15, <1>16, PageKeeps

-----------------------------------------------------------------------------
LEMMA RunsInit_Inv ==
    ASSUME EvalRunsAssumption, RunsInit
    PROVE  RunsInv
<1>1. /\ deploy \in [kv : BOOLEAN, store : BOOLEAN] /\ restarts = 0 /\ active = {} /\ getting = None
      /\ \A r \in Runs : /\ run[r] = Fresh /\ emitted[r] = <<>> /\ taken[r] = 0 /\ memory[r] = None
                         /\ files[r] = None /\ kv[r] = None /\ row[r] = NoRow
      /\ \A m \in Monitors : monitor[m] = Closed
  BY DEF RunsInit
<1>2. /\ Fresh \in RunRecords /\ Fresh.phase = "new" /\ Fresh.result = {}
      /\ Fresh.at = [c \in Cases |-> "waiting"] /\ Fresh.mode = "parallel"
  BY DEF Fresh, RunRecords
<1>3. InFlight(Fresh) = {} /\ RunnerSane(Fresh)
  <2>1. IsFiniteSet(Fresh.result)
    BY <1>2, FS_EmptySet
  <2>2. InFlight(Fresh) = {}
    BY <1>2 DEF InFlight
  <2>3. QED  BY <1>2, <2>1, <2>2 DEF RunnerSane
<1>4. NoRow \in RowRecords
  BY DEF NoRow, RowRecords
<1>5. Closed \in RunPages /\ Closed.run = None /\ Closed.conn = "closed"
  BY DEF Closed, Page, RunPages, Statuses
<1>6. RunsTypeOK
  <2>1. run \in [Runs -> RunRecords]
    BY <1>2 DEF RunsInit
  <2>2. emitted \in [Runs -> Seq(RunEvents)]
    <3>1. <<>> \in Seq(RunEvents)
      OBVIOUS
    <3>2. QED  BY <3>1 DEF RunsInit
  <2>3. taken \in [Runs -> Nat]
    BY DEF RunsInit
  <2>4. /\ memory \in [Runs -> Results \cup {None}] /\ files \in [Runs -> Results \cup {None}]
        /\ kv \in [Runs -> Results \cup {None}]
    BY DEF RunsInit
  <2>5. row \in [Runs -> RowRecords]
    BY <1>4 DEF RunsInit
  <2>6. monitor \in [Monitors -> RunPages]
    BY <1>5 DEF RunsInit
  <2>7. active = {r \in Runs : run[r].phase = "running"}
    BY <1>1, <1>2
  <2>8. restarts \in Nat /\ getting \in [run : Runs, total : Nat] \cup {None}
    BY <1>1
  <2>9. \A m \in Monitors : monitor[m].conn = "open" => monitor[m].run # None
    BY <1>1, <1>5
  <2>10. QED  BY <1>1, <2>1, <2>2, <2>3, <2>4, <2>5, <2>6, <2>7, <2>8, <2>9 DEF RunsTypeOK
<1>7. CopiesAreWhole
  BY <1>1 DEF CopiesAreWhole, Whole
<1>8. DOMAIN <<>> = {} /\ DoneEvents(<<>>) = {} /\ Cardinality({}) = 0
  <2>1. DOMAIN <<>> = {}
    OBVIOUS
  <2>2. DoneEvents(<<>>) = {}
    BY <2>1 DEF DoneEvents
  <2>3. QED  BY <2>1, <2>2, FS_EmptySet
<1>9. LogOf(Fresh, <<>>)
  <2>1. PICK es : es = <<>>
    OBVIOUS
  <2>2. DOMAIN es = {} /\ Cardinality(DoneEvents(es)) = 0
    BY <1>8, <2>1
  <2>3. LogOf(Fresh, es)
    BY <1>2, <1>8, <2>1, <2>2 DEF LogOf
  <2>4. QED  BY <2>1, <2>3
<1>10. MonitorsInv
  <2>1. ASSUME NEW r \in Runs
        PROVE  /\ LogOf(run[r], emitted[r]) /\ ResultKept(r) /\ Unread(r)
               /\ run[r].phase # "lost" /\ taken[r] <= Len(emitted[r])
    <3>1. Len(<<>>) = 0
      OBVIOUS
    <3>2. QED  BY <1>1, <1>2, <1>9, <3>1 DEF ResultKept, Unread
  <2>2. QED  BY <1>1, <1>5, <2>1 DEF MonitorsInv
<1>11. BegunWithEvents /\ \A r \in Runs : RunnerSane(run[r])
  BY <1>1, <1>2, <1>3 DEF BegunWithEvents
<1>12. ReadersAreToldTheRun
  <2>1. SequentialMetaIsOwn /\ ServedFromCopiesIsWhole /\ MonitorKnowsTheRun
    BY <1>1, <1>2, <1>5 DEF SequentialMetaIsOwn, ServedFromCopiesIsWhole, MonitorKnowsTheRun
  <2>2. QED  BY <2>1 DEF ReadersAreToldTheRun
<1>13. QED  BY <1>6, <1>7, <1>10, <1>11, <1>12 DEF RunsInv

LEMMA RunsStutter ==
    ASSUME RunsInv, UNCHANGED runsVars
    PROVE  RunsInv'
<1>1. UNCHANGED <<deploy, getting, restarts, run, emitted, taken, active, memory, files, kv, row, monitor>>
  BY DEF runsVars, server, stores
<1>2. RunsTypeOK /\ CopiesAreWhole
  BY DEF RunsInv
<1>3. QED  BY <1>1, <1>2, GetKeeps DEF RunsTypeOK, CopiesAreWhole

LEMMA RunsStep ==
    ASSUME EvalRunsAssumption, RunsInv, [RunsNext]_runsVars
    PROVE  RunsInv'
<1>1. ASSUME NEW r \in Runs, TaskStep(r) PROVE RunsInv'
  <2>1. UNCHANGED <<server, taken, monitor>>
    BY <1>1 DEF TaskStep
  <2>2. CASE SuiteStep(r)
    <3>1. UNCHANGED <<kv, row>>
      BY <2>2 DEF SuiteStep
    <3>2. QED
      BY <2>1, <2>2, <3>1, BeginStep, WorkerStep, ParallelStep, TargetStep, ScoreStep DEF SuiteStep
  <2>3. CASE PutKv(r) \/ SaveResult(r) \/ FinishRow(r)
    BY <2>1, <2>3, SaveSteps
  <2>4. QED  BY <1>1, <2>2, <2>3 DEF TaskStep
<1>2. CASE RunsNext
  BY <1>1, <1>2, GetStep, RestartStep, PostStep, OpenStep, ReadStep, CancelStep DEF RunsNext
<1>3. CASE UNCHANGED runsVars
  BY <1>3, RunsStutter
<1>4. QED  BY <1>2, <1>3

\* What GET /runs and the pages tell of a run is the run's: the metadata of its sequential
\* cases, all of its result where no run store is, and its end, for any number of runs,
\* pages, cases, workers and restarts (ryuu_eval/http/router.py, runner.py, RunMonitor.tsx).
THEOREM ReadersCorrect == RunsSpec => []ReadersAreToldTheRun
<1>1. RunsInit => RunsInv
  BY EvalRunsAssumption, RunsInit_Inv
<1>2. RunsInv /\ [RunsNext]_runsVars => RunsInv'
  BY EvalRunsAssumption, RunsStep
<1>3. RunsInv => ReadersAreToldTheRun
  BY DEF RunsInv
<1>4. QED  BY <1>1, <1>2, <1>3, PTL DEF RunsSpec
=============================================================================
