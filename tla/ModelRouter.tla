---------------------------- MODULE ModelRouter ----------------------------
(*********************************************************************************)
(* ModelRouter (ryuu_providers_core/router.py) with one CircuitBreaker           *)
(* (ryuu_providers_core/circuit_breaker.py) per provider: concurrent calls       *)
(* that route by tier, record how they ended, and turn to the fallback.          *)
(*                                                                               *)
(* A step is the code between two awaits; the breaker's lock makes its           *)
(* methods atomic.  The clock is the age of each breaker's _opened_at, which     *)
(* stops at RecoveryTimeout, and _failures stops at Threshold: the code only     *)
(* compares them with those.  history is not in the code: it is what the         *)
(* breaker has been told, for the properties.                                    *)
(*********************************************************************************)
EXTENDS Integers

CONSTANTS
    Callers,         \* the concurrent users of the router
    Tiers,           \* ModelTier
    Providers,       \* every provider, by provider_id
    ProviderOf,      \* the providers argument: a provider of each tier, if any
    NoProvider,      \* None
    Threshold,       \* failure_threshold
    RecoveryTimeout  \* recovery_timeout

ASSUME RouterAssumption ==
    /\ ProviderOf \in [Tiers -> Providers \cup {NoProvider}]
    /\ NoProvider \notin Providers
    /\ Threshold \in Nat \ {0}
    /\ RecoveryTimeout \in Nat

VARIABLES
    fallback,  \* the fallback argument
    breaker,   \* _breakers
    call,      \* what each caller awaits, and how its last call ended
    history    \* failures since the last success, time since the last failure

vars == <<fallback, breaker, call, history>>

(* The providers that have a breaker.                                            *)
Registered == {ProviderOf[t] : t \in Tiers} \ {NoProvider}

Breakers == [state : {"closed", "open", "half_open"}, failures : 0..Threshold,
             age : 0..RecoveryTimeout]
Calls == [at : {"provider", "fallback"}, to : Providers]
         \cup [at : {"idle", "answered", "raised"}, to : {NoProvider}]
Histories == [streak : 0..Threshold, quiet : 0..RecoveryTimeout]

Ended(how) == [at |-> how, to |-> NoProvider]
AtMost(n, limit) == IF n <= limit THEN n ELSE limit

Init ==
    /\ fallback \in Providers \cup {NoProvider}
    /\ breaker = [p \in Registered |->
                    [state |-> "closed", failures |-> 0, age |-> RecoveryTimeout]]
    /\ call = [c \in Callers |-> Ended("idle")]
    /\ history = [p \in Registered |-> [streak |-> 0, quiet |-> RecoveryTimeout]]

-----------------------------------------------------------------------------
(* CircuitBreaker                                                                *)

IsAvailable(b) == b.state = "open" => b.age >= RecoveryTimeout

\* Mutant: a refused caller starts the wait anew.
AskedSliding(b) ==
    CASE b.state = "open" /\ IsAvailable(b) -> [b EXCEPT !.state = "half_open"]
      [] b.state = "open" /\ ~IsAvailable(b) -> [b EXCEPT !.age = 0]
      [] b.state # "open" -> b

(* The breaker after is_available.                                               *)
AskedBreaker(b) ==
    IF b.state = "open" /\ IsAvailable(b) THEN [b EXCEPT !.state = "half_open"] ELSE b

\* Mutant: the count survives a success.
SucceededKeepingCount(b) == [b EXCEPT !.state = "closed"]

Succeeded(b) == [state |-> "closed", failures |-> 0, age |-> b.age]

Tripped(b) == [state |-> "open", failures |-> b.failures, age |-> 0]

\* Mutant: a failed probe reopens the breaker with its old _opened_at.
FailedKeepingClock(b) ==
    LET n == AtMost(b.failures + 1, Threshold)
    IN CASE b.state = "half_open" -> [b EXCEPT !.state = "open"]
         [] b.state # "half_open" /\ n >= Threshold -> Tripped([b EXCEPT !.failures = n])
         [] OTHER -> [b EXCEPT !.failures = n]

Failed(b) ==
    LET n == AtMost(b.failures + 1, Threshold)
        counted == [b EXCEPT !.failures = n]
    IN CASE b.state = "half_open" -> Tripped(b)
         [] b.state # "half_open" /\ n >= Threshold -> Tripped(counted)
         [] OTHER -> counted

RecordSuccess(p) ==
    /\ breaker' = [q \in Registered |->
                     IF q = p THEN Succeeded(breaker[q]) ELSE breaker[q]]
    /\ history' = [q \in Registered |->
                     IF q = p THEN [history[q] EXCEPT !.streak = 0] ELSE history[q]]

RecordFailure(p) ==
    /\ breaker' = [q \in Registered |->
                     IF q = p THEN Failed(breaker[q]) ELSE breaker[q]]
    /\ history' = [q \in Registered |->
                     IF q = p
                       THEN [streak |-> AtMost(history[q].streak + 1, Threshold), quiet |-> 0]
                       ELSE history[q]]

-----------------------------------------------------------------------------
(* ModelRouter                                                                   *)

(* The tier's provider if its breaker lets a call through, else the fallback.    *)
Routed(t) ==
    LET p == ProviderOf[t]
    IN IF p \in Registered /\ IsAvailable(breaker[p]) THEN p ELSE fallback

(* route asks the breaker of the tier's provider.                                *)
Route(t) ==
    breaker' = [p \in Registered |->
                  IF p = ProviderOf[t] THEN AskedBreaker(breaker[p]) ELSE breaker[p]]

Ready(c) == call[c].at = "idle"
Busy(c) == call[c].at \in {"provider", "fallback"}

Begin(c, t) ==
    /\ Ready(c)
    /\ Routed(t) # NoProvider
    /\ Route(t)
    /\ call' = [call EXCEPT ![c] = [at |-> "provider", to |-> Routed(t)]]
    /\ UNCHANGED <<fallback, history>>

(* route raises DegradedError: the caller sees it without any call.              *)
Refuse(c, t) ==
    /\ Ready(c)
    /\ Routed(t) = NoProvider
    /\ Route(t)
    /\ call' = [call EXCEPT ![c] = Ended("raised")]
    /\ UNCHANGED <<fallback, history>>

(* stream, embed and estimate_cost route, and record nothing.                    *)
RouteOnly(t) ==
    /\ Route(t)
    /\ UNCHANGED <<fallback, call, history>>

Succeeds(c) ==
    /\ call[c].at = "provider"
    /\ RecordSuccess(call[c].to)
    /\ call' = [call EXCEPT ![c] = Ended("answered")]
    /\ UNCHANGED fallback

Fails(c) ==
    /\ call[c].at = "provider"
    /\ RecordFailure(call[c].to)
    /\ call' = [call EXCEPT ![c] =
                  IF fallback # NoProvider /\ call[c].to # fallback
                    THEN [at |-> "fallback", to |-> fallback]
                    ELSE Ended("raised")]
    /\ UNCHANGED fallback

(* How a call of the fallback in the except branch ends is not recorded.         *)
FallbackEnds(c) ==
    /\ call[c].at = "fallback"
    /\ \E how \in {"answered", "raised"} : call' = [call EXCEPT ![c] = Ended(how)]
    /\ UNCHANGED <<fallback, breaker, history>>

(* CancelledError is not an Exception: complete records nothing.                 *)
Cancelled(c) ==
    /\ Busy(c)
    /\ call' = [call EXCEPT ![c] = Ended("idle")]
    /\ UNCHANGED <<fallback, breaker, history>>

(* The caller takes the answer or the exception.                                 *)
Returns(c) ==
    /\ call[c].at \in {"answered", "raised"}
    /\ call' = [call EXCEPT ![c] = Ended("idle")]
    /\ UNCHANGED <<fallback, breaker, history>>

Tick ==
    /\ breaker' = [p \in Registered |->
                     [breaker[p] EXCEPT !.age = AtMost(@ + 1, RecoveryTimeout)]]
    /\ history' = [p \in Registered |->
                     [history[p] EXCEPT !.quiet = AtMost(@ + 1, RecoveryTimeout)]]
    /\ UNCHANGED <<fallback, call>>

Next ==
    \/ \E c \in Callers, t \in Tiers : Begin(c, t) \/ Refuse(c, t)
    \/ \E t \in Tiers : RouteOnly(t)
    \/ \E c \in Callers : Succeeds(c) \/ Fails(c) \/ FallbackEnds(c)
    \/ \E c \in Callers : Cancelled(c) \/ Returns(c)
    \/ Tick

(* Time passes.  Nothing says that a provider answers or that anybody calls.     *)
Spec == Init /\ [][Next]_vars /\ WF_vars(Tick)

-----------------------------------------------------------------------------
(* Properties                                                                    *)

TypeOK ==
    /\ fallback \in Providers \cup {NoProvider}
    /\ breaker \in [Registered -> Breakers]
    /\ call \in [Callers -> Calls]
    /\ history \in [Registered -> Histories]

(* A breaker is closed exactly while fewer than Threshold failures have been     *)
(* recorded since the last success, however the calls in flight overlap with     *)
(* its trips and probes (CircuitBreaker: "Trips OPEN after failure_threshold     *)
(* consecutive failures").                                                       *)
TripsOnConsecutiveFailures ==
    \A p \in Registered :
        breaker[p].state = "closed" <=> history[p].streak < Threshold

(* No call is sent to a provider within RecoveryTimeout of a failure that        *)
(* found it failing Threshold times in a row: late failures of old calls and     *)
(* failed probes start the wait anew.  A provider that is itself the fallback    *)
(* is not protected: route hands it out without asking.                          *)
Protected(c) ==
    LET p == call'[c].to
    IN /\ Ready(c)
       /\ call'[c].at = "provider"
       /\ p \in Registered
       /\ p # fallback
       => \/ history[p].streak < Threshold
          \/ history[p].quiet >= RecoveryTimeout

FailingProviderIsLeftAlone == [][\A c \in Callers : Protected(c)]_vars

(* A tier that is asked for again and again does not find its breaker open for   *)
(* ever: it lets a probe through or closes.  A provider that is the fallback     *)
(* is excepted: calls that reach it so keep failing, and re-trip it.             *)
OpenBreakerIsProbed ==
    \A t \in Tiers :
        LET p == ProviderOf[t]
            asked == []<><<\E c \in Callers : Begin(c, t) \/ Refuse(c, t)>>_vars
            probed == []<>(breaker[p].state # "open")
        IN p \in Registered => (p # fallback /\ asked => probed)
=============================================================================
