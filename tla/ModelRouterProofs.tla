------------------------ MODULE ModelRouterProofs ------------------------
(*******************************************************************************)
(* Safety of ModelRouter for any callers, tiers, providers, threshold and      *)
(* recovery timeout.  What a breaker stores and what it has been told are      *)
(* linked (Linked): the count it keeps is the failures since the last          *)
(* success, and once tripped its clock is the time since the last failure.     *)
(* One lemma per method of CircuitBreaker shows that it keeps the link.        *)
(*******************************************************************************)
EXTENDS ModelRouter, TLAPS

Linked(b, h) ==
    /\ b.failures = h.streak
    /\ b.state = "closed" <=> h.streak < Threshold
    /\ b.state # "closed" => b.age = h.quiet
    /\ b.state = "half_open" => h.quiet = RecoveryTimeout

Inv == TypeOK /\ \A p \in Registered : Linked(breaker[p], history[p])

(* A number cut at a limit is the number or the limit.                         *)
LEMMA AtMostType ==
    ASSUME NEW n \in Nat, NEW limit \in Nat
    PROVE  /\ AtMost(n, limit) \in 0..limit
           /\ AtMost(n, limit) = n \/ (AtMost(n, limit) = limit /\ n > limit)
    BY DEF AtMost

(* is_available keeps the link: it probes only after the whole wait.           *)
LEMMA AskedLinked ==
    ASSUME NEW b \in Breakers, NEW h \in Histories, Linked(b, h)
    PROVE  AskedBreaker(b) \in Breakers /\ Linked(AskedBreaker(b), h)
<1>1. CASE b.state = "open" /\ IsAvailable(b)
    <2>1. AskedBreaker(b) = [state |-> "half_open", failures |-> b.failures, age |-> b.age]
        BY <1>1 DEF AskedBreaker, Breakers
    <2>2. b.age = RecoveryTimeout
        BY <1>1, RouterAssumption DEF IsAvailable, Breakers
    <2>3. h.quiet = RecoveryTimeout /\ ~(h.streak < Threshold)
        BY <1>1, <2>2 DEF Linked
    <2>. QED  BY <2>1, <2>2, <2>3 DEF Linked, Breakers, Histories
<1>2. CASE ~(b.state = "open" /\ IsAvailable(b))
    BY <1>2 DEF AskedBreaker
<1>. QED  BY <1>1, <1>2

(* record_success keeps the link.                                              *)
LEMMA SucceededLinked ==
    ASSUME NEW b \in Breakers, NEW h \in Histories
    PROVE  /\ Succeeded(b) \in Breakers
           /\ [h EXCEPT !.streak = 0] \in Histories
           /\ Linked(Succeeded(b), [h EXCEPT !.streak = 0])
<1>1. Succeeded(b) = [state |-> "closed", failures |-> 0, age |-> b.age]
    BY DEF Succeeded, Breakers
<1>2. [h EXCEPT !.streak = 0] = [streak |-> 0, quiet |-> h.quiet]
    BY DEF Histories
<1>. QED  BY <1>1, <1>2, RouterAssumption DEF Linked, Breakers, Histories

(* record_failure keeps the link: in every state a failure that leaves the     *)
(* breaker tripped restarts its clock.                                         *)
LEMMA FailedLinked ==
    ASSUME NEW b \in Breakers, NEW h \in Histories, Linked(b, h),
           NEW g, g = [streak |-> AtMost(h.streak + 1, Threshold), quiet |-> 0]
    PROVE  Failed(b) \in Breakers /\ g \in Histories /\ Linked(Failed(b), g)
<1>1. /\ Threshold \in Nat \ {0} /\ RecoveryTimeout \in Nat
      /\ b.failures \in 0..Threshold /\ h.streak = b.failures
    BY RouterAssumption DEF Linked, Breakers
<1>. DEFINE n == AtMost(b.failures + 1, Threshold)
<1>2. n \in 0..Threshold /\ (n = b.failures + 1 \/ (n = Threshold /\ b.failures + 1 > Threshold))
    BY <1>1, AtMostType
<1>3. g \in Histories /\ g.streak = n /\ g.quiet = 0
    BY <1>1, <1>2 DEF Histories
<1>4. CASE b.state = "half_open"
    <2>1. Failed(b) = [state |-> "open", failures |-> b.failures, age |-> 0]
        BY <1>4 DEF Failed, Tripped, Breakers
    <2>2. ~(h.streak < Threshold)
        BY <1>4 DEF Linked
    <2>3. b.failures = Threshold /\ n = Threshold
        BY <1>1, <1>2, <2>2
    <2>. QED  BY <1>1, <1>3, <2>1, <2>3 DEF Linked, Breakers
<1>5. CASE b.state # "half_open" /\ n >= Threshold
    <2>1. Failed(b) = [state |-> "open", failures |-> n, age |-> 0]
        BY <1>5 DEF Failed, Tripped, Breakers
    <2>. QED  BY <1>1, <1>2, <1>3, <1>5, <2>1 DEF Linked, Breakers
<1>6. CASE b.state # "half_open" /\ ~(n >= Threshold)
    <2>1. Failed(b) = [state |-> b.state, failures |-> n, age |-> b.age]
        BY <1>6 DEF Failed, Breakers
    <2>2. b.state = "closed"
        BY <1>1, <1>2, <1>6 DEF Linked, Breakers
    <2>. QED  BY <1>1, <1>2, <1>3, <1>6, <2>1, <2>2 DEF Linked, Breakers
<1>. QED  BY <1>4, <1>5, <1>6

(* A tick keeps the link: both clocks advance together and stop together.      *)
LEMMA AgedLinked ==
    ASSUME NEW b \in Breakers, NEW h \in Histories, Linked(b, h),
           NEW c, c = [b EXCEPT !.age = AtMost(@ + 1, RecoveryTimeout)],
           NEW g, g = [h EXCEPT !.quiet = AtMost(@ + 1, RecoveryTimeout)]
    PROVE  c \in Breakers /\ g \in Histories /\ Linked(c, g)
<1>1. c = [state |-> b.state, failures |-> b.failures, age |-> AtMost(b.age + 1, RecoveryTimeout)]
    BY DEF Breakers
<1>2. g = [streak |-> h.streak, quiet |-> AtMost(h.quiet + 1, RecoveryTimeout)]
    BY DEF Histories
<1>3. b.age \in Nat /\ h.quiet \in 0..RecoveryTimeout /\ RecoveryTimeout \in Nat
    BY RouterAssumption DEF Breakers, Histories
<1>4. AtMost(b.age + 1, RecoveryTimeout) \in 0..RecoveryTimeout
    BY <1>3, AtMostType
<1>5. AtMost(h.quiet + 1, RecoveryTimeout) \in 0..RecoveryTimeout
    BY <1>3, AtMostType
<1>6. h.quiet = RecoveryTimeout => AtMost(h.quiet + 1, RecoveryTimeout) = RecoveryTimeout
    BY <1>3 DEF AtMost
<1>. QED  BY <1>1, <1>2, <1>4, <1>5, <1>6 DEF Linked, Breakers, Histories

(* What route returns for a tier is a provider or None.                        *)
LEMMA RoutedType ==
    ASSUME TypeOK, NEW t \in Tiers
    PROVE  Routed(t) \in Providers \cup {NoProvider}
    BY RouterAssumption DEF TypeOK, Routed, Registered

(* Every step keeps the invariant.                                             *)
LEMMA InvStep == Inv /\ [Next]_vars => Inv'
<1>. SUFFICES ASSUME Inv, [Next]_vars PROVE Inv'
    OBVIOUS
<1>. USE DEF Inv
<1>1. /\ TypeOK
      /\ \A p \in Registered :
           /\ breaker[p] \in Breakers /\ history[p] \in Histories
           /\ Linked(breaker[p], history[p])
    BY DEF TypeOK
<1>2. ASSUME NEW t \in Tiers, Route(t), UNCHANGED history
      PROVE  /\ breaker' \in [Registered -> Breakers] /\ history' \in [Registered -> Histories]
             /\ \A p \in Registered : Linked(breaker'[p], history'[p])
    BY <1>1, <1>2, AskedLinked DEF Route, TypeOK
<1>3. ASSUME NEW c \in Callers, NEW x \in Calls, call' = [call EXCEPT ![c] = x]
      PROVE  call' \in [Callers -> Calls]
    BY <1>1, <1>3 DEF TypeOK
<1>4. \A how \in {"idle", "answered", "raised"} : Ended(how) \in Calls
    BY DEF Ended, Calls
<1>5. ASSUME NEW c \in Callers, NEW t \in Tiers, Begin(c, t)
      PROVE  Inv'
    <2>1. Routed(t) \in Providers
        BY <1>1, <1>5, RoutedType DEF Begin
    <2>2. [at |-> "provider", to |-> Routed(t)] \in Calls
        BY <2>1 DEF Calls
    <2>3. call' \in [Callers -> Calls]
        BY <1>3, <1>5, <2>2 DEF Begin
    <2>. QED  BY <1>1, <1>2, <1>5, <2>3 DEF Begin, TypeOK
<1>6. ASSUME NEW c \in Callers, NEW t \in Tiers, Refuse(c, t)
      PROVE  Inv'
    <2>1. call' \in [Callers -> Calls]
        BY <1>3, <1>4, <1>6 DEF Refuse
    <2>. QED  BY <1>1, <1>2, <1>6, <2>1 DEF Refuse, TypeOK
<1>7. ASSUME NEW t \in Tiers, RouteOnly(t)
      PROVE  Inv'
    BY <1>1, <1>2, <1>7 DEF RouteOnly, TypeOK
<1>8. ASSUME NEW c \in Callers, Succeeds(c)
      PROVE  Inv'
    <2>1. call' \in [Callers -> Calls]
        BY <1>3, <1>4, <1>8 DEF Succeeds
    <2>2. /\ breaker' \in [Registered -> Breakers] /\ history' \in [Registered -> Histories]
          /\ \A p \in Registered : Linked(breaker'[p], history'[p])
        BY <1>1, <1>8, SucceededLinked DEF Succeeds, RecordSuccess
    <2>. QED  BY <1>1, <1>8, <2>1, <2>2 DEF Succeeds, TypeOK
<1>9. ASSUME NEW c \in Callers, Fails(c)
      PROVE  Inv'
    <2>1. fallback # NoProvider => [at |-> "fallback", to |-> fallback] \in Calls
        BY <1>1 DEF Calls, TypeOK
    <2>2. call' \in [Callers -> Calls]
        BY <1>3, <1>4, <1>9, <2>1 DEF Fails
    <2>3. /\ breaker' \in [Registered -> Breakers] /\ history' \in [Registered -> Histories]
          /\ \A p \in Registered : Linked(breaker'[p], history'[p])
        BY <1>1, <1>9, FailedLinked DEF Fails, RecordFailure
    <2>. QED  BY <1>1, <1>9, <2>2, <2>3 DEF Fails, TypeOK
<1>10. ASSUME NEW c \in Callers, FallbackEnds(c) \/ Cancelled(c) \/ Returns(c)
       PROVE  Inv'
    <2>1. call' \in [Callers -> Calls]
        BY <1>3, <1>4, <1>10 DEF FallbackEnds, Cancelled, Returns
    <2>2. UNCHANGED <<fallback, breaker, history>>
        BY <1>10 DEF FallbackEnds, Cancelled, Returns
    <2>. QED  BY <1>1, <2>1, <2>2 DEF TypeOK
<1>11. CASE Tick
    <2>1. /\ breaker' \in [Registered -> Breakers] /\ history' \in [Registered -> Histories]
          /\ \A p \in Registered : Linked(breaker'[p], history'[p])
        BY <1>1, <1>11, AgedLinked DEF Tick
    <2>. QED  BY <1>1, <1>11, <2>1 DEF Tick, TypeOK
<1>12. CASE UNCHANGED vars
    BY <1>1, <1>12 DEF vars, TypeOK
<1>. QED  BY <1>5, <1>6, <1>7, <1>8, <1>9, <1>10, <1>11, <1>12 DEF Next

(* The invariant of the router.                                                *)
THEOREM RouterInvariant == Spec => []Inv
<1>1. Init => Inv
    <2>. SUFFICES ASSUME Init PROVE Inv
        OBVIOUS
    <2>1. call \in [Callers -> Calls]
        BY DEF Init, Ended, Calls
    <2>. QED  BY <2>1, RouterAssumption DEF Init, Inv, TypeOK, Linked, Breakers, Histories
<1>. QED  BY <1>1, InvStep, PTL DEF Spec

(* Every breaker, call and fallback has its type, for any router.              *)
THEOREM RouterTypeCorrect == Spec => []TypeOK
<1>1. Inv => TypeOK
    BY DEF Inv
<1>. QED  BY <1>1, RouterInvariant, PTL

(* A breaker is closed exactly while the failures since the last success are   *)
(* fewer than the threshold (CircuitBreaker.record_failure, record_success).   *)
THEOREM TripsCorrect == Spec => []TripsOnConsecutiveFailures
<1>1. Inv => TripsOnConsecutiveFailures
    BY DEF Inv, Linked, TripsOnConsecutiveFailures
<1>. QED  BY <1>1, RouterInvariant, PTL

(* No call goes to a failing provider, other than the fallback, within the     *)
(* recovery timeout of its last failure (ModelRouter.route).                   *)
THEOREM LeftAloneCorrect == Spec => FailingProviderIsLeftAlone
<1>1. Inv /\ [Next]_vars => [\A c \in Callers : Protected(c)]_vars
    <2>. SUFFICES ASSUME Inv, Next, NEW c \in Callers, Ready(c), call'[c].at = "provider",
                         call'[c].to \in Registered, call'[c].to # fallback
                  PROVE  \/ history[call'[c].to].streak < Threshold
                         \/ history[call'[c].to].quiet >= RecoveryTimeout
        BY DEF Protected
    <2>. DEFINE p == call'[c].to
    <2>1. call \in [Callers -> Calls] /\ call[c].at = "idle"
        BY DEF Inv, TypeOK, Ready
    <2>2. \E t \in Tiers : p = Routed(t)
        <3>1. ASSUME NEW d \in Callers, NEW t \in Tiers, Begin(d, t)
              PROVE  p = Routed(t)
            BY <2>1, <3>1 DEF Begin, Calls
        <3>2. ASSUME NEW d \in Callers, NEW x \in Calls, x.at # "provider",
                     call' = [call EXCEPT ![d] = x]
              PROVE  FALSE
            BY <2>1, <3>2
        <3>3. \A how : Ended(how).at = how
            BY DEF Ended
        <3>4. call' # call
            BY <2>1
        <3>5. ASSUME NEW d \in Callers, NEW t \in Tiers, Refuse(d, t)
              PROVE  FALSE
            BY <2>1, <3>3, <3>5 DEF Refuse
        <3>6. ASSUME NEW d \in Callers,
                     Succeeds(d) \/ Fails(d) \/ FallbackEnds(d) \/ Cancelled(d) \/ Returns(d)
              PROVE  FALSE
            BY <2>1, <3>3, <3>6 DEF Succeeds, Fails, FallbackEnds, Cancelled, Returns
        <3>. QED  BY <3>1, <3>4, <3>5, <3>6 DEF Next, RouteOnly, Tick
    <2>3. IsAvailable(breaker[p])
        BY <2>2 DEF Routed
    <2>4. /\ breaker[p] \in Breakers /\ history[p] \in Histories
          /\ Linked(breaker[p], history[p])
        BY DEF Inv, TypeOK
    <2>5. CASE breaker[p].state = "closed"
        BY <2>4, <2>5 DEF Linked
    <2>6. CASE breaker[p].state = "half_open"
        BY <2>4, <2>6, RouterAssumption DEF Linked
    <2>7. CASE breaker[p].state = "open"
        BY <2>3, <2>4, <2>7 DEF Linked, IsAvailable
    <2>. QED  BY <2>4, <2>5, <2>6, <2>7 DEF Breakers
<1>. QED  BY <1>1, RouterInvariant, PTL DEF Spec, FailingProviderIsLeftAlone
=============================================================================
