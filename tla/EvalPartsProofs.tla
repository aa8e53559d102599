-------------------------- MODULE EvalPartsProofs --------------------------
(***************************************************************************)
(* Proofs about the parts of the evaluation server and its pages, for any  *)
(* number of versions, pages, threads, suites, calls and cells: an         *)
(* inductive invariant for each of them.                                   *)
(***************************************************************************)
EXTENDS MCEvalParts, FiniteSetTheorems, WellFoundedInduction, TLAPS

-----------------------------------------------------------------------------
(***************************************************************************)
(* The scores of a case.                                                   *)
(***************************************************************************)

\* The trace of an answer compares what the answer says, and the verdict is given once.
TraceInv ==
    /\ expected \in Documents
    /\ phase \in {"cased", "answered", "scored", "measured"}
    /\ phase = "cased" => verdict.by = "nothing"
    /\ phase = "answered" => verdict.by = "nothing" /\ answer.trace = TraceOf(answer.cells)
    /\ CountsAgree

\* A non-empty set of positions has a last one.
LEMMA LastPosition ==
  ASSUME NEW n \in Nat, NEW P \in SUBSET (1 .. n), P # {}
  PROVE  Max(P) \in P /\ \A i \in P : i <= Max(P)
<1> DEFINE R == OpToRel(<, Nat)
           Q == {n - i : i \in P}
<1>1. IsWellFoundedOn(R, Nat)
  BY NatLessThanWellFounded
<1>2. \A x, y \in Nat : x < y => <<x, y>> \in R
  BY DEF OpToRel
<1> HIDE DEF R
<1>3. \A i \in P : i \in Nat /\ n - i \in Nat /\ n - i \in Q
  OBVIOUS
<1>4. Q \subseteq Nat /\ Q # {}
  BY <1>3
<1>5. PICK q \in Q : \A y \in Q : ~(<<y, q>> \in R)
  BY <1>1, <1>4, WFMin
<1>6. PICK p \in P : q = n - p
  OBVIOUS
<1> HIDE DEF Q
<1>7. ASSUME NEW i \in P PROVE p >= i
  <2>1. ~(n - i < n - p)
    BY <1>2, <1>3, <1>5, <1>6
  <2> QED
    BY <1>3, <2>1
<1>8. Max(P) \in P /\ \A i \in P : Max(P) >= i
  BY <1>7 DEF Max
<1> QED
  BY <1>3, <1>8

\* Among finitely many positions there is a first one.
LEMMA LeastLine ==
  ASSUME NEW n \in Nat, NEW P \in SUBSET (1 .. n), P # {}
  PROVE  \E q \in P : \A y \in P : q <= y
<1> DEFINE R == OpToRel(<, Nat)
<1>1. IsWellFoundedOn(R, Nat)
  BY NatLessThanWellFounded
<1>2. \A x, y \in Nat : x < y => <<x, y>> \in R
  BY DEF OpToRel
<1> HIDE DEF R
<1>3. P \subseteq Nat
  OBVIOUS
<1>4. PICK q \in P : \A y \in P : ~(<<y, q>> \in R)
  BY <1>1, <1>3, WFMin
<1>5. \A y \in P : y \in Nat /\ q \in Nat
  BY <1>3
<1>6. \A y \in P : ~(y < q)
  BY <1>2, <1>4, <1>5
<1>7. \A y \in P : q <= y
  BY <1>5, <1>6
<1>8. QED  BY <1>7

\* A matrix is a finite sequence of cells.
LEMMA MatrixIsSequence ==
  ASSUME NEW m \in Matrices
  PROVE  \E n \in Nat : m \in [1 .. n -> [key : Spelled, op : OpTexts]]
  BY ScoringAssumption DEF Matrices, SeqOf

\* The two ways from spellings to cells meet if no entity is spelled twice.
LEMMA TabledIsCanonical ==
  ASSUME NEW m \in Matrices, Plain(m)
  PROVE  Tabled(m) = Canonical(m)
<1>1. PICK n \in Nat : m \in [1 .. n -> [key : Spelled, op : OpTexts]]
  BY MatrixIsSequence
<1> DEFINE winner(e) == Entity(m[Max({i \in DOMAIN m : Entity(Canon[m[i].key]) = e})].key)
           kept == {c \in Range(m) : Entity(c.key) = winner(Entity(Canon[c.key]))}
           named(k) == {i \in DOMAIN m : m[i] \in kept /\ Canon[m[i].key] = k}
           all(k) == {i \in DOMAIN m : Canon[m[i].key] = k}
<1>2. ASSUME NEW i \in DOMAIN m
      PROVE  Entity(m[i].key) = winner(Entity(Canon[m[i].key]))
  <2> DEFINE P == {j \in DOMAIN m : Entity(Canon[m[j].key]) = Entity(Canon[m[i].key])}
  <2>1. P \in SUBSET (1 .. n) /\ P # {}
    BY <1>1
  <2>2. Max(P) \in P
    BY <2>1, LastPosition
  <2> QED
    BY <2>2 DEF Plain
<1>3. \A i \in DOMAIN m : m[i] \in kept
  BY <1>2 DEF Range
<1> HIDE DEF winner
<1>4. kept = Range(m)
  BY <1>3 DEF Range
<1>5. \A k : named(k) = all(k)
  BY <1>3
<1>6. {Canon[c.key] : c \in kept} = {Canon[m[i].key] : i \in DOMAIN m}
  BY <1>4 DEF Range
<1> HIDE DEF kept
<1>7. Tabled(m) = [k \in {Canon[c.key] : c \in kept} |-> Letters[m[Max(named(k))].op]]
  BY DEF Tabled, kept, winner
<1>8. Canonical(m) = [k \in {Canon[m[i].key] : i \in DOMAIN m} |-> Letters[m[Max(all(k))].op]]
  BY DEF Canonical
<1> HIDE DEF named, all
<1> QED
  BY <1>5, <1>6, <1>7, <1>8

\* A matrix has finitely many keys, those of its cells.
LEMMA KeysOf ==
  ASSUME NEW m \in Matrices
  PROVE  /\ DOMAIN Canonical(m) = {Canon[m[i].key] : i \in DOMAIN m}
         /\ IsFiniteSet(DOMAIN Canonical(m))
<1>1. PICK n \in Nat : m \in [1 .. n -> [key : Spelled, op : OpTexts]]
  BY MatrixIsSequence
<1>2. DOMAIN Canonical(m) = {Canon[m[i].key] : i \in DOMAIN m}
  BY DEF Canonical
<1> DEFINE K == {Canon[m[i].key] : i \in DOMAIN m}
           f == [i \in 1 .. n |-> Canon[m[i].key]]
<1>3. f \in Surjection(1 .. n, K)
  BY <1>1 DEF Surjection
<1>4. IsFiniteSet(1 .. n)
  BY FS_Interval
<1>5. IsFiniteSet(K)
  BY <1>3, <1>4, FS_Surjection
<1> QED
  BY <1>2, <1>5

\* What is counted of two plain matrices is their agreement.
LEMMA MetricsAreAgreement ==
  ASSUME NEW e \in Matrices, NEW a \in Matrices, Plain(e), Plain(a)
  PROVE  LET n == Metrics(Tabled(e), Tabled(a))
         IN  Agreement(Canonical(e), Canonical(a)) = <<n.tp, n.actual + n.expected - n.named>>
<1> DEFINE E == Canonical(e)
           A == Canonical(a)
<1>1. Tabled(e) = E /\ Tabled(a) = A
  BY TabledIsCanonical
<1>2. IsFiniteSet(DOMAIN E) /\ IsFiniteSet(DOMAIN A)
  BY KeysOf
<1>3. \A k \in DOMAIN A : ~MadeUp(k)
  BY KeysOf DEF Plain
<1> HIDE DEF E, A
<1> DEFINE sound == {k \in DOMAIN A : ~MadeUp(k)}
           named == sound \intersect DOMAIN E
           tp == {k \in named : A[k] = E[k]}
<1>4. sound = DOMAIN A /\ named = DOMAIN E \cap DOMAIN A
  BY <1>3
<1>5. tp = {k \in DOMAIN E \cap DOMAIN A : E[k] = A[k]}
  BY <1>4
<1>6. /\ Metrics(E, A).tp = Cardinality(tp) /\ Metrics(E, A).named = Cardinality(named)
      /\ Metrics(E, A).actual = Cardinality(DOMAIN A)
      /\ Metrics(E, A).expected = Cardinality(DOMAIN E)
  BY DEF Metrics
<1> HIDE DEF sound, named, tp
<1>7. Cardinality(DOMAIN E \cup DOMAIN A)
        = Cardinality(DOMAIN E) + Cardinality(DOMAIN A) - Cardinality(named)
  BY <1>2, <1>4, FS_Union
<1>8. /\ Cardinality(DOMAIN E) \in Nat /\ Cardinality(DOMAIN A) \in Nat
      /\ Cardinality(named) \in Nat
  BY <1>2, <1>4, FS_CardinalityType, FS_Intersection
<1>9. Cardinality(DOMAIN E \cup DOMAIN A)
        = Cardinality(DOMAIN A) + Cardinality(DOMAIN E) - Cardinality(named)
  BY <1>7, <1>8
<1>10. Agreement(E, A) = <<Cardinality(tp), Cardinality(DOMAIN E \cup DOMAIN A)>>
  BY <1>5 DEF Agreement
<1> QED
  BY <1>1, <1>6, <1>9, <1>10 DEF E, A

LEMMA ScoringInitial == ScoringInit => TraceInv
  BY DEF ScoringInit, TraceInv, NoVerdict, CountsAgree, TraceAgreesWithScore, MetricsAgreeWithScore

\* The three ways to count a case agree for any spellings, ops, vocabulary and length
\* of a matrix: in which order the two normalisers meet the spellings is no matter.
THEOREM CountsCorrect == ScoringSpec => []CountsAgree
<1>1. TraceInv /\ [ScoringNext]_scoringVars => TraceInv'
  <2> SUFFICES ASSUME TraceInv, [ScoringNext]_scoringVars PROVE TraceInv'
    OBVIOUS
  <2> USE DEF CountsAgree
  <2>1. expected' = expected /\ expected \in Documents
    BY DEF TraceInv, ScoringNext, RunTarget, ScoreBySuite, ScoreBySpec, SpecIsInvalid, Decide,
           MeasureFixture, ScoreStructured, StructuredUnreadable, scoringVars
  <2>2. CASE RunTarget
    <3>1. answer'.trace = TraceOf(answer'.cells)
      <4>1. ASSUME NEW kind, AnswerText(kind) PROVE answer'.trace = TraceOf(answer'.cells)
        BY <4>1 DEF AnswerText, NoAnswer
      <4>2. ASSUME NEW d, AnswerDocument(d) PROVE answer'.trace = TraceOf(answer'.cells)
        BY <4>2 DEF AnswerDocument, NoAnswer
      <4> QED
        BY <2>2, <4>1, <4>2 DEF RunTarget
    <3>2. (answer.trace = TraceOf(answer.cells))'
      BY <2>1, <3>1 DEF TraceOf
    <3> QED
      BY <2>1, <2>2, <3>2 DEF RunTarget, TraceInv, TraceAgreesWithScore, MetricsAgreeWithScore
  <2>3. ASSUME NEW by \in {"suite", "spec", "error"}, NEW score, NEW ok, NEW forbidden,
               Decide(by, score, ok, forbidden), by = "suite" => score = OpsScore
        PROVE  TraceInv'
    <3>1. /\ phase = "answered" /\ phase' = "scored" /\ answer' = answer
          /\ verdict'.by = by /\ verdict'.score = score
          /\ answer.trace = TraceOf(answer.cells)
      BY <2>3 DEF Decide, TraceInv
    <3>2. ASSUME by = "suite", ~expected.wrapped, expected.shape # "flat"
          PROVE  score = IF answer.trace[2] = 0 THEN <<1, 1>> ELSE answer.trace
      BY <2>3, <3>1, <3>2 DEF OpsScore, TraceOf, ToFlatOps, FlattenExpected
    <3> QED
      BY <2>1, <2>3, <3>1, <3>2 DEF TraceInv, TraceAgreesWithScore, MetricsAgreeWithScore
  <2>4. CASE ScoreBySuite \/ ScoreBySpec \/ SpecIsInvalid
    BY <2>3, <2>4 DEF ScoreBySuite, ScoreBySpec, SpecIsInvalid
  <2>5. CASE MeasureFixture \/ ScoreStructured
    <3>1. PICK m \in Matrices :
              /\ answer'.cells = m /\ verdict'.counts = Metrics(Tabled(expected.cells), Tabled(m))
              /\ verdict'.by \in {"metrics", "structured"}
      <4>1. CASE MeasureFixture
        BY <4>1 DEF MeasureFixture, NoAnswer
      <4>2. CASE ScoreStructured
        BY <4>2 DEF ScoreStructured, NoAnswer
      <4> QED
        BY <2>5, <4>1, <4>2
    <3>2. /\ phase' \in {"scored", "measured"} /\ expected.cells \in Matrices
          /\ expected.shape = "nested" /\ ~expected.wrapped
      BY <2>1, <2>5 DEF MeasureFixture, ScoreStructured, Documents
    <3>3. ASSUME Plain(expected.cells), Plain(m)
          PROVE  LET n == verdict'.counts
                 IN  Agreement(Canonical(ToFlatOps(expected)), Canonical(m))
                       = <<n.tp, n.actual + n.expected - n.named>>
      <4>1. ToFlatOps(expected) = expected.cells
        BY <3>2, <3>3 DEF ToFlatOps, Plain
      <4> QED
        BY <3>1, <3>2, <3>3, <4>1, MetricsAreAgreement
    <3>4. MetricsAgreeWithScore'
      BY <2>1, <3>1, <3>3 DEF MetricsAgreeWithScore
    <3> QED
      BY <2>1, <3>1, <3>2, <3>4 DEF TraceInv, TraceAgreesWithScore
  <2>6. CASE StructuredUnreadable
    BY <2>1, <2>6 DEF StructuredUnreadable, NoVerdict, TraceInv, TraceAgreesWithScore,
                      MetricsAgreeWithScore
  <2>7. CASE UNCHANGED scoringVars
    BY <2>7 DEF scoringVars, TraceInv, TraceOf, TraceAgreesWithScore, MetricsAgreeWithScore
  <2> QED
    BY <2>2, <2>4, <2>5, <2>6, <2>7 DEF ScoringNext
<1>2. TraceInv => CountsAgree
  BY DEF TraceInv
<1> QED
  BY <1>1, <1>2, ScoringInitial, PTL DEF ScoringSpec
(***************************************************************************)
(* The versions of a suite's prompt.                                       *)
(***************************************************************************)
Statuses == {"none", "draft", "staging", "archived"}
Requests == [kind : {"none", "save", "save and promote", "stage", "archive", "promote"},
             version : Versions \cup {NoVersion}, shown : Versions \cup {NoVersion}]
Panels == [seen : [Versions -> Statuses], live : Versions \cup {NoVersion}, request : Requests]

\* Who has a request under way names a version; one who archives, not the one that
\* the header of its page called the live one.
RequestOK(p) ==
    /\ Busy(p) => panel[p].request.version \in Versions
    /\ panel[p].request.kind = "archive" => panel[p].request.version # panel[p].request.shown

PromptTypeOK ==
    /\ promptStore \in {"memory", "postgres"}
    /\ row \in [Versions -> [status : Statuses, at : Nat]]
    /\ live \in Versions \cup {NoVersion} /\ promotions \in Nat
    /\ promoting \in SUBSET [page : Pages, version : Versions, began : Nat \ {0}]
    /\ panel \in [Pages -> Panels]

\* No version is archived while the transaction that promotes it is open.
NoneRetired ==
    "stale" \notin mishaps =>
        /\ live # NoVersion => row[live].status # "archived"
        /\ \A t \in promoting : row[t.version].status # "archived"

\* Stamps are times of promotions so far; the one under way is later than all.
StampsInOrder ==
    /\ \A v \in Versions : row[v].at <= promotions
    /\ \A t \in promoting : t.began <= promotions
    /\ mishaps \intersect {"overlap", "saved"} = {} =>
        /\ \A t, u \in promoting : t = u
        /\ \A t \in promoting, v \in Versions : row[v].at < t.began
        /\ live = NoVersion <=> \A v \in Versions : row[v].at = 0
        /\ \A v \in Versions \ {live} : live # NoVersion => row[v].at < row[live].at

PromptInv ==
    /\ PromptTypeOK /\ \A p \in Pages : RequestOK(p)
    /\ promoting # {} => promptStore = "postgres"
    /\ NoneRetired /\ StampsInOrder

LEMMA PromptInitial == PromptInit => PromptInv
<1> SUFFICES ASSUME PromptInit PROVE PromptInv
  OBVIOUS
<1> USE VersionAssumption DEF PromptInit
<1>1. PromptTypeOK
  BY DEF PromptTypeOK, Panels, Requests, Statuses, NoRow, Draft, NewPanel, NoRequest
<1>2. \A p \in Pages : RequestOK(p)
  BY DEF RequestOK, Busy, NewPanel, NoRequest
<1>3. NoneRetired
  BY DEF NoneRetired
<1>4. StampsInOrder
  BY DEF StampsInOrder, NoRow, Draft
<1> QED
  BY <1>1, <1>2, <1>3, <1>4 DEF PromptInv

LEMMA PromptTimes ==
  ASSUME PromptInv
  PROVE  /\ promotions \in Nat /\ row \in [Versions -> [status : Statuses, at : Nat]]
         /\ \A v \in Versions : row[v].at \in Nat /\ row[v].at <= promotions
         /\ \A t \in promoting : t.version \in Versions /\ t.page \in Pages
                               /\ t.began \in Nat \ {0} /\ t.began <= promotions
BY DEF PromptInv, PromptTypeOK, StampsInOrder

\* A click sends a request; the versions and promotions stay.
LEMMA ClickStep ==
  ASSUME PromptInv, NEW p \in Pages, NEW v \in Versions,
         NEW kind \in {"save", "save and promote", "stage", "archive", "promote"},
         Send(p, kind, v), kind = "archive" => ~IsLive(p, v)
  PROVE  PromptInv'
<1> DEFINE q == [kind |-> kind, version |-> v,
                 shown |-> IF kind = "archive" THEN panel[p].live ELSE NoVersion]
<1>1. panel[p].live \in Versions \cup {NoVersion}
  BY DEF PromptInv, PromptTypeOK, Panels
<1>2. q.kind = kind /\ q.version = v /\ q \in Requests /\ (kind = "archive" => q.shown = panel[p].live)
  BY <1>1 DEF Requests
<1>3. panel' = [panel EXCEPT ![p].request = q]
  BY DEF Send
<1> HIDE DEF q
<1>4. panel \in [Pages -> Panels]
  BY DEF PromptInv, PromptTypeOK
<1>5. panel' \in [Pages -> Panels]
  BY <1>2, <1>3, <1>4 DEF Panels
<1>6. PromptTypeOK'
  BY <1>5 DEF PromptInv, PromptTypeOK, Send
<1>7. ASSUME NEW o \in Pages PROVE RequestOK(o)'
  BY <1>2, <1>3, <1>4 DEF PromptInv, RequestOK, Busy, IsLive, Panels
<1> QED
  BY <1>6, <1>7 DEF PromptInv, Send, NoneRetired, StampsInOrder

LEMMA RefetchStep ==
  ASSUME PromptInv, NEW p \in Pages, RefetchList(p) \/ RefetchLive(p)
  PROVE  PromptInv'
<1>1. panel \in [Pages -> Panels]
  BY DEF PromptInv, PromptTypeOK
<1>2. /\ panel' \in [Pages -> Panels]
      /\ \A o \in Pages : panel'[o].request = panel[o].request
  <2>1. CASE RefetchList(p)
    BY <1>1, <2>1 DEF RefetchList, Panels, PromptInv, PromptTypeOK
  <2>2. CASE RefetchLive(p)
    <3>1. PICK v \in Versions \cup {NoVersion} : panel' = [panel EXCEPT ![p].live = v]
      BY <2>2 DEF RefetchLive, PromptInv, PromptTypeOK
    <3> QED
      BY <1>1, <3>1 DEF Panels
  <2> QED
    BY <2>1, <2>2
<1>3. UNCHANGED <<promptStore, row, live, promoting, promotions, mishaps>>
  BY DEF RefetchList, RefetchLive
<1>4. PromptTypeOK'
  BY <1>2, <1>3 DEF PromptInv, PromptTypeOK
<1>5. \A o \in Pages : RequestOK(o)'
  BY <1>2 DEF PromptInv, RequestOK, Busy
<1> QED
  BY <1>3, <1>4, <1>5 DEF PromptInv, NoneRetired, StampsInOrder

\* The request of a page is answered.
LEMMA AnsweredPanels ==
  ASSUME PromptInv, NEW p \in Pages, Answered(p)
  PROVE  panel' \in [Pages -> Panels] /\ \A o \in Pages : RequestOK(o)'
<1>1. panel \in [Pages -> Panels]
  BY DEF PromptInv, PromptTypeOK
<1>2. NoRequest \in Requests
  BY DEF NoRequest, Requests
<1>3. panel' \in [Pages -> Panels] /\ panel'[p].request = NoRequest
      /\ \A o \in Pages \ {p} : panel'[o] = panel[o]
  BY <1>1, <1>2 DEF Answered, Panels
<1>4. NoRequest.kind = "none"
  BY DEF NoRequest
<1> QED
  BY <1>3, <1>4 DEF PromptInv, RequestOK, Busy

\* Draft rows, as save leaves them.
LEMMA SaveStep ==
  ASSUME PromptInv, NEW p \in Pages, Save(p)
  PROVE  PromptInv'
<1> DEFINE v == panel[p].request.version
<1>1. panel \in [Pages -> Panels]
  BY DEF PromptInv, PromptTypeOK
<1>2. v \in Versions
  BY DEF PromptInv, RequestOK, Save, Asks, Busy
<1>3. panel' \in [Pages -> Panels] /\ \A o \in Pages : RequestOK(o)'
  <2>1. CASE Asks(p, "save")
    <3>1. Answered(p)
      BY <2>1 DEF Save
    <3> QED
      BY <3>1, AnsweredPanels
  <2>2. CASE ~Asks(p, "save")
    <3>1. panel' = [panel EXCEPT ![p].request.kind = "promote"]
      BY <2>2 DEF Save
    <3>2. panel'[p].request = [panel[p].request EXCEPT !.kind = "promote"]
          /\ panel' = [panel EXCEPT ![p].request = panel'[p].request]
      BY <1>1, <3>1 DEF Panels
    <3> DEFINE q == [panel[p].request EXCEPT !.kind = "promote"]
    <3>3. q \in Requests /\ q.kind = "promote" /\ q.version = v
      BY <1>1 DEF Panels, Requests
    <3> HIDE DEF q
    <3>4. panel' = [panel EXCEPT ![p].request = q]
      BY <3>2 DEF q
    <3>5. panel' \in [Pages -> Panels] /\ panel'[p].request = q
          /\ \A o \in Pages \ {p} : panel'[o] = panel[o]
      BY <1>1, <3>3, <3>4 DEF Panels
    <3> QED
      BY <1>2, <3>3, <3>5 DEF PromptInv, RequestOK, Busy
  <2> QED
    BY <2>1, <2>2
<1>4. /\ row' = [row EXCEPT ![v] = Draft]
      /\ UNCHANGED <<promptStore, live, promoting, promotions>>
      /\ mishaps' = IF row[v].at = 0 THEN mishaps ELSE mishaps \union {"saved"}
  BY DEF Save
<1>5. Draft \in [status : Statuses, at : Nat] /\ Draft.status = "draft" /\ Draft.at = 0
  BY DEF Draft, Statuses
<1> HIDE DEF v
<1>6. PromptTypeOK'
  BY <1>2, <1>3, <1>4, <1>5 DEF PromptInv, PromptTypeOK
<1>7. NoneRetired'
  BY <1>2, <1>4, <1>5 DEF PromptInv, PromptTypeOK, NoneRetired
<1>8. StampsInOrder'
  <2>1. \A u \in Versions : row'[u].at = row[u].at \/ (u = v /\ row'[u].at = 0)
    BY <1>2, <1>4, <1>5 DEF PromptInv, PromptTypeOK
  <2>2. row[v].at = 0 => \A u \in Versions : row'[u].at = row[u].at
    BY <2>1
  <2>3. mishaps' \intersect {"overlap", "saved"} = {} =>
            row[v].at = 0 /\ mishaps \intersect {"overlap", "saved"} = {}
    BY <1>4
  <2>4. /\ \A u \in Versions : row'[u].at <= promotions'
        /\ \A t \in promoting' : t.began <= promotions'
    BY <1>4, <2>1, PromptTimes
  <2>5. ASSUME mishaps' \intersect {"overlap", "saved"} = {}
        PROVE  /\ \A t, u \in promoting' : t = u
               /\ \A t \in promoting', u \in Versions : row'[u].at < t.began
               /\ live' = NoVersion <=> \A u \in Versions : row'[u].at = 0
               /\ \A u \in Versions \ {live'} : live' # NoVersion => row'[u].at < row'[live'].at
    <3>1. \A u \in Versions : row'[u].at = row[u].at
      BY <2>2, <2>3, <2>5
    <3>2. live \in Versions \cup {NoVersion}
      BY DEF PromptInv, PromptTypeOK
    <3> QED
      BY <1>4, <2>3, <2>5, <3>1, <3>2 DEF PromptInv, StampsInOrder
  <2> QED
    BY <2>4, <2>5 DEF StampsInOrder
<1> QED
  BY <1>3, <1>4, <1>6, <1>7, <1>8 DEF PromptInv

LEMMA StatusStep ==
  ASSUME PromptInv, NEW p \in Pages, SetStatus(p)
  PROVE  PromptInv'
<1> DEFINE v == panel[p].request.version
           becomes == IF Asks(p, "stage") THEN "staging" ELSE "archived"
<1>1. v \in Versions /\ becomes \in {"staging", "archived"}
  BY DEF PromptInv, RequestOK, SetStatus, Asks, Busy
<1>2. panel' \in [Pages -> Panels] /\ \A o \in Pages : RequestOK(o)'
  BY AnsweredPanels DEF SetStatus
<1>3. /\ row' = [row EXCEPT ![v].status = becomes]
      /\ UNCHANGED <<promptStore, live, promoting, promotions>>
      /\ mishaps' = mishaps \/ mishaps' = mishaps \union {"stale"}
      /\ "stale" \notin mishaps' => /\ "stale" \notin mishaps
                                    /\ Asks(p, "archive") => /\ panel[p].request.shown = live
                                                             /\ promoting = {}
  BY DEF SetStatus
<1>4. becomes = "archived" => Asks(p, "archive") /\ v # panel[p].request.shown
  BY DEF PromptInv, RequestOK, SetStatus, Asks
<1> HIDE DEF v, becomes
<1>5. PromptTypeOK'
  BY <1>1, <1>2, <1>3 DEF PromptInv, PromptTypeOK, Statuses
<1>6. \A u \in Versions : row'[u].at = row[u].at
  BY <1>1, <1>3 DEF PromptInv, PromptTypeOK
<1>7. NoneRetired'
  BY <1>1, <1>3, <1>4 DEF PromptInv, PromptTypeOK, NoneRetired
<1>8. mishaps' \intersect {"overlap", "saved"} = {} => mishaps \intersect {"overlap", "saved"} = {}
  BY <1>3
<1>9. StampsInOrder'
  BY <1>3, <1>6, <1>8 DEF PromptInv, PromptTypeOK, StampsInOrder
<1> QED
  BY <1>2, <1>3, <1>5, <1>7, <1>9 DEF PromptInv

\* A version is made the live one with a stamp that is later than all others.
LEMMA StampStep ==
  ASSUME PromptInv, NEW v \in Versions, NEW time \in Nat \ {0}, NEW p \in Pages, Stamp(v, time),
         Answered(p), UNCHANGED <<promptStore, mishaps>>,
         promoting' \subseteq promoting, promotions' \in Nat, promotions' >= promotions,
         promotions' >= time, "stale" \notin mishaps => row[v].status # "archived",
         mishaps \intersect {"overlap", "saved"} = {} =>
            promoting' = {} /\ \A u \in Versions : row[u].at < time
  PROVE  PromptInv'
<1>1. panel' \in [Pages -> Panels] /\ \A o \in Pages : RequestOK(o)'
  BY AnsweredPanels
<1>2. row' = [row EXCEPT ![v].at = time] /\ live' = v
  BY DEF Stamp
<1>3. row' \in [Versions -> [status : Statuses, at : Nat]]
  BY <1>2 DEF PromptInv, PromptTypeOK
<1>4. PromptTypeOK'
  BY <1>1, <1>2, <1>3 DEF PromptInv, PromptTypeOK
<1>5. \A u \in Versions : row'[u].status = row[u].status
                         /\ row'[u].at = IF u = v THEN time ELSE row[u].at
  BY <1>2, PromptTimes
<1>6. NoneRetired'
  BY <1>2, <1>5 DEF PromptInv, PromptTypeOK, NoneRetired
<1>7. StampsInOrder'
  <2>1. \A u \in Versions : row'[u].at <= promotions' /\ row[u].at \in Nat
    BY <1>5, PromptTimes
  <2>2. \A t \in promoting' : t.began <= promotions'
    BY PromptTimes
  <2>3. live' # NoVersion
    BY <1>2, VersionAssumption
  <2> QED
    BY <1>2, <1>5, <2>1, <2>2, <2>3 DEF StampsInOrder
<1> QED
  BY <1>1, <1>4, <1>6, <1>7 DEF PromptInv

LEMMA PromoteStep ==
  ASSUME PromptInv, NEW p \in Pages, Promote(p)
  PROVE  PromptInv'
<1> DEFINE v == panel[p].request.version
           time == promotions + 1
<1>1. v \in Versions
  BY DEF PromptInv, RequestOK, Promote, Asks, Busy
<1>2. promoting = {} /\ promoting' = promoting
  BY DEF PromptInv, Promote
<1>3. time \in Nat \ {0} /\ time > promotions /\ promotions' = time
  BY PromptTimes DEF Promote
<1>4. \A u \in Versions : row[u].at < time
  BY PromptTimes
<1>5. /\ Stamp(v, time) /\ Answered(p) /\ UNCHANGED <<promptStore, mishaps>>
      /\ row[v].status # "archived"
  BY DEF Promote
<1>6. promotions \in Nat
  BY DEF PromptInv, PromptTypeOK
<1> HIDE DEF v, time
<1> QED
  BY <1>1, <1>2, <1>3, <1>4, <1>5, <1>6, StampStep

LEMMA BeginStep ==
  ASSUME PromptInv, NEW p \in Pages, BeginPromotion(p)
  PROVE  PromptInv'
<1> DEFINE v == panel[p].request.version
           t == [page |-> p, version |-> v, began |-> promotions + 1]
<1>1. v \in Versions
  BY DEF PromptInv, RequestOK, BeginPromotion, Asks, Busy
<1>2. /\ promotions' = promotions + 1 /\ promotions \in Nat
      /\ promoting' = promoting \union {t}
      /\ UNCHANGED <<promptStore, row, live, panel>> /\ promptStore = "postgres"
      /\ row[v].status # "archived"
      /\ mishaps' = IF promoting = {} THEN mishaps ELSE mishaps \union {"overlap"}
  BY DEF PromptInv, PromptTypeOK, BeginPromotion
<1>3. /\ t \in [page : Pages, version : Versions, began : Nat \ {0}]
      /\ t.began = promotions + 1 /\ t.version = v
  BY <1>1, <1>2
<1> HIDE DEF v, t
<1>4. PromptTypeOK'
  BY <1>2, <1>3 DEF PromptInv, PromptTypeOK
<1>5. NoneRetired'
  BY <1>2, <1>3 DEF PromptInv, NoneRetired
<1>6. StampsInOrder'
  <2>1. /\ \A u \in Versions : row[u].at <= promotions /\ row[u].at \in Nat
        /\ \A s \in promoting : s.began <= promotions /\ s.began \in Nat
    BY DEF PromptInv, PromptTypeOK, StampsInOrder
  <2>2. mishaps' \intersect {"overlap", "saved"} = {} =>
           promoting = {} /\ mishaps \intersect {"overlap", "saved"} = {}
    BY <1>2
  <2> QED
    BY <1>2, <1>3, <2>1, <2>2 DEF PromptInv, StampsInOrder
<1>7. \A o \in Pages : RequestOK(o)'
  BY <1>2 DEF PromptInv, RequestOK, Busy
<1> QED
  BY <1>2, <1>4, <1>5, <1>6, <1>7 DEF PromptInv

LEMMA CommitStep ==
  ASSUME PromptInv, NEW t \in promoting, CommitPromotion(t)
  PROVE  PromptInv'
<1>1. /\ t.version \in Versions /\ t.page \in Pages /\ t.began \in Nat \ {0}
      /\ t.began <= promotions /\ promotions \in Nat
  BY DEF PromptInv, PromptTypeOK, StampsInOrder
<1>2. /\ Stamp(t.version, t.began) /\ Answered(t.page) /\ promoting' = promoting \ {t}
      /\ UNCHANGED <<promptStore, promotions, mishaps>>
  BY DEF CommitPromotion
<1>3. "stale" \notin mishaps => row[t.version].status # "archived"
  BY DEF PromptInv, NoneRetired
<1>4. mishaps \intersect {"overlap", "saved"} = {} =>
         promoting' = {} /\ \A u \in Versions : row[u].at < t.began
  BY <1>2 DEF PromptInv, StampsInOrder
<1> QED
  BY <1>1, <1>2, <1>3, <1>4, StampStep

LEMMA LetGoStep ==
  ASSUME PromptInv, NEW p \in Pages, Answered(p), promoting' \subseteq promoting,
         UNCHANGED <<promptStore, row, live, promotions, mishaps>>
  PROVE  PromptInv'
<1>1. panel' \in [Pages -> Panels] /\ \A o \in Pages : RequestOK(o)'
  BY AnsweredPanels
<1>2. PromptTypeOK'
  BY <1>1 DEF PromptInv, PromptTypeOK
<1>3. NoneRetired' /\ StampsInOrder'
  BY DEF PromptInv, NoneRetired, StampsInOrder
<1> QED
  BY <1>1, <1>2, <1>3 DEF PromptInv

LEMMA PromptStep == PromptInv /\ [PromptNext]_promptVars => PromptInv'
<1> SUFFICES ASSUME PromptInv, [PromptNext]_promptVars PROVE PromptInv'
  OBVIOUS
<1>1. CASE UNCHANGED promptVars
  BY <1>1 DEF promptVars, PromptInv, PromptTypeOK, RequestOK, Busy, NoneRetired, StampsInOrder
<1>2. ASSUME NEW p \in Pages, NEW v \in Versions,
             \/ ClickCreate(p, v) \/ ClickEdit(p, v) \/ ClickStage(p, v)
             \/ ClickArchive(p, v) \/ ClickPromote(p, v)
      PROVE  PromptInv'
  BY <1>2, ClickStep DEF ClickCreate, ClickEdit, ClickStage, ClickArchive, ClickPromote
<1>3. ASSUME NEW p \in Pages, ClickSaveAndPromote(p) PROVE PromptInv'
  BY <1>3, ClickStep DEF ClickSaveAndPromote
<1>4. ASSUME NEW p \in Pages, Refuse(p) PROVE PromptInv'
  BY <1>4, LetGoStep DEF Refuse
<1>5. ASSUME NEW t \in promoting, AbortPromotion(t) PROVE PromptInv'
  <2>1. t.page \in Pages
    BY DEF PromptInv, PromptTypeOK
  <2> QED
    BY <1>5, <2>1, LetGoStep DEF AbortPromotion
<1> QED
  BY <1>1, <1>2, <1>3, <1>4, <1>5, RefetchStep, SaveStep, StatusStep, PromoteStep, BeginStep,
     CommitStep DEF PromptNext

\* The version that runs use is the one that was promoted last, and not a retired
\* one: for any number of versions, pages, requests under way and transactions
\* (promote and set_status of the prompt stores), but for the mishaps that the
\* property names.
THEOREM VersionsCorrect == PromptSpec => []LiveVersionIsPromoted
<1>1. PromptInv => LiveVersionIsPromoted
  BY DEF PromptInv, NoneRetired, StampsInOrder, LiveVersionIsPromoted
<1> QED
  BY <1>1, PromptInitial, PromptStep, PTL DEF PromptSpec

-----------------------------------------------------------------------------
(***************************************************************************)
(* The settings of a suite.                                                *)
(***************************************************************************)
Templates == Categories \cup {NoCategory}
Dicts == [keys : SUBSET Keys, template : Templates]

ConfigTypeOK ==
    /\ config \in [gen : Nat, data : {"absent", "empty", "json", "garbage"}, dict : Dicts]
    /\ saver \in [Savers -> [at : {"idle", "read", "open"}, key : Keys, seen : Dicts, gen : Nat]]
    /\ category \in Templates
    /\ runner \in [got : Templates, due : Templates]
    /\ crowded \in BOOLEAN
    /\ saves \in Nat

\* A thread that nobody disturbed has read the category, and the file is as it read
\* it, or empty since it has opened it.
Undisturbed(s) ==
    /\ saver[s].at # "idle" => saver[s].seen.template = category
    /\ saver[s].at = "read" => ReadConfig.template = category
    /\ saver[s].at = "open" => config.data = "empty" /\ config.gen = saver[s].gen

OneSaver == \A s, t \in Saving : s = t

ConfigInv ==
    /\ ConfigTypeOK
    /\ ~crowded => /\ OneSaver
                   /\ \A s \in Savers : Undisturbed(s)
                   /\ SequentialSavesKeepTheCategory

\* What the steps of requests start from is of its type.
LEMMA ReadConfigType == ConfigTypeOK => ReadConfig \in Dicts
  BY SMT DEF ConfigTypeOK, ReadConfig, Empty, Dicts, Templates

LEMMA InitEstablishesConfigInv == ConfigInit => ConfigInv
<1> SUFFICES ASSUME ConfigInit PROVE ConfigInv
  OBVIOUS
<1> USE DEF ConfigInit, Absent, Empty, IdleSaver, Keys, Templates, Dicts
<1>1. ConfigTypeOK
  BY DEF ConfigTypeOK
<1>2. Saving = {} /\ ReadConfig.template = category
  BY DEF Saving, ReadConfig
<1>3. \A s \in Savers : Undisturbed(s)
  BY DEF Undisturbed
<1> QED
  BY <1>1, <1>2, <1>3 DEF ConfigInv, OneSaver, SequentialSavesKeepTheCategory

LEMMA TypeStep == ConfigTypeOK /\ [ConfigNext]_configVars => ConfigTypeOK'
<1> SUFFICES ASSUME ConfigTypeOK, [ConfigNext]_configVars PROVE ConfigTypeOK'
  OBVIOUS
<1>1. ReadConfig \in Dicts
  BY ReadConfigType
<1> USE DEF ConfigTypeOK
<1>2. CASE CreateConfig
  <2>1. crowded' \in BOOLEAN
    BY <1>2, Zenon DEF CreateConfig
  <2>2. /\ saves' \in Nat /\ saver' = saver /\ runner' = runner
        /\ Generation \in Nat
    BY <1>2 DEF CreateConfig, Count, Generation
  <2>3. ASSUME NEW c \in Categories,
               config' = [gen |-> Generation, data |-> "json",
                          dict |-> [ReadConfig EXCEPT !.template = c]],
               category' = c
        PROVE  ConfigTypeOK'
    BY <1>1, <2>1, <2>2, <2>3 DEF Dicts, Templates
  <2>4. ASSUME config' = [gen |-> Generation, data |-> "json",
                          dict |-> [ReadConfig EXCEPT !.keys = @ \cup {"title"}]],
               category' = category
        PROVE  ConfigTypeOK'
    BY <1>1, <2>1, <2>2, <2>4 DEF Dicts, Keys
  <2> QED
    BY <1>2, <2>3, <2>4 DEF CreateConfig
<1>3. CASE DeleteConfig
  <2>1. crowded' \in BOOLEAN
    BY <1>3, Zenon DEF DeleteConfig
  <2>2. saves' \in Nat /\ saver' = saver /\ runner' = runner
    BY <1>3 DEF DeleteConfig, Count
  <2>3. /\ config' \in [gen : Nat, data : {"absent", "empty", "json", "garbage"}, dict : Dicts]
        /\ category' \in Templates
    BY <1>3 DEF DeleteConfig, Absent, Empty, Dicts, Templates
  <2> QED
    BY <2>1, <2>2, <2>3
<1>4. ASSUME NEW s \in Savers, ReadForSave(s) PROVE ConfigTypeOK'
  <2>1. PICK k \in Keys : saver' = [saver EXCEPT ![s] = [at |-> "read", key |-> k,
                                                       seen |-> ReadConfig, gen |-> 0]]
    BY <1>4 DEF ReadForSave
  <2> QED
    BY <1>1, <1>4, <2>1 DEF ReadForSave, Count
<1>5. ASSUME NEW s \in Savers, OpenForSave(s) PROVE ConfigTypeOK'
  <2>1. Generation \in Nat
    BY DEF Generation
  <2>2. config' \in [gen : Nat, data : {"absent", "empty", "json", "garbage"}, dict : Dicts]
    BY <1>5, <2>1 DEF OpenForSave, Empty, Dicts, Templates
  <2> QED
    BY <1>5, <2>2, ZenonT(40) DEF OpenForSave
<1>6. ASSUME NEW s \in Savers, FillFile(s) PROVE ConfigTypeOK'
  <2>1. Updated(saver[s].seen, saver[s].key) \in Dicts
    BY DEF Updated, Dicts
  <2>2. config' \in [gen : Nat, data : {"absent", "empty", "json", "garbage"}, dict : Dicts]
    <3> DEFINE mine == [config EXCEPT !.data = "json",
                                      !.dict = Updated(saver[s].seen, saver[s].key)]
               spoilt == [config EXCEPT !.data = "garbage", !.dict = Empty]
    <3>1. config' \in {config, mine, spoilt}
      BY <1>6 DEF FillFile
    <3>2. Empty \in Dicts
      BY DEF Empty, Dicts, Templates
    <3> QED
      BY <2>1, <3>1, <3>2
  <2>3. IdleSaver \in [at : {"idle", "read", "open"}, key : Keys, seen : Dicts, gen : Nat]
    BY DEF IdleSaver, Empty, Dicts, Templates, Keys
  <2> QED
    BY <1>6, <2>2, <2>3 DEF FillFile
<1>7. CASE BuildRunner
  BY <1>1, <1>7 DEF BuildRunner, Dicts
<1>8. CASE UNCHANGED configVars
  BY <1>8 DEF configVars
<1> QED
  BY <1>2, <1>3, <1>4, <1>5, <1>6, <1>7, <1>8 DEF ConfigNext

LEMMA ConfigInvStep == ConfigInv /\ [ConfigNext]_configVars => ConfigInv'
<1> SUFFICES ASSUME ConfigInv, [ConfigNext]_configVars, ~crowded'
             PROVE  /\ OneSaver'
                    /\ (\A s \in Savers : Undisturbed(s))'
                    /\ SequentialSavesKeepTheCategory'
  BY TypeStep DEF ConfigInv
<1> USE DEF ConfigInv, ConfigTypeOK
<1>1. ReadConfig \in Dicts
  BY ReadConfigType
<1>2. CASE CreateConfig
  \* Nobody is in a thread, or the settings stay what they are.
  <2>1. Saving = {} /\ saver' = saver
    BY <1>2 DEF CreateConfig
  <2>2. Saving' = {}
    BY <2>1 DEF Saving
  <2>3. \A s \in Savers : saver'[s].at = "idle"
    BY <2>1 DEF Saving
  <2>4. ReadConfig'.template = category'
    <3>1. ASSUME NEW c \in Categories,
                 config' = [gen |-> Generation, data |-> "json",
                            dict |-> [ReadConfig EXCEPT !.template = c]],
                 category' = c
          PROVE  ReadConfig'.template = category'
      BY <1>1, <3>1 DEF ReadConfig, Dicts
    <3>2. ASSUME config' = [gen |-> Generation, data |-> "json",
                            dict |-> [ReadConfig EXCEPT !.keys = @ \cup {"title"}]],
                 category' = category, ~crowded
          PROVE  ReadConfig'.template = category'
      <4>1. ReadConfig.template = category
        BY <2>1, <3>2 DEF SequentialSavesKeepTheCategory
      <4> QED
        BY <1>1, <3>2, <4>1 DEF ReadConfig, Dicts
    <3> QED
      BY <1>2, <3>1, <3>2 DEF CreateConfig
  <2> QED
    BY <2>2, <2>3, <2>4 DEF OneSaver, Undisturbed, SequentialSavesKeepTheCategory
<1>3. CASE DeleteConfig
  <2>1. CASE UNCHANGED <<config, category, crowded>>
    BY <1>3, <2>1 DEF DeleteConfig, OneSaver, Undisturbed, Saving, ReadConfig, Empty,
                      SequentialSavesKeepTheCategory
  <2>2. ASSUME config' = [Absent EXCEPT !.gen = config.gen], category' = NoCategory,
               crowded' = (Saving # {})
        PROVE  /\ Saving' = {} /\ ReadConfig'.template = category'
               /\ \A s \in Savers : saver'[s].at = "idle"
    BY <1>3, <2>2 DEF DeleteConfig, Saving, ReadConfig, Absent, Empty
  <2> QED
    BY <1>3, <2>1, <2>2 DEF DeleteConfig, OneSaver, Undisturbed, SequentialSavesKeepTheCategory
<1>4. ASSUME NEW s \in Savers, ReadForSave(s)
      PROVE  /\ OneSaver'
             /\ (\A t \in Savers : Undisturbed(t))'
             /\ SequentialSavesKeepTheCategory'
  <2>1. ~crowded /\ Saving = {} /\ config' = config /\ category' = category
    BY <1>4 DEF ReadForSave
  <2>2. ReadConfig.template = category
    BY <2>1 DEF SequentialSavesKeepTheCategory
  <2>3. PICK k \in Keys : saver' = [saver EXCEPT ![s] = [at |-> "read", key |-> k,
                                                       seen |-> ReadConfig, gen |-> 0]]
    BY <1>4 DEF ReadForSave
  <2>4. Saving' = {s}
    BY <2>1, <2>3 DEF Saving
  <2>5. ReadConfig' = ReadConfig
    BY <2>1 DEF ReadConfig, Empty
  <2>6. ASSUME NEW t \in Savers PROVE Undisturbed(t)'
    BY <2>1, <2>2, <2>3, <2>5 DEF Undisturbed, Saving
  <2> QED
    BY <2>4, <2>6 DEF OneSaver, SequentialSavesKeepTheCategory
<1>5. ASSUME NEW s \in Savers, OpenForSave(s)
      PROVE  /\ OneSaver'
             /\ (\A t \in Savers : Undisturbed(t))'
             /\ SequentialSavesKeepTheCategory'
  <2>1. /\ ~crowded /\ s \in Saving /\ category' = category
        /\ config' = [gen |-> Generation, data |-> "empty", dict |-> Empty]
        /\ saver' = [saver EXCEPT ![s].at = "open", ![s].gen = config'.gen]
    BY <1>5 DEF OpenForSave, Saving
  <2>2. Saving' = Saving
    BY <2>1 DEF Saving
  <2>3. \A t \in Savers \ {s} : saver[t].at = "idle" /\ saver'[t] = saver[t]
    BY <2>1 DEF OneSaver, Saving
  <2>4. ASSUME NEW t \in Savers PROVE Undisturbed(t)'
    <3>1. CASE t = s
      BY <2>1, <3>1 DEF Undisturbed, Saving
    <3>2. CASE t # s
      BY <2>3, <3>2 DEF Undisturbed
    <3> QED
      BY <3>1, <3>2
  <2> QED
    BY <2>1, <2>2, <2>4 DEF OneSaver, SequentialSavesKeepTheCategory
<1>6. ASSUME NEW s \in Savers, FillFile(s)
      PROVE  /\ OneSaver'
             /\ (\A t \in Savers : Undisturbed(t))'
             /\ SequentialSavesKeepTheCategory'
  <2>1. /\ ~crowded /\ saver[s].at = "open" /\ category' = category
        /\ saver' = [saver EXCEPT ![s] = IdleSaver]
    BY <1>6 DEF FillFile
  <2>2. /\ config.data = "empty" /\ config.gen = saver[s].gen
        /\ saver[s].seen.template = category
    BY <2>1 DEF Undisturbed
  <2>3. config' = [config EXCEPT !.data = "json",
                                 !.dict = Updated(saver[s].seen, saver[s].key)]
    BY <1>6, <2>2 DEF FillFile
  <2>4. ReadConfig'.template = category'
    BY <2>1, <2>2, <2>3 DEF ReadConfig, Updated, Dicts
  <2>5. \A t \in Savers : saver'[t].at = "idle"
    BY <2>1 DEF OneSaver, Saving, IdleSaver
  <2>6. Saving' = {}
    BY <2>5 DEF Saving
  <2> QED
    BY <2>4, <2>5, <2>6 DEF OneSaver, Undisturbed, SequentialSavesKeepTheCategory
<1>7. CASE BuildRunner
  BY <1>7 DEF BuildRunner, OneSaver, Undisturbed, Saving, ReadConfig, Empty,
              SequentialSavesKeepTheCategory
<1>8. CASE UNCHANGED configVars
  BY <1>8 DEF configVars, OneSaver, Undisturbed, Saving, ReadConfig, Empty,
              SequentialSavesKeepTheCategory
<1> QED
  BY <1>2, <1>3, <1>4, <1>5, <1>6, <1>7, <1>8 DEF ConfigNext

\* The settings file, the threads and the last run are of their types, whatever
\* threads meet in the file.
THEOREM ConfigTypeCorrect == ConfigSpec => []ConfigTypeOK
<1>1. ConfigInit => ConfigTypeOK
  BY InitEstablishesConfigInv DEF ConfigInv
<1> QED
  BY <1>1, TypeStep, PTL DEF ConfigSpec

\* Saves that follow one another keep the category a suite was created with: runs are
\* built for it (update_suite_metadata, save_default_prompt of router.py).
THEOREM CategoryCorrect == ConfigSpec => []SequentialSavesKeepTheCategory
<1>1. ConfigInv => SequentialSavesKeepTheCategory
  BY DEF ConfigInv, SequentialSavesKeepTheCategory
<1> QED
  BY <1>1, InitEstablishesConfigInv, ConfigInvStep, PTL DEF ConfigSpec

-----------------------------------------------------------------------------
(***************************************************************************)
(* External projects.                                                      *)
(***************************************************************************)
Lists == SUBSET RemoteSuites
MirrorReplies == [ok : BOOLEAN, set : SUBSET (RemoteSuites \cup RemoteIds)]
Answers == [code : {200, 404, 502}, stale : BOOLEAN, suites : Lists \cup {Unknown}]

Visits ==
    [op : {"none", "project", "suite", "sync"}, suite : RemoteSuites \cup {Unknown},
     overwrite : BOOLEAN, at : {"start", "list", "cases", "done"},
     reply : MirrorReplies \cup {Unknown}, answer : Answers \cup {Unknown},
     left : Lists, synced : Lists, errors : Lists, fetched : SUBSET CaseKeys,
     seen : SUBSET Lists]

MirrorTypeOK ==
    /\ remote \in [up : BOOLEAN, suites : Lists, cases : [RemoteSuites -> SUBSET RemoteIds]]
    /\ local \in [CaseKeys -> {"none", "ui", "remote"}]
    /\ visit \in [Visitors -> Visits]

\* Each suite of the list is still to come, done, or an error, and only one of them.
Divides(t) ==
    /\ (t.left \cup t.synced \cup t.errors) \in t.seen
    /\ t.left \cap t.synced = {} /\ t.left \cap t.errors = {} /\ t.synced \cap t.errors = {}

\* Where a request is, what it has been told is from one of the lists it has seen, all
\* of which are in lists, with the last of them, list; and the files have what it copied.
VisitOK(t, lists, list, files) ==
    /\ t.op # "none" => list \in t.seen /\ t.seen \subseteq lists
    /\ t.at = "list" =>
         /\ t.left = {} /\ t.synced = {} /\ t.errors = {} /\ t.op # "none"
         /\ t.reply # Unknown => (t.reply.ok => t.reply.set \in t.seen)
    /\ t.at = "cases" => /\ t.op = "sync" /\ Divides(t)
                         /\ t.reply # Unknown =>
                              t.left # {} /\ (t.reply.ok => t.reply.set \subseteq RemoteIds)
    /\ t.at = "done" => /\ t.op # "none"
                        /\ t.answer.code = 200 =>
                             IF t.op = "sync" THEN t.left = {} /\ Divides(t)
                             ELSE t.answer.suites \in IF t.answer.stale THEN lists ELSE t.seen
    /\ \A k \in t.fetched : files[k] # "none"

MirrorInv ==
    /\ MirrorTypeOK
    /\ remote.suites \in served /\ served \subseteq Lists
    /\ cached = Unknown \/ cached \in served
    /\ \A v \in Visitors : VisitOK(visit[v], served, remote.suites, local)

LEMMA NoVisitOK ==
  /\ NoVisit \in Visits /\ NoVisit.op = "none" /\ NoVisit.fetched = {}
  /\ \A lists, list, files : VisitOK(NoVisit, lists, list, files)
<1>1. /\ NoVisit \in Visits /\ NoVisit.op = "none" /\ NoVisit.at = "start"
      /\ NoVisit.fetched = {}
  BY DEF NoVisit, Visits, Lists
<1> QED
  BY <1>1 DEF VisitOK

LEMMA MirrorInitial == MirrorInit => MirrorInv
<1> SUFFICES ASSUME MirrorInit PROVE MirrorInv
  OBVIOUS
<1>1. MirrorTypeOK
  BY NoVisitOK DEF MirrorInit, MirrorTypeOK, Lists
<1> QED
  BY <1>1, NoVisitOK DEF MirrorInit, MirrorInv, Lists

\* A request but for what it has seen and copied.
Same(u, t) ==
    /\ u.op = t.op /\ u.at = t.at /\ u.reply = t.reply /\ u.answer = t.answer
    /\ u.left = t.left /\ u.synced = t.synced /\ u.errors = t.errors

\* Requests that are told of another list, or lose what was copied.
LEMMA VisitKept ==
  ASSUME NEW t, NEW lists, NEW list, NEW files, VisitOK(t, lists, list, files),
         NEW u, NEW more, NEW new, NEW after, Same(u, t),
         t.seen \subseteq u.seen, u.seen \subseteq t.seen \cup {new},
         lists \subseteq more, t.op # "none" => new \in u.seen /\ new \in more,
         \A k \in u.fetched : after[k] # "none"
  PROVE  VisitOK(u, more, new, after)
<1>1. Divides(t) => Divides(u)
  BY DEF Divides, Same
<1> QED
  BY <1>1 DEF VisitOK, Same

LEMMA VisitStepOf ==
  ASSUME MirrorInv, NEW v \in Visitors, NEW t \in Visits,
         visit' = [visit EXCEPT ![v] = t],
         VisitOK(t, served, remote.suites, local'), UNCHANGED <<remote, served>>,
         local' \in [CaseKeys -> {"none", "ui", "remote"}],
         \A k \in CaseKeys : local[k] # "none" => local'[k] # "none",
         cached' = Unknown \/ cached' \in served
  PROVE  MirrorInv'
<1>1. MirrorTypeOK'
  BY DEF MirrorInv, MirrorTypeOK
<1>2. ASSUME NEW o \in Visitors PROVE VisitOK(visit[o]', served, remote.suites, local')
  <2>1. CASE o = v
    BY <2>1 DEF MirrorInv, MirrorTypeOK
  <2>2. CASE o # v
    <3>1. visit'[o] = visit[o] /\ visit[o] \in Visits
      BY <2>2 DEF MirrorInv, MirrorTypeOK
    <3>2. VisitOK(visit[o], served, remote.suites, local)
      BY DEF MirrorInv
    <3>3. \A k \in visit[o].fetched : local'[k] # "none"
      BY <3>1, <3>2 DEF Visits, VisitOK
    <3> QED
      BY <3>1, <3>2, <3>3 DEF VisitOK
  <2> QED
    BY <2>1, <2>2
<1> QED
  BY <1>1, <1>2 DEF MirrorInv

\* Request v gets answer a.
Gets(v, a) == visit' = [visit EXCEPT ![v].at = "done", ![v].answer = a]

LEMMA VisitAnswered ==
  ASSUME visit \in [Visitors -> Visits], NEW v \in Visitors, NEW a \in Answers, Gets(v, a)
  PROVE  LET t == [visit[v] EXCEPT !.at = "done", !.answer = a]
         IN  /\ visit' = [visit EXCEPT ![v] = t] /\ t \in Visits
             /\ t.at = "done" /\ t.answer = a /\ t.op = visit[v].op
             /\ t.left = visit[v].left /\ t.synced = visit[v].synced
             /\ t.errors = visit[v].errors /\ t.seen = visit[v].seen
             /\ t.fetched = visit[v].fetched
<1> DEFINE t1 == [visit[v] EXCEPT !.at = "done"]
           t == [t1 EXCEPT !.answer = a]
<1>1. visit' = [visit EXCEPT ![v] = t]
  BY DEF Gets
<1>2. visit[v] \in Visits
  OBVIOUS
<1>3. /\ t1 \in Visits /\ t1.at = "done" /\ t1.op = visit[v].op
      /\ t1.left = visit[v].left /\ t1.synced = visit[v].synced /\ t1.errors = visit[v].errors
      /\ t1.seen = visit[v].seen /\ t1.fetched = visit[v].fetched
  BY <1>2 DEF Visits
<1>4. t = [visit[v] EXCEPT !.at = "done", !.answer = a]
  OBVIOUS
<1> HIDE DEF t1
<1>5. /\ t \in Visits /\ t.at = "done" /\ t.answer = a /\ t.op = t1.op
      /\ t.left = t1.left /\ t.synced = t1.synced /\ t.errors = t1.errors
      /\ t.seen = t1.seen /\ t.fetched = t1.fetched
  BY <1>3 DEF Visits
<1> HIDE DEF t
<1> QED
  BY <1>1, <1>3, <1>4, <1>5

LEMMA AnswerStep ==
  ASSUME MirrorInv, NEW v \in Visitors, NEW a \in Answers, Gets(v, a),
         visit[v].op # "none", UNCHANGED <<remote, served, local>>,
         cached' = Unknown \/ cached' \in served,
         a.code = 200 /\ visit[v].op = "sync" => visit[v].left = {} /\ Divides(visit[v]),
         a.code = 200 /\ visit[v].op # "sync" =>
             a.suites \in visit[v].seen \/ (a.stale /\ a.suites \in served)
  PROVE  MirrorInv'
<1> DEFINE t == [visit[v] EXCEPT !.at = "done", !.answer = a]
<1>1. visit[v] \in Visits /\ VisitOK(visit[v], served, remote.suites, local)
  BY DEF MirrorInv, MirrorTypeOK
<1>2. /\ visit' = [visit EXCEPT ![v] = t] /\ t \in Visits
      /\ t.at = "done" /\ t.answer = a /\ t.op = visit[v].op
      /\ t.left = visit[v].left /\ t.synced = visit[v].synced
      /\ t.errors = visit[v].errors /\ t.seen = visit[v].seen
      /\ t.fetched = visit[v].fetched
  BY VisitAnswered DEF MirrorInv, MirrorTypeOK
<1> HIDE DEF t
<1>3. Divides(visit[v]) => Divides(t)
  BY <1>2 DEF Divides
<1>4. VisitOK(t, served, remote.suites, local)
  BY <1>1, <1>2, <1>3 DEF VisitOK
<1> QED
  BY <1>2, <1>4, VisitStepOf DEF MirrorInv, MirrorTypeOK

LEMMA VisitBegins ==
  ASSUME MirrorInv, NEW v \in Visitors, Visit(v)
  PROVE  MirrorInv'
<1>1. PICK op \in {"project", "suite", "sync"}, s \in RemoteSuites \cup {Unknown}, sure \in BOOLEAN :
         visit' = [visit EXCEPT ![v] = [NoVisit EXCEPT
                     !.op = op, !.suite = s, !.overwrite = sure, !.at = "list",
                     !.seen = {remote.suites}]]
  BY DEF Visit
<1> DEFINE list == remote.suites
           t1 == [NoVisit EXCEPT !.op = op]
           t2 == [t1 EXCEPT !.suite = s]
           t3 == [t2 EXCEPT !.overwrite = sure]
           t4 == [t3 EXCEPT !.at = "list"]
           t == [t4 EXCEPT !.seen = {list}]
<1>2. list \in Lists /\ list \in served
  BY DEF MirrorInv, MirrorTypeOK
<1>3. visit' = [visit EXCEPT ![v] = t]
  BY <1>1 DEF NoVisit
<1> HIDE DEF list, t1, t2, t3, t4, t
<1> DEFINE Begun(r) == /\ r \in Visits /\ r.left = {} /\ r.synced = {} /\ r.errors = {}
                       /\ r.fetched = {} /\ r.reply = Unknown
<1>4. Begun(t1) /\ t1.op = op
  BY NoVisitOK DEF NoVisit, Visits, t1
<1>5. Begun(t2) /\ t2.op = op
  BY <1>4 DEF Visits, t2
<1>6. Begun(t3) /\ t3.op = op
  BY <1>5 DEF Visits, t3
<1>7. Begun(t4) /\ t4.op = op /\ t4.at = "list"
  BY <1>6 DEF Visits, t4
<1>8. Begun(t) /\ t.op = op /\ t.at = "list" /\ t.seen = {list}
  BY <1>2, <1>7 DEF Visits, t
<1> HIDE DEF t
<1>9. VisitOK(t, served, list, local)
  BY <1>2, <1>8 DEF VisitOK
<1> QED
  BY <1>3, <1>8, <1>9, VisitStepOf DEF MirrorInv, MirrorTypeOK, Visit, list

LEMMA RepliesStep ==
  ASSUME MirrorInv, NEW v \in Visitors, RemoteReplies(v)
  PROVE  MirrorInv'
<1> DEFINE r == visit'[v].reply
           t == [visit[v] EXCEPT !.reply = r]
<1>1. visit[v] \in Visits /\ VisitOK(visit[v], served, remote.suites, local)
  BY DEF MirrorInv, MirrorTypeOK
<1>2. PICK q : /\ visit' = [visit EXCEPT ![v].reply = q]
               /\ q = IF ~remote.up THEN [ok |-> FALSE, set |-> {}]
                      ELSE [ok |-> TRUE, set |-> IF visit[v].at = "list" THEN remote.suites
                                                  ELSE remote.cases[NextSuite(v)]]
  BY DEF RemoteReplies
<1>3. \/ visit[v].at = "list"
      \/ visit[v].at = "cases" /\ visit[v].left # {} /\ NextSuite(v) \in RemoteSuites
  BY <1>1 DEF RemoteReplies, NextSuite, Visits, Lists
<1>4. /\ q \in MirrorReplies
      /\ visit[v].at = "list" => (q.ok => q.set = remote.suites)
      /\ visit[v].at = "cases" => (q.ok => q.set \subseteq RemoteIds)
  <2>1. CASE ~remote.up
    <3>1. q = [ok |-> FALSE, set |-> {}]
      BY <1>2, <2>1
    <3>2. ~q.ok
      BY <3>1, Zenon
    <3> QED
      BY <3>1, <3>2 DEF MirrorReplies
  <2>2. CASE remote.up /\ visit[v].at = "list"
    <3>1. q = [ok |-> TRUE, set |-> remote.suites] /\ remote.suites \in Lists
      BY <1>2, <2>2 DEF MirrorInv, MirrorTypeOK
    <3> QED
      BY <2>2, <3>1 DEF MirrorReplies, Lists
  <2>3. CASE remote.up /\ visit[v].at # "list"
    <3>1. q = [ok |-> TRUE, set |-> remote.cases[NextSuite(v)]]
      BY <1>2, <2>3
    <3>2. remote.cases[NextSuite(v)] \subseteq RemoteIds
      BY <1>3, <2>3 DEF MirrorInv, MirrorTypeOK
    <3> QED
      BY <2>3, <3>1, <3>2 DEF MirrorReplies
  <2> QED
    BY <2>1, <2>2, <2>3
<1> DEFINE u == [visit[v] EXCEPT !.reply = q]
<1>5. visit' = [visit EXCEPT ![v] = u]
  BY <1>2 DEF MirrorInv, MirrorTypeOK
<1>6. /\ u \in Visits /\ u.at = visit[v].at /\ u.reply = q /\ u.op = visit[v].op
      /\ u.left = visit[v].left /\ u.synced = visit[v].synced /\ u.errors = visit[v].errors
      /\ u.seen = visit[v].seen /\ u.fetched = visit[v].fetched
  BY <1>1, <1>4 DEF Visits
<1> HIDE DEF u
<1>7. Divides(visit[v]) => Divides(u)
  BY <1>6 DEF Divides
<1>8. VisitOK(u, served, remote.suites, local)
  BY <1>1, <1>3, <1>4, <1>6, <1>7 DEF VisitOK
<1> QED
  BY <1>5, <1>6, <1>8, VisitStepOf, ZenonT(40) DEF MirrorInv, MirrorTypeOK, RemoteReplies

\* What a request for a project or one of its suites makes of the reply.
LEMMA GetStep ==
  ASSUME MirrorInv, NEW v \in Visitors, GetProject(v) \/ GetProjectSuite(v)
  PROVE  MirrorInv'
<1>1. /\ visit[v] \in Visits /\ visit[v].op \in {"project", "suite"}
      /\ visit[v].reply # Unknown => (visit[v].reply.ok => /\ visit[v].reply.set \in visit[v].seen
                                                           /\ visit[v].reply.set \in served)
      /\ visit[v].seen \subseteq Lists /\ served \subseteq Lists
  BY DEF MirrorInv, MirrorTypeOK, GetProject, GetProjectSuite, VisitOK, Visits
<1>2. UNCHANGED <<remote, served, local>> /\ visit[v].reply # Unknown
  BY DEF GetProject, GetProjectSuite
<1>3. ASSUME visit[v].reply.ok, NEW code \in {200, 404},
             MirrorAnswers(v, code, FALSE, visit[v].reply.set),
             cached' = cached \/ WriteProjectCache(visit[v].reply.set)
      PROVE  MirrorInv'
  <2> DEFINE set == visit[v].reply.set
  <2>1. set \in visit[v].seen /\ set \in served /\ set \in Lists
    BY <1>1, <1>2, <1>3 DEF MirrorInv
  <2>2. MirrorAnswers(v, code, FALSE, set) /\ (cached' = cached \/ WriteProjectCache(set))
    BY <1>3
  <2> HIDE DEF set
  <2>3. cached' = Unknown \/ cached' \in served
    BY <2>1, <2>2 DEF MirrorInv, WriteProjectCache
  <2> DEFINE a == [code |-> code, stale |-> FALSE, suites |-> set]
  <2>4. a \in Answers /\ a.suites = set /\ Gets(v, a)
    BY <2>1, <2>2 DEF Answers, Gets, MirrorAnswers
  <2> HIDE DEF a
  <2> QED
    BY <1>1, <1>2, <2>1, <2>3, <2>4, AnswerStep
<1>4. ASSUME ServeCached(v), cached # Unknown, cached' = cached PROVE MirrorInv'
  <2>1. cached \in served /\ cached \in Lists /\ MirrorAnswers(v, 200, TRUE, cached)
    BY <1>1, <1>4 DEF ServeCached, MirrorInv
  <2> DEFINE a == [code |-> 200, stale |-> TRUE, suites |-> cached]
  <2>2. a \in Answers /\ a.suites = cached /\ Gets(v, a)
    BY <2>1 DEF Answers, Gets, MirrorAnswers
  <2>3. a.stale
    BY Zenon
  <2> HIDE DEF a
  <2> QED
    BY <1>1, <1>2, <1>4, <2>1, <2>2, <2>3, AnswerStep
<1>5. ASSUME MirrorAnswers(v, 502, FALSE, {}), cached' = cached PROVE MirrorInv'
  <2> DEFINE a == [code |-> 502, stale |-> FALSE, suites |-> {}]
  <2>1. a \in Answers /\ a.code = 502 /\ Gets(v, a)
    BY <1>5 DEF Answers, Lists, Gets, MirrorAnswers
  <2>2. cached = Unknown \/ cached \in served
    BY DEF MirrorInv
  <2> HIDE DEF a
  <2> QED
    BY <1>1, <1>2, <1>5, <2>1, <2>2, AnswerStep
<1>6. CASE GetProject(v)
  BY <1>3, <1>4, <1>5, <1>6 DEF GetProject
<1>7. CASE GetProjectSuite(v)
  BY <1>3, <1>4, <1>5, <1>7 DEF GetProjectSuite
<1> QED
  BY <1>6, <1>7

LEMMA SyncListStep ==
  ASSUME MirrorInv, NEW v \in Visitors, SyncList(v)
  PROVE  MirrorInv'
<1>1. /\ visit[v] \in Visits /\ visit[v].op = "sync" /\ visit[v].at = "list"
      /\ visit[v].reply # Unknown /\ UNCHANGED <<remote, served, local>>
      /\ VisitOK(visit[v], served, remote.suites, local)
  BY DEF MirrorInv, MirrorTypeOK, SyncList
<1>2. ASSUME MirrorAnswers(v, 502, FALSE, {}), cached' = cached PROVE MirrorInv'
  <2> DEFINE a == [code |-> 502, stale |-> FALSE, suites |-> {}]
  <2>1. a \in Answers /\ a.code = 502 /\ Gets(v, a)
    BY <1>2 DEF Answers, Lists, Gets, MirrorAnswers
  <2>2. cached = Unknown \/ cached \in served
    BY DEF MirrorInv
  <2> HIDE DEF a
  <2> QED
    BY <1>1, <1>2, <2>1, <2>2, AnswerStep
<1>3. ASSUME visit[v].reply.ok, WriteProjectCache(visit[v].reply.set),
             visit' = [visit EXCEPT ![v].at = "cases", ![v].left = visit[v].reply.set,
                                    ![v].reply = Unknown]
      PROVE  MirrorInv'
  <2> DEFINE set == visit[v].reply.set
             t == [visit[v] EXCEPT !.at = "cases", !.left = set, !.reply = Unknown]
  <2>1. set \in visit[v].seen /\ set \in served /\ set \in Lists
    BY <1>1, <1>3 DEF VisitOK, MirrorInv
  <2>2. cached' = Unknown \/ cached' \in served
    BY <1>3, <2>1 DEF MirrorInv, WriteProjectCache
  <2>3. visit' = [visit EXCEPT ![v] = t]
    BY <1>3 DEF MirrorInv, MirrorTypeOK
  <2> HIDE DEF set
  <2>4. /\ t \in Visits /\ t.at = "cases" /\ t.reply = Unknown /\ t.op = "sync"
        /\ t.left = set /\ t.synced = visit[v].synced /\ t.errors = visit[v].errors
        /\ t.seen = visit[v].seen /\ t.fetched = visit[v].fetched
    BY <1>1, <2>1 DEF Visits
  <2> HIDE DEF t
  <2>5. Divides(t)
    BY <1>1, <2>1, <2>4 DEF Divides, VisitOK
  <2>6. VisitOK(t, served, remote.suites, local)
    BY <1>1, <2>4, <2>5 DEF VisitOK
  <2> QED
    BY <1>1, <2>2, <2>3, <2>4, <2>6, VisitStepOf DEF MirrorInv, MirrorTypeOK
<1> QED
  BY <1>2, <1>3 DEF SyncList

LEMMA SyncSuiteStep ==
  ASSUME MirrorInv, NEW v \in Visitors, SyncSuite(v)
  PROVE  MirrorInv'
<1> DEFINE s == NextSuite(v)
           gone == [visit[v] EXCEPT !.left = @ \ {s}, !.reply = Unknown]
<1>1. /\ visit[v] \in Visits /\ visit[v].op = "sync" /\ visit[v].at = "cases"
      /\ visit[v].reply # Unknown /\ UNCHANGED <<remote, served, cached>>
      /\ VisitOK(visit[v], served, remote.suites, local) /\ Divides(visit[v])
      /\ visit[v].reply.ok => visit[v].reply.set \subseteq RemoteIds
  BY DEF MirrorInv, MirrorTypeOK, SyncSuite, VisitOK
<1>2. visit[v].left # {}
  BY <1>1 DEF VisitOK
<1>3. s \in visit[v].left /\ s \in RemoteSuites
  BY <1>1, <1>2 DEF NextSuite, Visits, Lists
<1>4. \/ /\ visit' = [visit EXCEPT ![v] = [gone EXCEPT !.errors = @ \cup {s}]]
         /\ local' = local
      \/ /\ visit[v].reply.ok /\ local' = Copied(v, s)
         /\ visit' = [visit EXCEPT ![v] = [gone EXCEPT !.synced = @ \cup {s},
                          !.fetched = @ \cup {s} \X visit[v].reply.set]]
  BY DEF SyncSuite
<1> HIDE DEF s
<1>5. /\ gone \in Visits /\ gone.at = "cases" /\ gone.reply = Unknown /\ gone.op = "sync"
      /\ gone.left = visit[v].left \ {s} /\ gone.synced = visit[v].synced
      /\ gone.errors = visit[v].errors
      /\ gone.seen = visit[v].seen /\ gone.fetched = visit[v].fetched
  BY <1>1 DEF Visits, Lists
<1> HIDE DEF gone
<1>6. CASE visit' = [visit EXCEPT ![v] = [gone EXCEPT !.errors = @ \cup {s}]] /\ local' = local
  <2> DEFINE t == [gone EXCEPT !.errors = @ \cup {s}]
  <2>1. visit' = [visit EXCEPT ![v] = t]
    BY <1>6
  <2>2. /\ t \in Visits /\ t.at = "cases" /\ t.reply = Unknown /\ t.op = "sync"
        /\ t.left = gone.left /\ t.synced = gone.synced /\ t.errors = gone.errors \cup {s}
        /\ t.seen = gone.seen /\ t.fetched = gone.fetched
    BY <1>3, <1>5 DEF Visits, Lists
  <2> HIDE DEF t
  <2>3. Divides(t)
    <3>1. t.left \cup t.synced \cup t.errors
             = visit[v].left \cup visit[v].synced \cup visit[v].errors
      BY <1>3, <1>5, <2>2
    <3> QED
      BY <1>1, <1>3, <1>5, <2>2, <3>1 DEF Divides
  <2>4. VisitOK(t, served, remote.suites, local)
    BY <1>1, <1>5, <2>2, <2>3 DEF VisitOK
  <2> QED
    BY <1>1, <1>6, <2>1, <2>2, <2>4, VisitStepOf DEF MirrorInv, MirrorTypeOK
<1>7. CASE /\ visit[v].reply.ok /\ local' = Copied(v, s)
           /\ visit' = [visit EXCEPT ![v] = [gone EXCEPT !.synced = @ \cup {s},
                            !.fetched = @ \cup {s} \X visit[v].reply.set]]
  <2> DEFINE new == {s} \X visit[v].reply.set
             t1 == [gone EXCEPT !.synced = @ \cup {s}]
             t == [gone EXCEPT !.synced = @ \cup {s}, !.fetched = @ \cup new]
  <2>1. visit' = [visit EXCEPT ![v] = t]
    BY <1>7
  <2>2. /\ local' \in [CaseKeys -> {"none", "ui", "remote"}]
        /\ \A k \in CaseKeys : local[k] # "none" => local'[k] # "none"
        /\ \A k \in CaseKeys : k[1] = s /\ k[2] \in visit[v].reply.set => local'[k] # "none"
    BY <1>7 DEF Copied, MirrorInv, MirrorTypeOK
  <2>3. new \subseteq CaseKeys /\ \A k \in new : local'[k] # "none"
    BY <1>1, <1>3, <1>7, <2>2 DEF CaseKeys
  <2> HIDE DEF new
  <2>4. /\ t1 \in Visits /\ t1.at = "cases" /\ t1.reply = Unknown /\ t1.op = "sync"
        /\ t1.left = gone.left /\ t1.synced = gone.synced \cup {s} /\ t1.errors = gone.errors
        /\ t1.seen = gone.seen /\ t1.fetched = gone.fetched
    BY <1>3, <1>5 DEF Visits, Lists
  <2>5. t = [t1 EXCEPT !.fetched = @ \cup new]
    BY <1>5 DEF Visits
  <2> HIDE DEF t1, t
  <2>6. /\ t \in Visits /\ t.at = "cases" /\ t.reply = Unknown /\ t.op = "sync"
        /\ t.left = gone.left /\ t.synced = gone.synced \cup {s} /\ t.errors = gone.errors
        /\ t.seen = gone.seen /\ t.fetched = gone.fetched \cup new
    BY <2>3, <2>4, <2>5 DEF Visits
  <2>7. Divides(t)
    <3>1. t.left \cup t.synced \cup t.errors
             = visit[v].left \cup visit[v].synced \cup visit[v].errors
      BY <1>3, <1>5, <2>6
    <3> QED
      BY <1>1, <1>3, <1>5, <2>6, <3>1 DEF Divides
  <2>8. \A k \in t.fetched : local'[k] # "none"
    BY <1>1, <1>5, <2>2, <2>3, <2>6 DEF VisitOK, Visits
  <2>9. VisitOK(t, served, remote.suites, local')
    BY <1>1, <1>5, <2>6, <2>7, <2>8 DEF VisitOK
  <2> QED
    BY <1>1, <2>1, <2>2, <2>6, <2>9, VisitStepOf DEF MirrorInv
<1> QED
  BY <1>4, <1>6, <1>7

LEMMA SyncEndsStep ==
  ASSUME MirrorInv, NEW v \in Visitors, SyncEnds(v)
  PROVE  MirrorInv'
<1>1. /\ visit[v] \in Visits /\ VisitOK(visit[v], served, remote.suites, local)
      /\ visit[v].at = "cases" /\ visit[v].left = {}
  BY DEF MirrorInv, MirrorTypeOK, SyncEnds
<1>2. visit[v].op = "sync" /\ Divides(visit[v]) /\ visit[v].synced \in Lists
  BY <1>1 DEF VisitOK, Visits
<1>3. /\ UNCHANGED <<remote, served, cached, local>>
      /\ MirrorAnswers(v, 200, FALSE, visit[v].synced)
  BY DEF SyncEnds
<1>4. cached' = Unknown \/ cached' \in served
  BY <1>3 DEF MirrorInv
<1> DEFINE a == [code |-> 200, stale |-> FALSE, suites |-> visit[v].synced]
<1>5. a \in Answers /\ Gets(v, a)
  BY <1>2, <1>3 DEF Answers, Gets, MirrorAnswers
<1> HIDE DEF a
<1> QED
  BY <1>1, <1>2, <1>3, <1>4, <1>5, AnswerStep

LEMMA LeaveStep ==
  ASSUME MirrorInv, NEW v \in Visitors, Leave(v)
  PROVE  MirrorInv'
BY NoVisitOK, VisitStepOf DEF Leave, MirrorInv, MirrorTypeOK

\* Changes of the other deployment and of the cases here.
LEMMA EditsStep ==
  ASSUME MirrorInv,
         \/ RemoteGoesOrComes
         \/ \E s \in RemoteSuites : RemoteSuiteChanges(s) \/ \E i \in RemoteIds : RemoteCaseAdded(s, i)
         \/ \E k \in CaseKeys : LocalCaseChanges(k)
  PROVE  MirrorInv'
<1>1. \A v \in Visitors : visit[v] \in Visits /\ VisitOK(visit[v], served, remote.suites, local)
  BY DEF MirrorInv, MirrorTypeOK
<1>2. CASE RemoteGoesOrComes
  <2>1. /\ remote' \in [up : BOOLEAN, suites : Lists, cases : [RemoteSuites -> SUBSET RemoteIds]]
        /\ remote'.suites = remote.suites
    BY <1>2 DEF RemoteGoesOrComes, MirrorInv, MirrorTypeOK
  <2>2. UNCHANGED <<served, cached, local, visit>>
    BY <1>2 DEF RemoteGoesOrComes
  <2> QED
    BY <2>1, <2>2 DEF MirrorInv, MirrorTypeOK
<1>3. ASSUME NEW s \in RemoteSuites, RemoteSuiteChanges(s) PROVE MirrorInv'
  <2> DEFINE suites == IF s \in remote.suites THEN remote.suites \ {s} ELSE remote.suites \cup {s}
  <2>1. suites \in Lists
    BY DEF MirrorInv, MirrorTypeOK, Lists
  <2>2. /\ remote' = [remote EXCEPT !.suites = suites, !.cases[s] = {}]
        /\ served' = served \cup {suites} /\ UNCHANGED <<cached, local>>
        /\ visit' = [v \in Visitors |-> IF visit[v].op = "none" THEN NoVisit
                                         ELSE [visit[v] EXCEPT !.seen = @ \cup {suites}]]
    BY <1>3 DEF RemoteSuiteChanges
  <2> HIDE DEF suites
  <2>3. /\ remote' \in [up : BOOLEAN, suites : Lists, cases : [RemoteSuites -> SUBSET RemoteIds]]
        /\ remote'.suites = suites
    BY <2>1, <2>2 DEF MirrorInv, MirrorTypeOK
  <2>4. ASSUME NEW v \in Visitors
        PROVE  visit'[v] \in Visits /\ VisitOK(visit'[v], served', suites, local)
    <3>1. CASE visit[v].op = "none"
      BY <2>2, <3>1, NoVisitOK
    <3>2. CASE visit[v].op # "none"
      <4> DEFINE u == [visit[v] EXCEPT !.seen = @ \cup {suites}]
      <4>1. visit'[v] = u
        BY <2>2, <3>2
      <4>2. /\ u \in Visits /\ u.seen = visit[v].seen \cup {suites}
            /\ u.fetched = visit[v].fetched /\ Same(u, visit[v])
        BY <1>1, <2>1 DEF Visits, Same
      <4> HIDE DEF u
      <4>3. \A k \in u.fetched : local[k] # "none"
        BY <1>1, <4>2 DEF VisitOK
      <4>4. served \subseteq served' /\ suites \in served'
        BY <2>2
      <4>5. VisitOK(u, served', suites, local)
        BY <1>1, <4>2, <4>3, <4>4, VisitKept
      <4> QED
        BY <4>1, <4>2, <4>5 DEF u
    <3> QED
      BY <3>1, <3>2
  <2>5. visit' \in [Visitors -> Visits]
    BY <2>2, <2>4
  <2> QED
    BY <2>1, <2>2, <2>3, <2>4, <2>5 DEF MirrorInv, MirrorTypeOK
<1>4. ASSUME NEW s \in RemoteSuites, NEW i \in RemoteIds, RemoteCaseAdded(s, i) PROVE MirrorInv'
  <2>1. /\ remote' \in [up : BOOLEAN, suites : Lists, cases : [RemoteSuites -> SUBSET RemoteIds]]
        /\ remote'.suites = remote.suites
    BY <1>4 DEF RemoteCaseAdded, MirrorInv, MirrorTypeOK
  <2>2. UNCHANGED <<served, cached, local, visit>>
    BY <1>4 DEF RemoteCaseAdded
  <2> QED
    BY <2>1, <2>2 DEF MirrorInv, MirrorTypeOK
<1>5. ASSUME NEW k \in CaseKeys, LocalCaseChanges(k) PROVE MirrorInv'
  <2>1. /\ UNCHANGED <<remote, served, cached>>
        /\ local' = [local EXCEPT ![k] = IF @ = "none" THEN "ui" ELSE "none"]
        /\ visit' = [v \in Visitors |-> [visit[v] EXCEPT !.fetched = @ \ {k}]]
    BY <1>5 DEF LocalCaseChanges
  <2>2. /\ local' \in [CaseKeys -> {"none", "ui", "remote"}]
        /\ \A j \in CaseKeys : j # k => local'[j] = local[j]
    BY <2>1 DEF MirrorInv, MirrorTypeOK
  <2>3. ASSUME NEW v \in Visitors
        PROVE  visit'[v] \in Visits /\ VisitOK(visit'[v], served, remote.suites, local')
    <3> DEFINE u == [visit[v] EXCEPT !.fetched = @ \ {k}]
    <3>1. visit'[v] = u
      BY <2>1
    <3>2. /\ u \in Visits /\ u.fetched = visit[v].fetched \ {k} /\ u.seen = visit[v].seen
          /\ Same(u, visit[v])
      BY <1>1 DEF Visits, Same
    <3> HIDE DEF u
    <3>3. \A j \in u.fetched : local'[j] # "none"
      BY <1>1, <2>2, <3>2 DEF VisitOK, Visits
    <3>4. VisitOK(u, served, remote.suites, local')
      <4>1. visit[v].op # "none" => remote.suites \in u.seen /\ remote.suites \in served
        BY <1>1, <3>2 DEF VisitOK
      <4> QED
        BY <1>1, <3>2, <3>3, <4>1, VisitKept
    <3> QED
      BY <3>1, <3>2, <3>4 DEF u
  <2>4. visit' \in [Visitors -> Visits]
    BY <2>1, <2>3
  <2> QED
    BY <2>1, <2>2, <2>3, <2>4 DEF MirrorInv, MirrorTypeOK
<1> QED
  BY <1>2, <1>3, <1>4, <1>5

LEMMA MirrorStep == MirrorInv /\ [MirrorNext]_mirrorVars => MirrorInv'
<1> SUFFICES ASSUME MirrorInv, [MirrorNext]_mirrorVars PROVE MirrorInv'
  OBVIOUS
<1>1. CASE UNCHANGED mirrorVars
  BY <1>1 DEF mirrorVars, MirrorInv, MirrorTypeOK
<1> QED
  BY <1>1, EditsStep, VisitBegins, RepliesStep, GetStep, SyncListStep, SyncSuiteStep,
     SyncEndsStep, LeaveStep DEF MirrorNext

\* What the endpoints for external projects answer is a list the other deployment had,
\* and a sync's report divides one: for any number of suites, cases, requests that
\* overlap and changes on either side (router.py get_project, sync_project).
THEOREM MirrorCorrect == MirrorSpec => []MirrorIsHonest
<1>1. MirrorInv => MirrorIsHonest
  <2> SUFFICES ASSUME MirrorInv PROVE MirrorIsHonest
    OBVIOUS
  <2>1. \A v \in Visitors : visit[v] \in Visits /\ VisitOK(visit[v], served, remote.suites, local)
    BY DEF MirrorInv, MirrorTypeOK
  <2>2. StaleIsSaid
    BY <2>1 DEF StaleIsSaid, Ok, VisitOK
  <2>3. ASSUME NEW v \in Visitors, Ok(v), visit[v].op = "sync"
        PROVE  /\ \A k \in visit[v].fetched : local[k] # "none"
               /\ (visit[v].synced \cup visit[v].errors) \in visit[v].seen
               /\ visit[v].synced \cap visit[v].errors = {}
    <3>1. Divides(visit[v]) /\ visit[v].left = {} /\ \A k \in visit[v].fetched : local[k] # "none"
      BY <2>1, <2>3 DEF Ok, VisitOK
    <3>2. visit[v].left \cup visit[v].synced \cup visit[v].errors
             = visit[v].synced \cup visit[v].errors
      BY <3>1
    <3> QED
      BY <3>1, <3>2 DEF Divides
  <2> QED
    BY <2>2, <2>3 DEF MirrorIsHonest, SyncedSuitesAreWhole
<1> QED
  BY <1>1, MirrorInitial, MirrorStep, PTL DEF MirrorSpec

-----------------------------------------------------------------------------
(***************************************************************************)
(* The cache of the pages' queries.                                        *)
(***************************************************************************)
\* What each query reads of the server.
LEMMA QueryReads ==
  /\ Queries = {"suites", "suite", "cases", "provenance", "lastRun", "runHistory", "versions",
                "activeVersion", "fixtures", "fixture", "oracleRuns", "promotes", "promotesAll",
                "projects", "project"}
  /\ Reads["suites"] = {"meta", "cases"} /\ Reads["suite"] = {"meta", "cases", "runs"}
  /\ Reads["cases"] = {"cases"} /\ Reads["provenance"] = {"cases", "fixtures"}
  /\ Reads["lastRun"] = {"runs"} /\ Reads["runHistory"] = {"runs"}
  /\ Reads["versions"] = {"versions"} /\ Reads["activeVersion"] = {"versions"}
  /\ Reads["fixtures"] = {"fixtures"} /\ Reads["fixture"] = {"fixtures"}
  /\ Reads["oracleRuns"] = {"oracleRuns"}
  /\ Reads["promotes"] = {"promotes"} /\ Reads["promotesAll"] = {"promotes"}
  /\ Reads["projects"] = {"mirror"} /\ Reads["project"] = {"mirror"}
BY DEF Queries, Reads, SuiteReads, CaseReads, RunReads, VersionReads, OracleReads, PromoteReads,
       ProjectReads

\* Whatever a mutation of a page changes of what a query of the page reads, the
\* query is invalidated, but for those that are forgotten.
LEMMA OthersAreInvalidated ==
  ASSUME NEW p \in Screens, NEW q \in Mounted(p), NEW m \in Buttons(p),
         NEW f \in Reads[q], f \in Writes(m)
  PROVE  q \in Invalidates(m) \/ <<m, q>> \in Forgotten
<1> USE DEF Writes
<1>1. Invalidates(m) = SuiteInvalidates(m) \cup VersionInvalidates(m) \cup CaseInvalidates(m)
         \cup ProjectInvalidates(m) \cup ReviewInvalidates(m) \cup StudioInvalidates(m)
  BY DEF Invalidates
<1>2. CASE p = "dashboard"
  <2>1. m = "syncProject" /\ q \in {"projects", "suites", "project"}
    BY <1>2 DEF Buttons, Mounted
  <2>2. ProjectInvalidates(m) = {"project", "projects", "suites"}
    BY <2>1 DEF ProjectInvalidates
  <2> QED
    BY <1>1, <2>1, <2>2
<1>3. CASE p = "case"
  <2>1. m = "syncProject" /\ q \in {"projects", "provenance"}
    BY <1>3 DEF Buttons, Mounted
  <2>2. ProjectInvalidates(m) = {"project", "projects", "suites"}
    BY <2>1 DEF ProjectInvalidates
  <2>3. CASE q = "provenance"
    BY <2>1, <2>3 DEF Forgotten
  <2> QED
    BY <1>1, <2>1, <2>2, <2>3
<1>4. CASE p = "suite"
  <2>1. q \in {"projects", "suite", "cases", "lastRun", "runHistory", "versions", "activeVersion"}
    BY <1>4 DEF Mounted
  <2>2. m \in {"syncProject", "createCase", "updateCase", "deleteCase", "saveDefaultPrompt",
               "saveVersion", "promoteVersion", "setStatus"}
    BY <1>4 DEF Buttons
  <2> QED
    BY <1>1, <2>1, <2>2, QueryReads DEF Forgotten, SuiteInvalidates, VersionInvalidates, CaseInvalidates, ProjectInvalidates
<1>5. CASE p = "studio"
  <2>1. q \in {"projects", "suites", "fixtures", "fixture", "activeVersion", "oracleRuns",
               "promotes", "promotesAll"}
    BY <1>5 DEF Mounted
  <2>2. m \in {"syncProject", "createSuite", "updateSuite", "deleteSuite", "saveVersion",
               "promoteVersion", "review", "generate", "deleteFixture", "saveStudio",
               "runWithPrompt", "promote"}
    BY <1>5 DEF Buttons
  <2> QED
    BY <1>1, <2>1, <2>2, QueryReads DEF Forgotten, SuiteInvalidates, VersionInvalidates, CaseInvalidates, ProjectInvalidates, ReviewInvalidates, StudioInvalidates
<1> QED
  BY <1>2, <1>3, <1>4, <1>5 DEF Screens

Counts == [Watched -> Nat]
Entries == [has : BOOLEAN, seen : Counts, first : BOOLEAN, invalid : BOOLEAN,
            fetch : {"none", "asked", "answered"}, got : Counts, failed : BOOLEAN]
Makers == {"none"} \cup UNION {Buttons(p) : p \in Screens}
Changes == [count : Nat, by : Makers, crossed : BOOLEAN]

CacheTypeOK ==
    /\ watched \in Queries /\ facet \in Counts /\ entry \in Entries
    /\ own \in [Watched -> Changes]

\* A mutation is one of the page that is open.
MutationIsOfPage ==
    /\ page \in Screens \cup {"none"}
    /\ mutation # NoMutation => page # "none" /\ mutation.name \in Buttons(page)

\* The change crossed with the answer to the first fetch, which is still on its way,
\* or which is what is there.
Crossing(f) == own[f].crossed /\ ~entry.has
Crossed(f) == own[f].crossed /\ entry.first

\* What a change of this page needs to be shown, f being what it changed: that the
\* entry has it, that an answer which is on its way has it, or that the server is
\* still to be asked; or the query is forgotten, or its last fetch has failed, or
\* the first answer is what is shown.
WillBeShown(f) ==
    \/ entry.fetch = "asked"
    \/ entry.fetch = "answered" /\ (entry.got[f] >= own[f].count \/ Crossing(f))
    \/ /\ entry.fetch = "none"
       /\ entry.failed \/ entry.seen[f] >= own[f].count \/ ~entry.has \/ Crossed(f)
    \/ <<own[f].by, watched>> \in Forgotten

CacheInv ==
    /\ CacheTypeOK /\ MutationIsOfPage
    /\ \A f \in Watched : own[f].count <= facet[f]
    /\ OnScreen => \A f \in Watched : WillBeShown(f)

LEMMA NoEntryType == NoEntry \in Entries /\ Untouched \in Counts
BY DEF NoEntry, Untouched, Entries, Counts

LEMMA NothingOwnType ==
  NothingOwn \in [Watched -> Changes] /\ \A f \in Watched : NothingOwn[f].count = 0
<1>1. "none" \in Makers
  BY DEF Makers
<1>2. [count |-> 0, by |-> "none", crossed |-> FALSE] \in Changes
  BY <1>1 DEF Changes
<1> QED
  BY <1>2 DEF NothingOwn

LEMMA CacheInitial == CacheInit => CacheInv
<1> SUFFICES ASSUME CacheInit PROVE CacheInv
  OBVIOUS
<1>1. CacheTypeOK
  BY NoEntryType, NothingOwnType DEF CacheInit, CacheTypeOK
<1>2. \A f \in Watched : own[f].count <= facet[f]
  BY NothingOwnType DEF CacheInit, Untouched
<1>3. MutationIsOfPage /\ ~OnScreen
  BY DEF CacheInit, MutationIsOfPage, OnScreen
<1> QED
  BY <1>1, <1>2, <1>3 DEF CacheInv

\* A fetch that is started anew.
LEMMA AskedFields ==
  ASSUME CacheTypeOK
  PROVE  Asked \in Entries /\ Asked.fetch = "asked" /\ Asked.seen = entry.seen
<1> DEFINE e == [entry EXCEPT !.fetch = "asked"]
<1>1. e \in Entries /\ e.fetch = "asked" /\ e.seen = entry.seen
  BY DEF CacheTypeOK, Entries
<1>2. Asked = [e EXCEPT !.failed = FALSE]
  BY DEF Asked
<1> HIDE DEF e
<1> QED
  BY <1>1, <1>2 DEF Entries

\* What is shown is asked for again, unless the first fetch is under way.
LEMMA InvalidatedFields ==
  ASSUME CacheTypeOK
  PROVE  /\ Invalidated \in Entries
         /\ OnScreen => \/ Invalidated.fetch = "asked"
                        \/ /\ FirstIsUnderWay /\ Invalidated.fetch = entry.fetch
                           /\ Invalidated.has = entry.has /\ Invalidated.got = entry.got
<1> DEFINE e == IF OnScreen /\ ~FirstIsUnderWay THEN Asked ELSE entry
<1>1. e \in Entries /\ (OnScreen => e.fetch = "asked" \/ (FirstIsUnderWay /\ e = entry))
  <2>1. Asked \in Entries /\ Asked.fetch = "asked" /\ entry \in Entries
    BY AskedFields DEF CacheTypeOK
  <2>2. CASE OnScreen /\ ~FirstIsUnderWay
    <3>1. e = Asked
      BY <2>2, Zenon
    <3> QED
      BY <2>1, <3>1
  <2>3. CASE ~(OnScreen /\ ~FirstIsUnderWay)
    <3>1. e = entry
      BY <2>3, Zenon
    <3> QED
      BY <2>1, <2>3, <3>1, Zenon
  <2> QED
    BY <2>2, <2>3
<1>2. Invalidated = [e EXCEPT !.invalid = TRUE]
  BY DEF Invalidated
<1> HIDE DEF e
<1> QED
  BY <1>1, <1>2 DEF Entries

\* A page is opened: it has changed nothing yet.
LEMMA OpenPageStep ==
  ASSUME CacheInv, NEW p \in Screens, OpenPage(p)
  PROVE  CacheInv'
<1>1. /\ UNCHANGED <<watched, facet, mutation>> /\ page' = p /\ own' = NothingOwn
      /\ entry' \in {Asked, entry} /\ mutation = NoMutation
  BY DEF OpenPage
<1>2. CacheTypeOK'
  BY <1>1, AskedFields, NothingOwnType DEF CacheInv, CacheTypeOK, Watched, Counts, Entries
<1>3. \A f \in Watched : /\ own'[f].count = 0 /\ facet[f] \in Nat
                         /\ entry'.seen[f] \in Nat /\ entry'.got[f] \in Nat
                         /\ entry'.fetch \in {"none", "asked", "answered"}
  <2>1. entry' \in Entries
    BY <1>1, AskedFields DEF CacheInv, CacheTypeOK
  <2> QED
    BY <1>1, <2>1, NothingOwnType DEF CacheInv, CacheTypeOK, Entries, Counts
<1>4. Watched' = Watched
  BY <1>1 DEF Watched
<1>5. \A f \in Watched : WillBeShown(f)'
  BY <1>3 DEF WillBeShown
<1>6. MutationIsOfPage'
  BY <1>1 DEF MutationIsOfPage
<1> QED
  BY <1>1, <1>2, <1>3, <1>4, <1>5, <1>6 DEF CacheInv

LEMMA AnswersStep ==
  ASSUME CacheInv, ServerAnswers
  PROVE  CacheInv'
<1>1. /\ entry' = [entry EXCEPT !.fetch = "answered", !.got = facet]
      /\ UNCHANGED <<watched, facet, page, mutation, own>>
  BY DEF ServerAnswers
<1> DEFINE e == [entry EXCEPT !.fetch = "answered"]
<1>2. e \in Entries /\ e.fetch = "answered"
  BY DEF CacheInv, CacheTypeOK, Entries
<1>3. entry' = [e EXCEPT !.got = facet]
  BY <1>1
<1> HIDE DEF e
<1>4. entry' \in Entries /\ entry'.fetch = "answered" /\ entry'.got = facet
  BY <1>2, <1>3 DEF CacheInv, CacheTypeOK, Entries
<1>5. CacheTypeOK'
  BY <1>1, <1>4 DEF CacheInv, CacheTypeOK, Watched, Counts, Entries
<1>6. Watched' = Watched /\ MutationIsOfPage'
  BY <1>1 DEF Watched, CacheInv, MutationIsOfPage
<1>7. \A f \in Watched : WillBeShown(f)'
  BY <1>1, <1>4 DEF CacheInv, CacheTypeOK, Counts, Changes, WillBeShown
<1> QED
  BY <1>1, <1>5, <1>6, <1>7 DEF CacheInv

\* An answer comes, or a fetch fails.
LEMMA FetchEndsStep ==
  ASSUME CacheInv, AnswerArrives \/ FetchFails
  PROVE  CacheInv'
<1>1. UNCHANGED <<watched, facet, page, mutation, own>>
  BY DEF AnswerArrives, FetchFails
<1>2. entry' \in Entries /\ (OnScreen => \A f \in Watched : WillBeShown(f)')
  <2>1. CASE AnswerArrives
    <3> DEFINE e == [NoEntry EXCEPT !.has = TRUE]
               d == [e EXCEPT !.seen = entry.got]
    <3>1. e \in Entries /\ e.fetch = "none"
      BY NoEntryType DEF NoEntry, Entries
    <3>2. d \in Entries /\ d.fetch = "none" /\ d.seen = entry.got
      BY <3>1 DEF CacheInv, CacheTypeOK, Entries
    <3>3. entry' = [d EXCEPT !.first = ~entry.has]
      BY <2>1 DEF AnswerArrives, NoEntry
    <3> HIDE DEF d, e
    <3>4. entry' \in Entries /\ entry'.fetch = "none" /\ entry'.seen = entry.got
      BY <3>2, <3>3 DEF Entries
    <3>5. entry'.first = ~entry.has
      BY <3>2, <3>3 DEF Entries
    <3>6. \A f \in Watched : Crossing(f) => Crossed(f)'
      BY <1>1, <3>5, Zenon DEF Crossing, Crossed
    <3>7. entry.fetch = "answered"
      BY <2>1 DEF AnswerArrives
    <3> QED
      BY <1>1, <3>4, <3>6, <3>7 DEF CacheInv, WillBeShown
  <2>2. CASE FetchFails
    <3> DEFINE e1 == [NoEntry EXCEPT !.has = TRUE]
               e2 == [entry EXCEPT !.fetch = "none", !.invalid = TRUE]
    <3>1. e1 \in Entries /\ e1.fetch = "none" /\ e2 \in Entries /\ e2.fetch = "none"
      BY NoEntryType DEF NoEntry, Entries, CacheInv, CacheTypeOK
    <3>2. entry' = [e1 EXCEPT !.failed = TRUE] \/ entry' = [e2 EXCEPT !.failed = TRUE]
      BY <2>2 DEF FetchFails, NoEntry
    <3> HIDE DEF e1, e2
    <3>3. entry' \in Entries /\ entry'.fetch = "none"
      BY <3>1, <3>2 DEF Entries
    <3>4. entry'.failed
      BY <3>1, <3>2, Zenon DEF Entries
    <3> QED
      BY <1>1, <3>3, <3>4 DEF WillBeShown
  <2> QED
    BY <2>1, <2>2
<1>3. CacheTypeOK'
  BY <1>1, <1>2 DEF CacheInv, CacheTypeOK, Watched, Counts, Entries
<1>4. Watched' = Watched /\ (OnScreen' <=> OnScreen) /\ MutationIsOfPage'
  BY <1>1 DEF Watched, OnScreen, CacheInv, MutationIsOfPage
<1> QED
  BY <1>1, <1>2, <1>3, <1>4 DEF CacheInv

\* Steps of a mutation that leave the page as it is, and changes made elsewhere.
LEMMA ServerStep ==
  ASSUME CacheInv, UNCHANGED <<watched, entry, page, own>>, facet' \in Counts,
         \A f \in Watched : facet'[f] >= facet[f], MutationIsOfPage'
  PROVE  CacheInv'
<1>1. Watched' = Watched /\ (OnScreen' <=> OnScreen)
  BY DEF Watched, OnScreen
<1>2. CacheTypeOK'
  BY DEF CacheInv, CacheTypeOK, Watched, Counts, Entries
<1>3. \A f \in Watched : own'[f].count <= facet'[f]
  BY DEF CacheInv, CacheTypeOK, Counts, Changes
<1>4. OnScreen => \A f \in Watched : WillBeShown(f)'
  BY DEF CacheInv, WillBeShown, Crossing, Crossed
<1> QED
  BY <1>1, <1>2, <1>3, <1>4 DEF CacheInv

\* A mutation ends well: the queries it names are invalidated.
LEMMA SucceedsStep ==
  ASSUME CacheInv, MutationSucceeds
  PROVE  CacheInv'
<1> DEFINE m == mutation.name
           Change(f) == [count |-> facet[f], by |-> m,
                         crossed |-> FirstIsUnderWay /\ entry.fetch = "answered"]
<1>1. /\ mutation' = NoMutation /\ UNCHANGED <<watched, facet, page>>
      /\ own' = [f \in Watched |-> IF f \notin Writes(m) THEN own[f] ELSE Change(f)]
  BY DEF MutationSucceeds
<1>2. page \in Screens /\ m \in Buttons(page)
  BY DEF CacheInv, MutationIsOfPage, MutationSucceeds, NoMutation
<1>3. m \in Makers
  BY <1>2 DEF Makers
<1>4. \A f \in Watched : /\ Change(f) \in Changes
                         /\ Change(f).count = facet[f] /\ Change(f).by = m
                         /\ Change(f).crossed = (FirstIsUnderWay /\ entry.fetch = "answered")
  <2>1. \A f \in Watched : facet[f] \in Nat
    BY DEF CacheInv, CacheTypeOK, Counts
  <2>2. (FirstIsUnderWay /\ entry.fetch = "answered") \in BOOLEAN
    OBVIOUS
  <2> QED
    BY <1>3, <2>1, <2>2, Zenon DEF Changes
<1>5. /\ own' \in [Watched -> Changes]
      /\ \A f \in Watched : /\ own'[f].count <= facet[f]
                            /\ f \in Writes(m) => own'[f] = Change(f)
                            /\ f \notin Writes(m) => own'[f] = own[f]
  <2> HIDE DEF Change
  <2>1. \A f \in Watched : facet[f] \in Nat /\ own[f] \in Changes /\ own[f].count <= facet[f]
    BY DEF CacheInv, CacheTypeOK, Counts
  <2> QED
    BY <1>1, <1>4, <2>1
<1>6. /\ entry' \in Entries
      /\ watched \notin Invalidates(m) => entry' = entry
      /\ watched \in Invalidates(m) => entry' = Invalidated
  BY InvalidatedFields DEF CacheInv, CacheTypeOK, MutationSucceeds
<1>7. CacheTypeOK'
  BY <1>1, <1>5, <1>6 DEF CacheInv, CacheTypeOK, Watched, Counts, Entries
<1>8. Watched' = Watched /\ (OnScreen' <=> OnScreen) /\ MutationIsOfPage'
  BY <1>1 DEF Watched, OnScreen, CacheInv, MutationIsOfPage
<1>9. ASSUME OnScreen, NEW f \in Watched PROVE WillBeShown(f)'
  <2>1. CASE watched \in Invalidates(m)
    <3>1. \/ entry'.fetch = "asked"
          \/ /\ FirstIsUnderWay /\ entry'.fetch = entry.fetch
             /\ entry'.has = entry.has /\ entry'.got = entry.got
      BY <1>6, <1>9, <2>1, InvalidatedFields DEF CacheInv
    <3>2. CASE entry'.fetch = "asked"
      BY <3>2 DEF WillBeShown
    <3>3. CASE entry'.fetch = "answered" /\ FirstIsUnderWay /\ entry.fetch = "answered"
                 /\ entry'.has = entry.has /\ entry'.got = entry.got
      <4>1. f \in Writes(m) => own'[f].crossed
        BY <1>4, <1>5, <3>3
      <4>2. f \in Writes(m) => Crossing(f)'
        BY <3>3, <4>1 DEF Crossing, FirstIsUnderWay
      <4>3. f \notin Writes(m) => (Crossing(f) => Crossing(f)')
        BY <1>5, <3>3, Zenon DEF Crossing
      <4> QED
        BY <1>1, <1>5, <1>9, <3>3, <4>2, <4>3 DEF CacheInv, WillBeShown
    <3> QED
      BY <3>1, <3>2, <3>3 DEF FirstIsUnderWay, CacheInv, CacheTypeOK, Entries
  <2>2. CASE watched \notin Invalidates(m) /\ f \notin Writes(m)
    <3>1. (Crossing(f) => Crossing(f)') /\ (Crossed(f) => Crossed(f)')
      BY <1>5, <1>6, <2>2, Zenon DEF Crossing, Crossed
    <3> QED
      BY <1>1, <1>5, <1>6, <1>9, <2>2, <3>1 DEF CacheInv, WillBeShown
  <2>3. CASE watched \notin Invalidates(m) /\ f \in Writes(m)
    <3>1. <<m, watched>> \in Forgotten
      BY <1>2, <1>9, <2>3, OthersAreInvalidated DEF OnScreen, Watched
    <3> QED
      BY <1>1, <1>4, <1>5, <2>3, <3>1 DEF WillBeShown
  <2> QED
    BY <2>1, <2>2, <2>3
<1> QED
  BY <1>1, <1>5, <1>7, <1>8, <1>9 DEF CacheInv

LEMMA CacheStep == CacheInv /\ [CacheNext]_cacheVars => CacheInv'
<1> SUFFICES ASSUME CacheInv, [CacheNext]_cacheVars PROVE CacheInv'
  OBVIOUS
<1>1. facet \in Counts /\ \A f \in Watched : facet[f] \in Nat
  BY DEF CacheInv, CacheTypeOK, Counts
<1>2. CASE UNCHANGED cacheVars
  BY <1>1, <1>2, ServerStep DEF cacheVars, CacheInv, MutationIsOfPage
<1>3. ASSUME NEW p \in Screens, NEW m \in Buttons(p), PressButton(m) PROVE CacheInv'
  <2>1. /\ UNCHANGED <<watched, facet, entry, page, own>>
        /\ page # "none" /\ m \in Buttons(page) /\ mutation'.name = m
    BY <1>3 DEF PressButton
  <2>2. MutationIsOfPage'
    BY <2>1 DEF CacheInv, MutationIsOfPage
  <2> QED
    BY <1>1, <2>1, <2>2, ServerStep
<1>4. CASE ServerApplies
  <2>1. /\ facet' = [f \in Watched |-> IF f \in Writes(mutation.name) THEN facet[f] + 1 ELSE facet[f]]
        /\ UNCHANGED <<watched, entry, page, own>> /\ mutation # NoMutation
        /\ mutation' = [mutation EXCEPT !.at = "applied"]
    BY <1>4 DEF ServerApplies, NoMutation
  <2>2. facet' \in Counts /\ \A f \in Watched : facet'[f] >= facet[f]
    BY <1>1, <2>1 DEF Counts
  <2>3. MutationIsOfPage'
    BY <2>1 DEF CacheInv, MutationIsOfPage
  <2> QED
    BY <2>1, <2>2, <2>3, ServerStep
<1>5. CASE MutationFails
  BY <1>1, <1>5, ServerStep DEF MutationFails, CacheInv, MutationIsOfPage
<1>6. CASE ChangedElsewhere
  <2>1. /\ UNCHANGED <<watched, entry, page, mutation, own>>
        /\ \E f \in Watched : facet' = [facet EXCEPT ![f] = @ + 1]
    BY <1>6 DEF ChangedElsewhere
  <2>2. facet' \in Counts /\ \A f \in Watched : facet'[f] >= facet[f]
    BY <1>1, <2>1 DEF Counts
  <2>3. MutationIsOfPage'
    BY <2>1 DEF CacheInv, MutationIsOfPage
  <2> QED
    BY <2>1, <2>2, <2>3, ServerStep
<1> QED
  BY <1>2, <1>3, <1>4, <1>5, <1>6, OpenPageStep, AnswersStep, FetchEndsStep, SucceedsStep
     DEF CacheNext

\* What a page has changed it shows once its fetches are back: for every query, page and
\* mutation of hooks.ts and any number of changes here and elsewhere, but for the pairs
\* in Forgotten, which OthersAreInvalidated shows to be all there are.
THEOREM ShownCorrect == CacheSpec => []OwnChangesAreShown
<1>1. CacheInv => OwnChangesAreShown
  BY Zenon DEF CacheInv, WillBeShown, Crossed, OwnChangesAreShown
<1> QED
  BY <1>1, CacheInitial, CacheStep, PTL DEF CacheSpec

-----------------------------------------------------------------------------
(***************************************************************************)
(* Runs of an oracle prompt.                                               *)
(***************************************************************************)
Askings == [at : {"idle", "first", "fallback", "retry", "answered"}, schema : Schemas,
            forced : BOOLEAN, calls : 0 .. 2, content : ModelReplies \cup {Nothing},
            byForce : BOOLEAN, skipped : BOOLEAN]

\* A second call is made without a schema, and only a fixed one is in force.
AskingOK(a) ==
    /\ a.at = "first" => /\ a.calls = 1 /\ (a.forced => a.schema = "fixed")
                         /\ a.skipped => ~a.forced
    /\ a.at = "fallback" => a.calls = 2 /\ ~a.forced
    /\ a.at = "retry" => a.calls = 2 /\ a.schema = "fixed"
    /\ a.at = "answered" => /\ a.content = "empty" => ~a.byForce \/ a.calls = 2
                            /\ a.byForce => a.schema = "fixed"
                            /\ a.skipped => ~a.byForce

OracleInv ==
    /\ schema \in Schemas /\ asking \in [Tabs -> Askings]
    /\ \A t \in Tabs : AskingOK(asking[t])

LEMMA QuietOK == Quiet \in Askings /\ AskingOK(Quiet)
<1>1. Quiet \in Askings /\ Quiet.at = "idle"
  BY DEF Quiet, Askings, Schemas
<1> QED
  BY <1>1 DEF AskingOK

\* One request moves.
LEMMA AskingMoves ==
  ASSUME OracleInv, NEW t \in Tabs, NEW a, a \in Askings, AskingOK(a), schema' \in Schemas,
         asking' = [asking EXCEPT ![t] = a]
  PROVE  OracleInv'
BY DEF OracleInv

\* A request is answered.
LEMMA OracleAnswered ==
  ASSUME OracleInv, NEW t \in Tabs, NEW content \in ModelReplies, NEW byForce \in BOOLEAN,
         NEW skipped \in BOOLEAN, Has(t, content, byForce, skipped), schema' = schema,
         asking[t].calls = 2 \/ ~byForce \/ content # "empty",
         byForce => asking[t].schema = "fixed", skipped => ~byForce
  PROVE  OracleInv'
<1> DEFINE b == [asking[t] EXCEPT !.at = "answered"]
           c == [b EXCEPT !.content = content]
           d == [c EXCEPT !.byForce = byForce]
           e == [d EXCEPT !.skipped = skipped]
<1>1. asking' = [asking EXCEPT ![t] = e] /\ asking[t] \in Askings
  BY DEF Has, OracleInv
<1>2. b \in Askings /\ b.at = "answered" /\ b.calls = asking[t].calls /\ b.schema = asking[t].schema
  BY <1>1 DEF Askings
<1> HIDE DEF b
<1>3. c \in Askings /\ c.at = "answered" /\ c.calls = b.calls /\ c.schema = b.schema
      /\ c.content = content
  BY <1>2 DEF Askings
<1> HIDE DEF c
<1>4. d \in Askings /\ d.at = "answered" /\ d.calls = c.calls /\ d.schema = c.schema
      /\ d.content = content
  BY <1>3 DEF Askings
<1>5. d.byForce = byForce
  BY <1>3, Zenon DEF Askings
<1> HIDE DEF d
<1>6. e \in Askings /\ e.at = "answered" /\ e.calls = d.calls /\ e.schema = d.schema
      /\ e.content = content
  BY <1>4 DEF Askings
<1>7. e.byForce = byForce /\ e.skipped = skipped
  BY <1>4, <1>5, Zenon DEF Askings
<1> HIDE DEF e
<1>8. AskingOK(e)
  BY <1>2, <1>3, <1>4, <1>6, <1>7 DEF AskingOK
<1> QED
  BY <1>1, <1>6, <1>8, AskingMoves DEF OracleInv

\* A request asks again, without the schema.
LEMMA AskedAgain ==
  ASSUME OracleInv, NEW t \in Tabs, NEW at \in {"fallback", "retry"}, AsksAgain(t, at),
         asking[t].calls = 1, at = "retry" => asking[t].schema = "fixed", schema' = schema
  PROVE  OracleInv'
<1> DEFINE b == [asking[t] EXCEPT !.at = at]
           c == [b EXCEPT !.forced = FALSE]
           d == [c EXCEPT !.calls = @ + 1]
<1>1. asking' = [asking EXCEPT ![t] = d] /\ asking[t] \in Askings
  BY DEF AsksAgain, OracleInv
<1>2. b \in Askings /\ b.at = at /\ b.calls = 1 /\ b.schema = asking[t].schema
  BY <1>1 DEF Askings
<1> HIDE DEF b
<1>3. c \in Askings /\ c.at = at /\ c.calls = 1 /\ c.schema = b.schema
  BY <1>2 DEF Askings
<1>4. ~c.forced
  BY <1>2, Zenon DEF Askings
<1> HIDE DEF c
<1>5. d \in Askings /\ d.at = at /\ d.calls = 2 /\ d.schema = c.schema
  BY <1>3 DEF Askings
<1>6. ~d.forced
  BY <1>3, <1>4 DEF Askings
<1> HIDE DEF d
<1>7. AskingOK(d)
  BY <1>2, <1>3, <1>5, <1>6 DEF AskingOK
<1> QED
  BY <1>1, <1>5, <1>7, AskingMoves DEF OracleInv

LEMMA ExecuteStep ==
  ASSUME OracleInv, NEW t \in Tabs, Execute(t)
  PROVE  OracleInv'
<1> DEFINE b == [Quiet EXCEPT !.at = "first"]
           c == [b EXCEPT !.schema = schema]
           d == [c EXCEPT !.forced = Forced(schema)]
           e == [d EXCEPT !.calls = 1]
           g == [e EXCEPT !.skipped = (schema = "map")]
<1>1. asking' = [asking EXCEPT ![t] = g] /\ schema' = schema /\ schema \in Schemas
  BY DEF Execute, OracleInv
<1>2. b \in Askings /\ b.at = "first"
  BY QuietOK DEF Askings
<1> HIDE DEF b
<1>3. c \in Askings /\ c.at = "first" /\ c.schema = schema
  BY <1>1, <1>2 DEF Askings
<1> HIDE DEF c
<1>4. d \in Askings /\ d.at = "first" /\ d.schema = schema
  BY <1>3 DEF Askings, Forced
<1>5. d.forced = (schema = "fixed")
  BY <1>3, Zenon DEF Askings, Forced
<1> HIDE DEF d
<1>6. e \in Askings /\ e.at = "first" /\ e.schema = schema /\ e.calls = 1
  BY <1>4 DEF Askings
<1>7. e.forced = (schema = "fixed")
  BY <1>4, <1>5, Zenon DEF Askings
<1> HIDE DEF e
<1>8. g \in Askings /\ g.at = "first" /\ g.schema = schema /\ g.calls = 1
  BY <1>6 DEF Askings
<1>9. g.forced = (schema = "fixed") /\ g.skipped = (schema = "map")
  BY <1>6, <1>7, Zenon DEF Askings
<1> HIDE DEF g
<1>10. AskingOK(g)
  BY <1>8, <1>9 DEF AskingOK
<1> QED
  BY <1>1, <1>8, <1>10, AskingMoves

LEMMA ReplyStep ==
  ASSUME OracleInv, NEW t \in Tabs, NEW reply \in ModelReplies,
         FirstReply(t, reply) \/ FallbackReply(t, reply) \/ RetryReply(t, reply)
  PROVE  OracleInv'
<1>1. asking[t] \in Askings /\ AskingOK(asking[t]) /\ schema' = schema /\ schema' \in Schemas
  BY DEF OracleInv, FirstReply, FallbackReply, RetryReply
<1>2. asking[t].forced \in BOOLEAN /\ asking[t].skipped \in BOOLEAN
  BY <1>1 DEF Askings
<1>3. ASSUME Fails(t) PROVE OracleInv'
  BY <1>1, <1>3, QuietOK, AskingMoves DEF Fails
<1>4. CASE FirstReply(t, reply)
  <2>1. /\ asking[t].calls = 1 /\ (asking[t].forced => asking[t].schema = "fixed")
        /\ asking[t].skipped => ~asking[t].forced
    BY <1>1, <1>4 DEF FirstReply, AskingOK
  <2>2. CASE AsksAgain(t, "fallback")
    BY <1>1, <2>1, <2>2, AskedAgain
  <2>3. CASE AsksAgain(t, "retry") /\ asking[t].forced
    BY <1>1, <2>1, <2>3, AskedAgain
  <2>4. CASE Has(t, reply, asking[t].forced, asking[t].skipped) /\ (reply # "empty" \/ ~asking[t].forced)
    BY <1>1, <1>2, <2>1, <2>4, OracleAnswered
  <2> QED
    BY <1>3, <1>4, <2>2, <2>3, <2>4 DEF FirstReply
<1>5. CASE FallbackReply(t, reply)
  <2>1. Fails(t) \/ Has(t, reply, FALSE, asking[t].skipped)
    BY <1>5 DEF FallbackReply
  <2> QED
    BY <1>1, <1>2, <1>3, <2>1, OracleAnswered
<1>6. CASE RetryReply(t, reply)
  <2>1. asking[t].calls = 2 /\ asking[t].schema = "fixed"
    BY <1>1, <1>6 DEF RetryReply, AskingOK
  <2>2. Has(t, "empty", TRUE, FALSE) \/ Has(t, reply, FALSE, TRUE)
    BY <1>6 DEF RetryReply
  <2> QED
    BY <1>1, <2>1, <2>2, OracleAnswered DEF ModelReplies
<1> QED
  BY <1>4, <1>5, <1>6

LEMMA OracleInitial == OracleInit => OracleInv
  BY QuietOK DEF OracleInit, OracleInv

LEMMA OracleStep ==
  ASSUME OracleInv, [OracleNext]_oracleVars
  PROVE  OracleInv'
<1>1. ASSUME asking' = asking, schema' \in Schemas PROVE OracleInv'
  BY <1>1 DEF OracleInv
<1>2. CASE UNCHANGED oracleVars
  BY <1>1, <1>2 DEF oracleVars, OracleInv
<1>3. CASE MetaGenerate \/ EditOraclePrompt
  BY <1>1, <1>3 DEF MetaGenerate, EditOraclePrompt, SchemaOfSample, Schemas
<1>4. ASSUME NEW t \in Tabs, Execute(t) PROVE OracleInv'
  BY <1>4, ExecuteStep
<1>5. ASSUME NEW t \in Tabs, RecordRun(t) PROVE OracleInv'
  BY <1>5, QuietOK, AskingMoves DEF RecordRun, OracleInv
<1>6. ASSUME NEW t \in Tabs, NEW reply \in ModelReplies,
             FirstReply(t, reply) \/ FallbackReply(t, reply) \/ RetryReply(t, reply)
      PROVE  OracleInv'
  BY <1>6, ReplyStep
<1> QED
  BY <1>2, <1>3, <1>4, <1>5, <1>6 DEF OracleNext

LEMMA OracleKeeps == OracleInv => ForceIsNeverTheLastWord
  BY DEF OracleInv, AskingOK, ForceIsNeverTheLastWord, Askings

-----------------------------------------------------------------------------
(***************************************************************************)
(* The studio's page.                                                      *)
(***************************************************************************)
Texts == Prompts \cup {Blank}
Ids == Fixtures \cup {Blank}
Stored == [prompt : Texts, of : Ids]
Studios == [selected : Ids, shown : Ids, tab : {"input", "run", "prompt"},
            link : {"input", "prompt"}, prompt : Texts, preview : Ids]
Calls == [kind : {"none", "meta", "run", "savePrompt", "savePreview", "saveInput", "newCase",
                  "delete"},
          for : Ids, text : Texts, of : Ids, seen : Texts, then : Stored \cup {Blank},
          mounted : BOOLEAN, page : BOOLEAN]

StudioTypeOK ==
    /\ saved \in [Fixtures -> Stored \cup {Blank}] /\ copied \in [Fixtures -> Stored \cup {Blank}]
    /\ draft \in [Fixtures -> Texts] /\ written \in [Fixtures -> Texts]
    /\ studio \in Studios /\ calls \in [1 .. MaxAsked -> Calls]
    /\ asked \in Nat /\ late \in BOOLEAN

\* The page renders what it has fetched.
ShownIsFetched == studio.shown # Blank => copied[studio.shown] # Blank

\* What a call is about.
CallOK(c) ==
    /\ c.kind # "none" => c.for \in Fixtures
    /\ c.kind = "saveInput" => c.text = c.then.prompt
    /\ c.kind \in {"run", "savePrompt", "savePreview", "saveInput", "newCase"} =>
          c.of \in {Blank, c.for}

CallsOK == \A n \in 1 .. MaxAsked : CallOK(calls[n])

\* Who waits for a generated prompt has the editor on the screen.
EditorWaits ==
    \A n \in 1 .. MaxAsked : calls[n].kind = "meta" /\ calls[n].mounted => Showing("prompt")

\* Previews and expectations are of the fixture at which they are found.
OwnOnly ==
    /\ studio.preview \in {Blank, studio.selected}
    /\ \A f \in Fixtures : /\ saved[f] # Blank => saved[f].of \in {Blank, f}
                           /\ copied[f] # Blank => copied[f].of \in {Blank, f}

\* Nothing was written for the fixture, or the server has it, or the draft was
\* overwritten by an editor that was opened too early.
Safe(f) ==
    f \in overwritten \/ written[f] = Blank \/ (saved[f] # Blank /\ saved[f].prompt = written[f])

\* What the server has not is the draft, and the editor has no other text.
WrittenIsDraft ==
    \A f \in Fixtures : ~Safe(f) => /\ draft[f] = written[f]
                                    /\ studio.selected = f => studio.prompt \in {Blank, written[f]}

Orderly ==
    /\ ShownIsFetched /\ CallsOK /\ EditorWaits /\ OwnOnly /\ WrittenIsDraft

StudioInv == StudioTypeOK /\ (~late => Orderly)

LEMMA AtRestType ==
  AtRest \in Calls /\ AtRest.kind = "none" /\ ~AtRest.mounted /\ CallOK(AtRest)
<1>1. AtRest \in Calls /\ AtRest.kind = "none"
  BY DEF AtRest, Calls, Ids, Texts
<1>2. ~AtRest.mounted
  BY Zenon DEF AtRest
<1> QED
  BY <1>1, <1>2 DEF CallOK

LEMMA StudioInitial == StudioInit => StudioInv
<1> SUFFICES ASSUME StudioInit PROVE StudioInv
  OBVIOUS
<1>1. Kept(Blank, Blank) \in Stored /\ Kept(Blank, Blank).of = Blank
  BY DEF Kept, Stored, Texts, Ids
<1>2. StudioTypeOK
  BY <1>1, AtRestType DEF StudioInit, StudioTypeOK, Landing, Studios, Ids, Texts
<1>3. calls = [n \in 1 .. MaxAsked |-> AtRest]
  BY DEF StudioInit
<1>4. CallsOK /\ EditorWaits
  BY <1>3, AtRestType DEF CallsOK, EditorWaits
<1>5. ShownIsFetched /\ OwnOnly
  BY <1>1 DEF StudioInit, ShownIsFetched, OwnOnly, Landing
<1>6. WrittenIsDraft
  BY DEF StudioInit, WrittenIsDraft, Safe
<1> QED
  BY <1>2, <1>4, <1>5, <1>6 DEF StudioInv, Orderly

\* The page after a fixture is selected, and after its data was rendered.
LEMMA ResetFields ==
  ASSUME NEW pg \in Studios, NEW p \in Ids
  PROVE  /\ Reset(pg, p) \in Studios /\ Reset(pg, p).selected = p /\ Reset(pg, p).shown = pg.shown
         /\ Reset(pg, p).prompt = Blank /\ Reset(pg, p).preview = Blank
<1> DEFINE tab == IF p = pg.selected THEN "input" ELSE pg.link
           r1 == [pg EXCEPT !.selected = p]
           r2 == [r1 EXCEPT !.tab = tab]
           r3 == [r2 EXCEPT !.prompt = Blank]
           r4 == [r3 EXCEPT !.preview = Blank]
<1>1. Reset(pg, p) = r4
  BY DEF Reset, Studios
<1>2. r1 \in Studios /\ r1.selected = p /\ r1.shown = pg.shown
  BY DEF Studios
<1>3. tab \in {"input", "run", "prompt"}
  BY DEF Studios
<1> HIDE DEF r1, tab
<1>4. r2 \in Studios /\ r2.selected = p /\ r2.shown = pg.shown
  BY <1>2, <1>3 DEF Studios
<1> HIDE DEF r2
<1>5. r3 \in Studios /\ r3.selected = p /\ r3.shown = pg.shown /\ r3.prompt = Blank
  BY <1>4 DEF Studios, Texts
<1> HIDE DEF r3
<1>6. /\ r4 \in Studios /\ r4.selected = p /\ r4.shown = pg.shown /\ r4.prompt = Blank
      /\ r4.preview = Blank
  BY <1>5 DEF Studios, Ids
<1> QED
  BY <1>1, <1>6

\* A draft g that is not overwritten by what is rendered stays, and the editor of its
\* fixture has it or what it had.
Keeps(pg, g) ==
    \/ g \in overwritten'
    \/ /\ g \notin overwritten
       /\ draft[g] # Blank => /\ draft'[g] = draft[g]
                              /\ pg.selected = g => studio'.prompt \in {pg.prompt, draft[g]}

LEMMA RenderedFields ==
  ASSUME StudioTypeOK, NEW pg \in Studios, NEW data \in [Fixtures -> Stored \cup {Blank}],
         Renders(pg, data)
  PROVE  /\ studio' \in Studios /\ studio'.selected = pg.selected /\ studio'.tab = pg.tab
         /\ studio'.preview = pg.preview
         /\ studio'.shown # Blank => studio'.shown = pg.selected /\ data[studio'.shown] # Blank
         /\ draft' \in [Fixtures -> Texts] /\ \A g \in Fixtures : Keeps(pg, g)
         /\ pg.shown = pg.selected /\ pg.selected # Blank /\ data[pg.selected] # Blank
               => studio' = pg
<1> DEFINE f == pg.selected
           appears == f # Blank /\ data[f] # Blank /\ pg.shown # f
           open == pg.tab = "prompt"
           text == OpensWith(pg.prompt, IF open THEN Blank ELSE draft[f], data[f])
<1>1. CASE ~appears
  <2>1. /\ studio' = IF f # Blank /\ data[f] # Blank THEN pg ELSE [pg EXCEPT !.shown = Blank]
        /\ draft' = draft /\ overwritten' = overwritten
    BY <1>1 DEF Renders
  <2>2. \A g \in Fixtures : pg.prompt = studio'.prompt => Keeps(pg, g)
    BY <2>1 DEF Keeps
  <2>3. CASE f # Blank /\ data[f] # Blank
    BY <1>1, <2>1, <2>2, <2>3 DEF StudioTypeOK
  <2>4. CASE ~(f # Blank /\ data[f] # Blank)
    <3>1. studio' = [pg EXCEPT !.shown = Blank]
      BY <2>1, <2>4
    <3> QED
      BY <2>1, <2>2, <2>4, <3>1 DEF StudioTypeOK, Studios, Ids
  <2> QED
    BY <2>3, <2>4
<1>2. CASE appears
  <2>1. f \in Fixtures /\ data[f] \in Stored
    BY <1>2 DEF Studios, Ids
  <2>2. /\ text \in Texts
        /\ ~open => text = pg.prompt \/ (draft[f] # Blank => text = draft[f])
    BY <2>1 DEF Studios, Stored, StudioTypeOK, OpensWith, Texts
  <2>3. /\ studio' = [pg EXCEPT !.shown = f, !.prompt = text]
        /\ draft' = IF open THEN [draft EXCEPT ![f] = text] ELSE draft
        /\ overwritten' = IF open /\ draft[f] \notin {Blank, text}
                          THEN overwritten \cup {f} ELSE overwritten
    BY <1>2 DEF Renders
  <2>4. pg.selected = f /\ pg.shown # pg.selected /\ data[f] # Blank
    BY <1>2
  <2> HIDE DEF text, open, f, appears
  <2> DEFINE r == [pg EXCEPT !.shown = f]
  <2>5. r \in Studios /\ r.shown = f /\ r.selected = pg.selected /\ r.tab = pg.tab
        /\ r.preview = pg.preview /\ r.prompt = pg.prompt
    BY <2>1 DEF Studios, Ids
  <2>6. studio' = [r EXCEPT !.prompt = text]
    BY <2>3
  <2> HIDE DEF r
  <2>7. studio' \in Studios /\ studio'.shown = f /\ studio'.selected = pg.selected
        /\ studio'.tab = pg.tab /\ studio'.preview = pg.preview /\ studio'.prompt = text
    BY <2>2, <2>5, <2>6 DEF Studios
  <2>8. draft' \in [Fixtures -> Texts] /\ \A g \in Fixtures \ {f} : draft'[g] = draft[g]
    BY <2>1, <2>2, <2>3 DEF StudioTypeOK
  <2>9. \A g \in Fixtures \ {f} : Keeps(pg, g)
    BY <2>3, <2>4, <2>8 DEF Keeps
  <2>10. Keeps(pg, f)
    <3>1. CASE open
      BY <2>1, <2>2, <2>3, <2>7, <3>1 DEF Keeps, StudioTypeOK
    <3>2. CASE ~open
      BY <2>1, <2>2, <2>3, <2>7, <3>2 DEF Keeps
    <3> QED
      BY <3>1, <3>2
  <2> QED
    BY <2>4, <2>7, <2>8, <2>9, <2>10
<1> QED
  BY <1>1, <1>2

\* The page selects p and renders what it has fetched of it.
LEMMA Moved ==
  ASSUME StudioTypeOK, NEW p \in Ids, Renders(Reset(studio, p), copied)
  PROVE  /\ studio' \in Studios /\ studio'.selected = p /\ studio'.preview = Blank
         /\ studio'.shown # Blank => copied[studio'.shown] # Blank
         /\ draft' \in [Fixtures -> Texts]
         /\ \A g \in Fixtures :
               \/ g \in overwritten'
               \/ /\ g \notin overwritten
                  /\ draft[g] # Blank => /\ draft'[g] = draft[g]
                                         /\ p = g => studio'.prompt \in {Blank, draft[g]}
<1> DEFINE r == Reset(studio, p)
<1>1. r \in Studios /\ r.selected = p /\ r.prompt = Blank /\ r.preview = Blank
  BY ResetFields DEF StudioTypeOK
<1>2. copied \in [Fixtures -> Stored \cup {Blank}] /\ Renders(r, copied)
  BY DEF StudioTypeOK
<1> HIDE DEF r
<1>3. /\ studio' \in Studios /\ studio'.selected = r.selected /\ studio'.preview = r.preview
      /\ studio'.shown # Blank => copied[studio'.shown] # Blank
      /\ draft' \in [Fixtures -> Texts] /\ \A g \in Fixtures : Keeps(r, g)
  BY <1>1, <1>2, RenderedFields, ZenonT(40)
<1> QED
  BY <1>1, <1>3 DEF Keeps

\* Tabs that are left.
LEMMA UnmountedFields ==
  ASSUME StudioTypeOK
  PROVE  /\ Unmounted(calls) \in [1 .. MaxAsked -> Calls]
         /\ \A n \in 1 .. MaxAsked : /\ ~Unmounted(calls)[n].mounted
                                     /\ CallOK(calls[n]) => CallOK(Unmounted(calls)[n])
<1>1. ASSUME NEW n \in 1 .. MaxAsked
      PROVE  /\ Unmounted(calls)[n] \in Calls /\ ~Unmounted(calls)[n].mounted
             /\ CallOK(calls[n]) => CallOK(Unmounted(calls)[n])
  <2> DEFINE c == calls[n]
             d == [c EXCEPT !.mounted = FALSE]
  <2>1. Unmounted(calls)[n] = d /\ c \in Calls
    BY DEF Unmounted, StudioTypeOK
  <2> HIDE DEF c
  <2>2. d \in Calls /\ d.kind = c.kind /\ d.for = c.for /\ d.text = c.text /\ d.of = c.of
        /\ d.then = c.then
    BY <2>1 DEF Calls
  <2>3. ~d.mounted
    BY <2>1, Zenon DEF Calls
  <2> HIDE DEF d
  <2> QED
    BY <2>1, <2>2, <2>3 DEF CallOK, c
<1>2. Unmounted(calls) = [n \in 1 .. MaxAsked |-> Unmounted(calls)[n]]
  BY DEF Unmounted, StudioTypeOK
<1> QED
  BY <1>1, <1>2

\* The page selects a fixture or none, and its tabs are left.
LEMMA SelectStep ==
  ASSUME StudioInv, ~late, NEW p \in Ids, Renders(Reset(studio, p), copied),
         calls' = Unmounted(calls), UNCHANGED <<saved, copied, asked, written, late>>
  PROVE  StudioInv'
<1>1. StudioTypeOK /\ Orderly
  BY DEF StudioInv
<1>2. /\ studio' \in Studios /\ studio'.selected = p /\ studio'.preview = Blank
      /\ studio'.shown # Blank => copied[studio'.shown] # Blank
      /\ draft' \in [Fixtures -> Texts]
      /\ \A g \in Fixtures :
            \/ g \in overwritten'
            \/ /\ g \notin overwritten
               /\ draft[g] # Blank => /\ draft'[g] = draft[g]
                                      /\ p = g => studio'.prompt \in {Blank, draft[g]}
  BY <1>1, Moved
<1>3. StudioTypeOK'
  BY <1>1, <1>2, UnmountedFields DEF StudioTypeOK
<1>4. CallsOK' /\ EditorWaits'
  BY <1>1, UnmountedFields DEF Orderly, CallsOK, EditorWaits
<1>5. WrittenIsDraft'
  BY <1>1, <1>2 DEF Orderly, WrittenIsDraft, Safe
<1>6. ShownIsFetched' /\ OwnOnly'
  BY <1>1, <1>2 DEF Orderly, ShownIsFetched, OwnOnly
<1> QED
  BY <1>3, <1>4, <1>5, <1>6 DEF StudioInv, Orderly

LEMMA FetchStep ==
  ASSUME StudioInv, ~late, NEW f \in Fixtures, FetchDetail(f)
  PROVE  StudioInv'
<1>1. StudioTypeOK /\ Orderly
  BY DEF StudioInv
<1>2. /\ copied' = [copied EXCEPT ![f] = saved[f]] /\ Renders(studio, copied')
      /\ UNCHANGED <<saved, calls, asked, written, late>> /\ saved[f] # Blank
  BY DEF FetchDetail
<1>3. /\ copied' \in [Fixtures -> Stored \cup {Blank}]
      /\ \A g \in Fixtures : copied[g] # Blank => copied'[g] # Blank
      /\ \A g \in Fixtures : copied'[g] \in {copied[g], saved[g]}
  BY <1>1, <1>2 DEF StudioTypeOK
<1>4. /\ studio' \in Studios /\ studio'.selected = studio.selected
      /\ studio'.preview = studio.preview
      /\ studio'.shown # Blank => copied'[studio'.shown] # Blank
      /\ draft' \in [Fixtures -> Texts] /\ \A g \in Fixtures : Keeps(studio, g)
      /\ studio.shown = studio.selected /\ studio.selected # Blank /\ copied'[studio.selected] # Blank
            => studio' = studio
  <2>1. studio \in Studios
    BY <1>1 DEF StudioTypeOK
  <2> QED
    BY <1>1, <1>2, <1>3, <2>1, RenderedFields, ZenonT(40)
<1>5. StudioTypeOK'
  BY <1>1, <1>2, <1>3, <1>4 DEF StudioTypeOK
<1>6. CallsOK' /\ EditorWaits'
  <2>1. Showing("prompt") => studio' = studio
    BY <1>1, <1>3, <1>4 DEF Showing, Orderly, ShownIsFetched, StudioTypeOK, Studios, Ids
  <2>2. Showing("prompt") => Showing("prompt")'
    BY <2>1 DEF Showing
  <2> QED
    BY <1>1, <1>2, <2>2 DEF Orderly, CallsOK, EditorWaits
<1>7. WrittenIsDraft'
  BY <1>1, <1>2, <1>4 DEF Orderly, WrittenIsDraft, Safe, Keeps
<1>8. ShownIsFetched' /\ OwnOnly'
  BY <1>1, <1>2, <1>3, <1>4 DEF Orderly, ShownIsFetched, OwnOnly
<1> QED
  BY <1>5, <1>6, <1>7, <1>8 DEF StudioInv, Orderly

LEMMA EditorStep ==
  ASSUME StudioInv, ~late, OpenEditor
  PROVE  StudioInv'
<1> DEFINE text == OpensWith(studio.prompt, draft[studio.shown], Kept(Blank, Blank))
           f == studio.shown
           r == [studio EXCEPT !.tab = "prompt"]
<1>1. StudioTypeOK /\ Orderly
  BY DEF StudioInv
<1>2. /\ f \in Fixtures /\ studio.selected = f
      /\ studio' = [studio EXCEPT !.tab = "prompt", !.prompt = text]
      /\ draft' = [draft EXCEPT ![f] = text] /\ calls' = Unmounted(calls)
      /\ UNCHANGED <<saved, copied, asked, written, overwritten, late>>
  BY <1>1 DEF OpenEditor, Showing, StudioTypeOK, Studios, Ids
<1>3. text \in Texts /\ text \in {studio.prompt, draft[f]}
      /\ (studio.prompt # Blank => text = studio.prompt)
      /\ (studio.prompt = Blank => text = draft[f])
  BY <1>1, <1>2 DEF StudioTypeOK, Studios, OpensWith, Kept
<1> HIDE DEF text, f
<1>4. r \in Studios /\ r.selected = studio.selected /\ r.shown = studio.shown
      /\ r.preview = studio.preview
  BY <1>1 DEF StudioTypeOK, Studios
<1>5. studio' = [r EXCEPT !.prompt = text]
  BY <1>2
<1> HIDE DEF r
<1>6. /\ studio' \in Studios /\ studio'.selected = studio.selected /\ studio'.shown = studio.shown
      /\ studio'.preview = studio.preview /\ studio'.prompt = text
  BY <1>3, <1>4, <1>5 DEF Studios
<1>7. StudioTypeOK'
  BY <1>1, <1>2, <1>3, <1>6, UnmountedFields DEF StudioTypeOK
<1>8. CallsOK' /\ EditorWaits'
  BY <1>1, <1>2, UnmountedFields DEF Orderly, CallsOK, EditorWaits
<1>9. WrittenIsDraft'
  <2>1. ASSUME NEW g \in Fixtures, ~Safe(g)'
        PROVE  draft'[g] = written[g] /\ (studio'.selected = g => studio'.prompt = written[g])
    <3>1. ~Safe(g) /\ draft[g] = written[g]
          /\ (studio.selected = g => studio.prompt \in {Blank, written[g]})
      BY <1>1, <1>2, <2>1 DEF Safe, Orderly, WrittenIsDraft
    <3>2. g = f => text = written[g]
      BY <1>2, <1>3, <3>1
    <3> QED
      BY <1>1, <1>2, <1>6, <3>1, <3>2 DEF StudioTypeOK
  <2> QED
    BY <1>2, <2>1 DEF WrittenIsDraft
<1>10. ShownIsFetched' /\ OwnOnly'
  BY <1>1, <1>2, <1>6 DEF Orderly, ShownIsFetched, OwnOnly
<1> QED
  BY <1>7, <1>8, <1>9, <1>10 DEF StudioInv, Orderly

LEMMA TabStep ==
  ASSUME StudioInv, ~late, NEW tab \in {"input", "run", "prompt"}, OpenTab(tab)
  PROVE  StudioInv'
<1>1. StudioTypeOK /\ Orderly
  BY DEF StudioInv
<1>2. /\ studio' = [studio EXCEPT !.tab = tab] /\ calls' = Unmounted(calls)
      /\ UNCHANGED <<saved, copied, draft, asked, written, overwritten, late>>
  BY DEF OpenTab
<1>3. /\ studio' \in Studios /\ studio'.selected = studio.selected /\ studio'.shown = studio.shown
      /\ studio'.preview = studio.preview /\ studio'.prompt = studio.prompt
  BY <1>1, <1>2 DEF StudioTypeOK, Studios
<1>4. StudioTypeOK'
  BY <1>1, <1>2, <1>3, UnmountedFields DEF StudioTypeOK
<1>5. CallsOK' /\ EditorWaits'
  BY <1>1, <1>2, UnmountedFields DEF Orderly, CallsOK, EditorWaits
<1>6. ShownIsFetched' /\ OwnOnly' /\ WrittenIsDraft'
  BY <1>1, <1>2, <1>3 DEF Orderly, ShownIsFetched, OwnOnly, WrittenIsDraft, Safe
<1> QED
  BY <1>4, <1>5, <1>6 DEF StudioInv, Orderly

\* A text is put into the editor that is on the screen, which keeps it as the draft.
LEMMA TextEntered ==
  ASSUME StudioTypeOK, Orderly, Showing("prompt"), NEW text \in Texts,
         studio' = [studio EXCEPT !.prompt = text], draft' = Drafted(text),
         Wrote(studio.shown, text), UNCHANGED <<saved, copied>>
  PROVE  /\ studio' \in Studios /\ draft' \in [Fixtures -> Texts] /\ written' \in [Fixtures -> Texts]
         /\ ShownIsFetched' /\ OwnOnly' /\ WrittenIsDraft' /\ Showing("prompt")'
<1>1. studio.shown \in Fixtures /\ studio.selected = studio.shown
      /\ draft' = [draft EXCEPT ![studio.shown] = text]
      /\ written' = [written EXCEPT ![studio.shown] = text]
      /\ overwritten' = overwritten \ {studio.shown}
  BY DEF Showing, StudioTypeOK, Studios, Ids, Drafted, Wrote
<1>2. /\ studio' \in Studios /\ studio'.selected = studio.selected /\ studio'.shown = studio.shown
      /\ studio'.preview = studio.preview /\ studio'.prompt = text /\ studio'.tab = studio.tab
  BY DEF StudioTypeOK, Studios
<1>3. draft' \in [Fixtures -> Texts] /\ written' \in [Fixtures -> Texts]
  BY <1>1 DEF StudioTypeOK
<1>4. WrittenIsDraft'
  BY <1>1, <1>2 DEF Orderly, WrittenIsDraft, Safe, StudioTypeOK
<1> QED
  BY <1>2, <1>3, <1>4 DEF Orderly, ShownIsFetched, OwnOnly, Showing

LEMMA TypeTextStep ==
  ASSUME StudioInv, ~late, NEW text \in Texts, Type(text)
  PROVE  StudioInv'
<1>1. StudioTypeOK /\ Orderly
  BY DEF StudioInv
<1>2. /\ UNCHANGED <<saved, copied, calls, asked, late>>
      /\ studio' \in Studios /\ draft' \in [Fixtures -> Texts] /\ written' \in [Fixtures -> Texts]
      /\ ShownIsFetched' /\ OwnOnly' /\ WrittenIsDraft' /\ Showing("prompt")'
  BY <1>1, TextEntered DEF Type
<1>3. StudioTypeOK'
  BY <1>1, <1>2 DEF StudioTypeOK
<1>4. CallsOK' /\ EditorWaits'
  BY <1>1, <1>2 DEF Orderly, CallsOK, EditorWaits
<1> QED
  BY <1>2, <1>3, <1>4 DEF StudioInv, Orderly

LEMMA ReloadStep ==
  ASSUME StudioInv, ~late, ReloadPage
  PROVE  StudioInv'
<1> DEFINE Unwaited(c) == [c EXCEPT !.mounted = FALSE, !.page = FALSE]
<1>1. StudioTypeOK /\ Orderly
  BY DEF StudioInv
<1>2. PICK p \in Ids, tab \in {"input", "prompt"} : studio' = Landing(p, tab)
  BY Zenon DEF ReloadPage, Ids
<1>3. /\ studio' \in Studios /\ studio'.selected = p /\ studio'.shown = Blank
      /\ studio'.prompt = Blank /\ studio'.preview = Blank
  BY <1>2 DEF Landing, Studios, Ids, Texts
<1>4. /\ copied' = [f \in Fixtures |-> Blank]
      /\ calls' = [n \in DOMAIN calls |-> Unwaited(calls[n])]
      /\ UNCHANGED <<saved, draft, asked, written, overwritten, late>>
  BY Zenon DEF ReloadPage
<1> HIDE DEF Unwaited
<1>5. ASSUME NEW n \in 1 .. MaxAsked
      PROVE  calls'[n] \in Calls /\ ~calls'[n].mounted /\ CallOK(calls'[n])
  <2> DEFINE c == calls[n]
             d == [c EXCEPT !.mounted = FALSE]
             e == [d EXCEPT !.page = FALSE]
  <2> HIDE DEF e
  <2>1. c \in Calls /\ CallOK(c) /\ calls'[n] = Unwaited(c)
    BY <1>1, <1>4 DEF StudioTypeOK, Orderly, CallsOK
  <2> USE DEF e
  <2>9. Unwaited(c) = e
    BY DEF Unwaited
  <2> HIDE DEF c
  <2>2. d \in Calls /\ d.kind = c.kind /\ d.for = c.for /\ d.text = c.text /\ d.of = c.of
        /\ d.then = c.then
    BY <2>1 DEF Calls
  <2>3. ~d.mounted
    BY <2>1, Zenon DEF Calls
  <2> HIDE DEF d
  <2>4. e \in Calls /\ e.kind = c.kind /\ e.for = c.for /\ e.text = c.text /\ e.of = c.of
        /\ e.then = c.then
    BY <2>2 DEF Calls
  <2>5. ~e.mounted
    BY <2>2, <2>3 DEF Calls
  <2> HIDE DEF e
  <2> QED
    BY <2>1, <2>4, <2>5, <2>9 DEF CallOK
<1>6. calls' = [n \in 1 .. MaxAsked |-> calls'[n]]
  BY <1>1, <1>4 DEF StudioTypeOK
<1>7. StudioTypeOK'
  BY <1>1, <1>3, <1>4, <1>5, <1>6 DEF StudioTypeOK
<1>8. ShownIsFetched' /\ OwnOnly' /\ WrittenIsDraft'
  BY <1>1, <1>3, <1>4 DEF Orderly, ShownIsFetched, OwnOnly, WrittenIsDraft, Safe
<1> QED
  BY <1>5, <1>7, <1>8 DEF StudioInv, Orderly, CallsOK, EditorWaits

\* A call is sent.
LEMMA AskStep ==
  ASSUME StudioInv, ~late, NEW f \in Fixtures, NEW text \in Texts, NEW of \in Ids,
         NEW kind \in {"meta", "run", "savePrompt", "savePreview", "saveInput", "newCase", "delete"},
         Ask(kind, f, text, of), kind = "meta" => Showing("prompt"),
         kind = "saveInput" => studio.selected = f /\ text = copied[f].prompt,
         kind # "delete" => of \in {Blank, f}
  PROVE  StudioInv'
<1> DEFINE c == [kind |-> kind, for |-> f, text |-> text, of |-> of, seen |-> studio.prompt,
                 then |-> saved[f], mounted |-> TRUE, page |-> TRUE]
           n == asked + 1
<1>1. StudioTypeOK /\ Orderly
  BY DEF StudioInv
<1>2. /\ n \in 1 .. MaxAsked /\ asked' = n /\ calls' = [calls EXCEPT ![n] = c]
      /\ UNCHANGED <<saved, copied, draft, studio, written, overwritten>>
      /\ late' = (late \/ (studio.selected = f /\ copied[f] # saved[f]))
  BY <1>1, StudioDraftAssumption DEF Ask, StudioTypeOK
<1>3. c \in Calls /\ c.kind = kind /\ c.for = f /\ c.text = text /\ c.of = of /\ c.then = saved[f]
  BY <1>1 DEF Calls, StudioTypeOK, Studios, Ids
<1> HIDE DEF c, n
<1>4. calls' \in [1 .. MaxAsked -> Calls] /\ late' \in BOOLEAN /\ asked' \in Nat
  BY <1>1, <1>2, <1>3 DEF StudioTypeOK
<1>5. StudioTypeOK'
  BY <1>1, <1>2, <1>4 DEF StudioTypeOK
<1>6. ASSUME ~late'
      PROVE  CallOK(c)
  <2>1. studio.selected = f => saved[f] = copied[f]
    BY <1>2, <1>6
  <2>2. kind = "saveInput" => c.text = c.then.prompt
    BY <1>3, <2>1
  <2>3. kind \in {"run", "savePrompt", "savePreview", "saveInput", "newCase"} => of \in {Blank, f}
    OBVIOUS
  <2> QED
    BY <1>3, <2>2, <2>3 DEF CallOK
<1>7. ~late' => CallsOK' /\ EditorWaits'
  BY <1>1, <1>2, <1>3, <1>6 DEF Orderly, CallsOK, EditorWaits, StudioTypeOK, Showing
<1>8. ShownIsFetched' /\ OwnOnly' /\ WrittenIsDraft'
  BY <1>1, <1>2 DEF Orderly, ShownIsFetched, OwnOnly, WrittenIsDraft, Safe
<1> QED
  BY <1>5, <1>7, <1>8 DEF StudioInv, Orderly

LEMMA AsksStep ==
  ASSUME StudioInv, ~late,
         \/ AskMeta \/ AskRun \/ AskSavePrompt \/ AskSavePreview \/ AskSaveInput
         \/ \E f \in Fixtures : AskNewCase(f) \/ AskDelete(f)
  PROVE  StudioInv'
<1>1. /\ StudioTypeOK /\ Orderly /\ studio.prompt \in Texts /\ Blank \in Ids /\ Blank \in Texts
      /\ studio.selected \in Ids /\ studio.preview \in {Blank, studio.selected}
  BY DEF StudioInv, StudioTypeOK, Studios, Ids, Texts, Orderly, OwnOnly
<1>2. ASSUME NEW tab, Showing(tab)
      PROVE  /\ studio.shown \in Fixtures /\ studio.selected = studio.shown
             /\ copied[studio.shown].prompt \in Texts
             /\ copied[studio.shown].of \in {Blank, studio.shown}
  BY <1>1, <1>2 DEF Showing, Orderly, ShownIsFetched, OwnOnly, StudioTypeOK, Studios, Ids, Stored
<1>3. CASE AskMeta
  BY <1>1, <1>2, <1>3, AskStep DEF AskMeta
<1>4. CASE AskRun
  BY <1>1, <1>2, <1>4, AskStep DEF AskRun
<1>5. CASE AskSavePrompt
  BY <1>1, <1>2, <1>5, AskStep DEF AskSavePrompt, Ids
<1>6. CASE AskSavePreview
  BY <1>1, <1>2, <1>6, AskStep DEF AskSavePreview, Ids
<1>7. CASE AskSaveInput
  BY <1>1, <1>2, <1>7, AskStep DEF AskSaveInput, Ids
<1>8. ASSUME NEW f \in Fixtures, AskNewCase(f) PROVE StudioInv'
  BY <1>1, <1>8, AskStep DEF AskNewCase, Ids
<1>9. ASSUME NEW f \in Fixtures, AskDelete(f) PROVE StudioInv'
  BY <1>1, <1>9, AskStep DEF AskDelete
<1> QED
  BY <1>3, <1>4, <1>5, <1>6, <1>7, <1>8, <1>9

\* A call is over, and the tabs may be left.
LEMMA CallEnded ==
  ASSUME StudioTypeOK, Orderly, NEW n \in 1 .. MaxAsked, NEW cs \in {calls, Unmounted(calls)},
         calls' = [cs EXCEPT ![n] = AtRest]
  PROVE  /\ calls' \in [1 .. MaxAsked -> Calls] /\ CallsOK'
         /\ \A m \in 1 .. MaxAsked : calls'[m].mounted => cs = calls /\ calls'[m] = calls[m]
<1>1. /\ cs \in [1 .. MaxAsked -> Calls]
      /\ \A m \in 1 .. MaxAsked : CallOK(cs[m]) /\ (cs[m].mounted => cs = calls)
  <2>1. /\ Unmounted(calls) \in [1 .. MaxAsked -> Calls]
        /\ \A m \in 1 .. MaxAsked : CallOK(Unmounted(calls)[m]) /\ ~Unmounted(calls)[m].mounted
    BY UnmountedFields DEF Orderly, CallsOK
  <2>2. calls \in [1 .. MaxAsked -> Calls] /\ \A m \in 1 .. MaxAsked : CallOK(calls[m])
    BY DEF StudioTypeOK, Orderly, CallsOK
  <2> QED
    BY <2>1, <2>2
<1>2. calls' \in [1 .. MaxAsked -> Calls]
  BY <1>1, AtRestType
<1>3. \A m \in 1 .. MaxAsked : calls'[m] = IF m = n THEN AtRest ELSE cs[m]
  BY <1>1
<1>4. CallsOK'
  BY <1>1, <1>3, AtRestType DEF CallsOK
<1> QED
  BY <1>1, <1>2, <1>3, <1>4, AtRestType

\* What the server is given is of the fixture, whose text is then the last.
LEMMA StoredFields ==
  ASSUME StudioTypeOK, CallsOK, NEW n \in 1 .. MaxAsked, Store(n),
         calls[n].kind \in {"savePrompt", "savePreview", "saveInput", "newCase"}
  PROVE  LET f == calls[n].for
         IN  /\ f \in Fixtures /\ saved' \in [Fixtures -> Stored \cup {Blank}]
             /\ saved'[f] # Blank /\ saved'[f].of \in {Blank, f} /\ saved'[f].prompt = calls[n].text
             /\ calls[n].text \in Texts
             /\ \A g \in Fixtures \ {f} : saved'[g] = saved[g]
<1> DEFINE c == calls[n]
           k == Kept(c.text, c.of)
<1>1. c \in Calls /\ c.for \in Fixtures /\ c.of \in {Blank, c.for}
  BY DEF StudioTypeOK, CallsOK, CallOK
<1>2. k \in Stored /\ k.prompt = c.text /\ k.of = c.of
  BY <1>1 DEF Kept, Stored, Calls
<1>3. k # Blank
  BY <1>2, StudioDraftAssumption DEF Stored, Texts, Ids
<1>4. saved' = [saved EXCEPT ![c.for] = k]
  BY DEF Store
<1>5. c.text \in Texts
  BY <1>1 DEF Calls
<1> HIDE DEF k, c
<1>6. saved' \in [Fixtures -> Stored \cup {Blank}] /\ saved'[c.for] = k
      /\ \A g \in Fixtures \ {c.for} : saved'[g] = saved[g]
  BY <1>1, <1>2, <1>4 DEF StudioTypeOK
<1> QED
  BY <1>1, <1>2, <1>3, <1>5, <1>6 DEF c

\* An answer that is not late finds what was there when the call was sent.
LEMMA InTime ==
  ASSUME NEW n \in 1 .. MaxAsked, ~MovedOn(calls[n])
  PROVE  /\ saved[calls[n].for] = calls[n].then
         /\ calls[n].page /\ calls[n].kind = "meta" => calls[n].mounted
         /\ calls[n].page /\ calls[n].kind = "run" => studio.selected = calls[n].for
BY DEF MovedOn

LEMMA MetaStep ==
  ASSUME StudioInv, ~late, NEW n \in 1 .. MaxAsked, MetaAnswers(n)
  PROVE  StudioInv'
<1>1. StudioTypeOK /\ Orderly /\ Showing("prompt") \in BOOLEAN
  BY DEF StudioInv, Showing
<1>2. /\ calls' = [calls EXCEPT ![n] = AtRest] /\ late' = (late \/ MovedOn(calls[n]))
      /\ UNCHANGED <<saved, copied, asked>> /\ calls[n].kind = "meta"
  BY DEF MetaAnswers, CallOver
<1>3. /\ calls' \in [1 .. MaxAsked -> Calls] /\ CallsOK'
      /\ \A m \in 1 .. MaxAsked : calls'[m].mounted => calls'[m] = calls[m]
  BY <1>1, <1>2, CallEnded
<1>4. late' \in BOOLEAN
  BY <1>2, Zenon DEF MovedOn
<1>5. CASE ~calls[n].page
  <2>1. UNCHANGED <<studio, draft, written, overwritten>>
    BY <1>5 DEF MetaAnswers
  <2>2. StudioTypeOK'
    BY <1>1, <1>2, <1>3, <1>4, <2>1 DEF StudioTypeOK
  <2>3. ShownIsFetched' /\ OwnOnly' /\ WrittenIsDraft' /\ EditorWaits'
    BY <1>1, <1>2, <1>3, <2>1
       DEF Orderly, ShownIsFetched, OwnOnly, WrittenIsDraft, EditorWaits, Safe, Showing
  <2> QED
    BY <1>3, <2>2, <2>3 DEF StudioInv, Orderly
<1>6. CASE calls[n].page /\ Showing("prompt")
  <2>1. PICK text \in Prompts :
             /\ studio' = [studio EXCEPT !.prompt = text] /\ draft' = Drafted(text)
             /\ Wrote(studio.shown, text)
    BY <1>6 DEF MetaAnswers
  <2>2. text \in Texts
    BY DEF Texts
  <2>3. /\ studio' \in Studios /\ draft' \in [Fixtures -> Texts] /\ written' \in [Fixtures -> Texts]
        /\ ShownIsFetched' /\ OwnOnly' /\ WrittenIsDraft' /\ Showing("prompt")'
    BY <1>1, <1>2, <1>6, <2>1, <2>2, TextEntered
  <2>4. StudioTypeOK'
    BY <1>1, <1>2, <1>3, <1>4, <2>3 DEF StudioTypeOK
  <2>5. EditorWaits'
    BY <2>3 DEF EditorWaits
  <2> QED
    BY <1>3, <2>3, <2>4, <2>5 DEF StudioInv, Orderly
<1>7. CASE calls[n].page /\ ~Showing("prompt")
  <2>1. PICK text \in Prompts :
             /\ studio' = [studio EXCEPT !.prompt = text]
             /\ UNCHANGED <<draft, written, overwritten>>
    BY <1>7 DEF MetaAnswers, Drafted
  <2>2. studio' \in Studios
    BY <1>1, <2>1 DEF StudioTypeOK, Studios, Texts
  <2>3. late'
    BY <1>1, <1>2, <1>7, InTime DEF Orderly, EditorWaits
  <2>4. StudioTypeOK'
    BY <1>1, <1>2, <1>3, <1>4, <2>1, <2>2 DEF StudioTypeOK
  <2> QED
    BY <2>3, <2>4 DEF StudioInv
<1> QED
  BY <1>1, <1>5, <1>6, <1>7

LEMMA RunStep ==
  ASSUME StudioInv, ~late, NEW n \in 1 .. MaxAsked, RunAnswers(n)
  PROVE  StudioInv'
<1>1. StudioTypeOK /\ Orderly
  BY DEF StudioInv
<1>2. /\ calls' = [calls EXCEPT ![n] = AtRest] /\ late' = (late \/ MovedOn(calls[n]))
      /\ UNCHANGED <<saved, copied, draft, asked, written, overwritten>> /\ calls[n].kind = "run"
  BY DEF RunAnswers, CallOver
<1>3. /\ calls' \in [1 .. MaxAsked -> Calls] /\ CallsOK'
      /\ \A m \in 1 .. MaxAsked : calls'[m].mounted => calls'[m] = calls[m]
  BY <1>1, <1>2, CallEnded
<1>4. late' \in BOOLEAN
  BY <1>2, Zenon DEF MovedOn
<1>5. calls[n].of \in {Blank, calls[n].for} /\ calls[n].of \in Ids /\ Blank \in Ids
  BY <1>1, <1>2 DEF Orderly, CallsOK, CallOK, StudioTypeOK, Calls, Ids
<1>6. /\ studio' \in Studios /\ studio'.selected = studio.selected /\ studio'.shown = studio.shown
      /\ studio'.tab = studio.tab /\ studio'.prompt = studio.prompt
      /\ ~late' => studio'.preview \in {Blank, studio.selected}
  <2>1. CASE calls[n].page
    <3>1. PICK of \in {calls[n].of, Blank} : studio' = [studio EXCEPT !.preview = of]
      BY <2>1 DEF RunAnswers
    <3>2. ~late' => of \in {Blank, studio.selected}
      BY <1>2, <1>5, <2>1, InTime
    <3> QED
      BY <1>1, <1>5, <3>1, <3>2 DEF StudioTypeOK, Studios
  <2>2. CASE ~calls[n].page
    <3>1. studio' = studio
      BY <2>2 DEF RunAnswers
    <3> QED
      BY <1>1, <3>1 DEF StudioTypeOK, Orderly, OwnOnly
  <2> QED
    BY <2>1, <2>2
<1>7. StudioTypeOK'
  BY <1>1, <1>2, <1>3, <1>4, <1>6 DEF StudioTypeOK
<1>8. ~late' => ShownIsFetched' /\ OwnOnly' /\ WrittenIsDraft' /\ EditorWaits'
  BY <1>1, <1>2, <1>3, <1>6
     DEF Orderly, ShownIsFetched, OwnOnly, WrittenIsDraft, EditorWaits, Safe, Showing
<1> QED
  BY <1>3, <1>7, <1>8 DEF StudioInv, Orderly

LEMMA SaveOfTextStep ==
  ASSUME StudioInv, ~late, NEW n \in 1 .. MaxAsked, PromptSaved(n) \/ PreviewSaved(n)
  PROVE  StudioInv'
<1>1. PICK f : f = calls[n].for
  OBVIOUS
<1>2. StudioTypeOK /\ Orderly /\ CallsOK
  BY DEF StudioInv, Orderly
<1>3. /\ calls' = [calls EXCEPT ![n] = AtRest] /\ late' = (late \/ MovedOn(calls[n]))
      /\ UNCHANGED <<copied, asked>> /\ Store(n) /\ KeepsText(n)
      /\ calls[n].kind \in {"savePrompt", "savePreview"}
  BY DEF PromptSaved, PreviewSaved, CallOver
<1>4. /\ calls' \in [1 .. MaxAsked -> Calls] /\ CallsOK'
      /\ \A m \in 1 .. MaxAsked : calls'[m].mounted => calls'[m] = calls[m]
  BY <1>2, <1>3, CallEnded
<1>5. late' \in BOOLEAN
  BY <1>3, Zenon DEF MovedOn
<1>6. /\ f \in Fixtures /\ saved' \in [Fixtures -> Stored \cup {Blank}]
      /\ saved'[f] # Blank /\ saved'[f].of \in {Blank, f} /\ saved'[f].prompt = calls[n].text
      /\ calls[n].text \in Texts
      /\ \A g \in Fixtures \ {f} : saved'[g] = saved[g]
  BY <1>1, <1>2, <1>3, StoredFields
<1>7. written' \in [Fixtures -> Texts] /\ written'[f] = calls[n].text
      /\ \A g \in Fixtures \ {f} : written'[g] = written[g]
      /\ overwritten' = overwritten \ {f}
  BY <1>1, <1>2, <1>3, <1>6 DEF KeepsText, Wrote, StudioTypeOK
<1>8. draft' \in [Fixtures -> Texts] /\ \A g \in Fixtures \ {f} : draft'[g] = draft[g]
  <2>1. draft' = draft \/ draft' = [draft EXCEPT ![f] = Blank]
    BY <1>1 DEF PromptSaved, PreviewSaved
  <2> QED
    BY <1>2, <2>1 DEF StudioTypeOK, Texts
<1>9. /\ studio' \in Studios /\ studio'.selected = studio.selected /\ studio'.shown = studio.shown
      /\ studio'.tab = studio.tab /\ studio'.prompt = studio.prompt
      /\ studio'.preview \in {Blank, studio.preview}
  <2>1. studio' = studio \/ studio' = [studio EXCEPT !.preview = Blank]
    BY <1>1 DEF PromptSaved, PreviewSaved
  <2> QED
    BY <1>2, <2>1 DEF StudioTypeOK, Studios, Ids
<1>10. StudioTypeOK'
  BY <1>2, <1>3, <1>4, <1>5, <1>6, <1>7, <1>8, <1>9 DEF StudioTypeOK
<1>11. WrittenIsDraft'
  <2>1. Safe(f)' /\ \A g \in Fixtures \ {f} : Safe(g) => Safe(g)'
    BY <1>6, <1>7 DEF Safe
  <2> QED
    BY <1>2, <1>7, <1>8, <1>9, <2>1 DEF Orderly, WrittenIsDraft
<1>12. ShownIsFetched' /\ OwnOnly' /\ EditorWaits'
  BY <1>2, <1>3, <1>4, <1>6, <1>9 DEF Orderly, ShownIsFetched, OwnOnly, EditorWaits, Showing
<1> QED
  BY <1>4, <1>10, <1>11, <1>12 DEF StudioInv, Orderly

LEMMA InputStep ==
  ASSUME StudioInv, ~late, NEW n \in 1 .. MaxAsked, InputSaved(n)
  PROVE  StudioInv'
<1> DEFINE f == calls[n].for
<1>1. StudioTypeOK /\ Orderly /\ CallsOK
  BY DEF StudioInv, Orderly
<1>2. /\ calls' = [calls EXCEPT ![n] = AtRest] /\ late' = (late \/ MovedOn(calls[n]))
      /\ UNCHANGED <<copied, draft, studio, asked, written, overwritten>> /\ Store(n)
      /\ calls[n].kind = "saveInput"
  BY DEF InputSaved, CallOver
<1>3. /\ calls' \in [1 .. MaxAsked -> Calls] /\ CallsOK'
      /\ \A m \in 1 .. MaxAsked : calls'[m].mounted => calls'[m] = calls[m]
  BY <1>1, <1>2, CallEnded
<1>4. late' \in BOOLEAN
  BY <1>2, Zenon DEF MovedOn
<1>5. /\ f \in Fixtures /\ saved' \in [Fixtures -> Stored \cup {Blank}]
      /\ saved'[f] # Blank /\ saved'[f].of \in {Blank, f} /\ saved'[f].prompt = calls[n].text
      /\ \A g \in Fixtures \ {f} : saved'[g] = saved[g]
  BY <1>1, <1>2, StoredFields
<1>6. ~late' => calls[n].text = saved[f].prompt
  BY <1>1, <1>2, InTime DEF CallsOK, CallOK
<1> HIDE DEF f
<1>7. StudioTypeOK'
  BY <1>1, <1>2, <1>3, <1>4, <1>5 DEF StudioTypeOK
<1>8. ~late' => WrittenIsDraft'
  <2>1. ~late' => \A g \in Fixtures : Safe(g) => Safe(g)'
    BY <1>2, <1>5, <1>6 DEF Safe
  <2> QED
    BY <1>1, <1>2, <2>1 DEF Orderly, WrittenIsDraft
<1>9. ShownIsFetched' /\ OwnOnly' /\ EditorWaits'
  BY <1>1, <1>2, <1>3, <1>5 DEF Orderly, ShownIsFetched, OwnOnly, EditorWaits, Showing
<1> QED
  BY <1>3, <1>7, <1>8, <1>9 DEF StudioInv, Orderly

\* A case is made or deleted, and the page may go to it or leave it.
LEMMA CaseStep ==
  ASSUME StudioInv, ~late, NEW n \in 1 .. MaxAsked, NewCaseMade(n) \/ CaseDeleted(n)
  PROVE  StudioInv'
<1>1. PICK f : f = calls[n].for
  OBVIOUS
<1>2. StudioTypeOK /\ Orderly /\ CallsOK
  BY DEF StudioInv, Orderly
<1>3. /\ late' = (late \/ MovedOn(calls[n])) /\ UNCHANGED <<copied, asked>>
      /\ calls[n].kind \in {"newCase", "delete"} /\ written' = [written EXCEPT ![f] = Blank]
  BY <1>1 DEF NewCaseMade, CaseDeleted
<1>4. late' \in BOOLEAN
  BY <1>3, Zenon DEF MovedOn
<1>5. /\ f \in Fixtures /\ saved' \in [Fixtures -> Stored \cup {Blank}]
      /\ saved'[f] # Blank => saved'[f].of \in {Blank, f}
      /\ \A g \in Fixtures \ {f} : saved'[g] = saved[g]
  <2>1. CASE NewCaseMade(n)
    BY <1>1, <1>2, <2>1, StoredFields DEF NewCaseMade
  <2>2. CASE CaseDeleted(n)
    <3>1. f \in Fixtures
      BY <1>1, <1>2, <1>3 DEF CallsOK, CallOK
    <3>2. saved' = [saved EXCEPT ![f] = Blank]
      BY <1>1, <2>2 DEF CaseDeleted
    <3> QED
      BY <1>2, <3>1, <3>2 DEF StudioTypeOK
  <2> QED
    BY <2>1, <2>2
<1>6. PICK cs \in {calls, Unmounted(calls)}, p \in Ids :
           /\ calls' = [cs EXCEPT ![n] = AtRest] /\ p \in {Blank, f}
           /\ \/ cs = calls /\ UNCHANGED <<studio, draft, overwritten>>
              \/ cs = Unmounted(calls) /\ Renders(Reset(studio, p), copied)
  <2>1. Blank \in Ids /\ f \in Ids
    BY <1>5 DEF Ids
  <2>2. CASE NewCaseMade(n)
    BY <1>1, <2>1, <2>2, Zenon DEF NewCaseMade
  <2>3. CASE CaseDeleted(n)
    BY <1>1, <2>1, <2>3, Zenon DEF CaseDeleted
  <2> QED
    BY <2>2, <2>3
<1>7. /\ calls' \in [1 .. MaxAsked -> Calls] /\ CallsOK'
      /\ \A m \in 1 .. MaxAsked : calls'[m].mounted => cs = calls /\ calls'[m] = calls[m]
  BY <1>2, <1>6, CallEnded
<1>8. /\ written' \in [Fixtures -> Texts] /\ Safe(f)'
      /\ \A g \in Fixtures \ {f} : written'[g] = written[g]
  BY <1>2, <1>3, <1>5 DEF StudioTypeOK, Safe, Texts
<1>9. CASE cs = Unmounted(calls) /\ Renders(Reset(studio, p), copied)
  <2>1. /\ studio' \in Studios /\ studio'.selected = p /\ studio'.preview = Blank
        /\ studio'.shown # Blank => copied[studio'.shown] # Blank
        /\ draft' \in [Fixtures -> Texts]
        /\ \A g \in Fixtures :
              \/ g \in overwritten'
              \/ /\ g \notin overwritten
                 /\ draft[g] # Blank => /\ draft'[g] = draft[g]
                                        /\ p = g => studio'.prompt \in {Blank, draft[g]}
    BY <1>2, <1>9, Moved
  <2>2. StudioTypeOK'
    BY <1>2, <1>3, <1>4, <1>5, <1>7, <1>8, <2>1 DEF StudioTypeOK
  <2>3. WrittenIsDraft'
    BY <1>2, <1>3, <1>5, <1>8, <2>1 DEF Orderly, WrittenIsDraft, Safe
  <2>4. EditorWaits'
    <3>1. ASSUME NEW m \in 1 .. MaxAsked, calls'[m].kind = "meta", calls'[m].mounted
          PROVE  Showing("prompt")'
      <4>1. Unmounted(calls) = calls /\ calls'[m] = calls[m]
        BY <1>7, <1>9, <3>1
      <4> QED
        BY <1>2, <3>1, <4>1, UnmountedFields
    <3> QED
      BY <3>1 DEF EditorWaits
  <2>5. ShownIsFetched' /\ OwnOnly'
    BY <1>2, <1>3, <1>5, <2>1 DEF Orderly, ShownIsFetched, OwnOnly
  <2> QED
    BY <1>7, <2>2, <2>3, <2>4, <2>5 DEF StudioInv, Orderly
<1>10. CASE cs = calls /\ UNCHANGED <<studio, draft, overwritten>>
  <2>1. StudioTypeOK'
    BY <1>2, <1>3, <1>4, <1>5, <1>7, <1>8, <1>10 DEF StudioTypeOK
  <2>2. WrittenIsDraft'
    BY <1>2, <1>3, <1>5, <1>8, <1>10 DEF Orderly, WrittenIsDraft, Safe
  <2>3. ShownIsFetched' /\ OwnOnly' /\ EditorWaits'
    BY <1>2, <1>3, <1>5, <1>7, <1>10 DEF Orderly, ShownIsFetched, OwnOnly, EditorWaits, Showing
  <2> QED
    BY <1>7, <2>1, <2>2, <2>3 DEF StudioInv, Orderly
<1> QED
  BY <1>6, <1>9, <1>10

LEMMA FailStep ==
  ASSUME StudioInv, ~late, NEW n \in 1 .. MaxAsked, CallFails(n)
  PROVE  StudioInv'
<1>1. StudioTypeOK /\ Orderly
  BY DEF StudioInv
<1>2. /\ calls' = [calls EXCEPT ![n] = AtRest]
      /\ UNCHANGED <<saved, copied, draft, studio, asked, written, overwritten, late>>
  BY DEF CallFails
<1>3. /\ calls' \in [1 .. MaxAsked -> Calls] /\ CallsOK'
      /\ \A m \in 1 .. MaxAsked : calls'[m].mounted => calls'[m] = calls[m]
  BY <1>1, <1>2, CallEnded
<1>4. StudioTypeOK'
  BY <1>1, <1>2, <1>3 DEF StudioTypeOK
<1>5. ShownIsFetched' /\ OwnOnly' /\ WrittenIsDraft' /\ EditorWaits'
  BY <1>1, <1>2, <1>3
     DEF Orderly, ShownIsFetched, OwnOnly, WrittenIsDraft, EditorWaits, Safe, Showing
<1> QED
  BY <1>3, <1>4, <1>5 DEF StudioInv, Orderly

LEMMA StudioStep ==
  ASSUME StudioInv, [StudioNext]_studioVars
  PROVE  StudioInv'
<1>1. CASE UNCHANGED studioVars
  BY <1>1 DEF studioVars, StudioInv, StudioTypeOK, Orderly, ShownIsFetched, CallsOK, EditorWaits,
              OwnOnly, WrittenIsDraft, Safe, Showing
<1>2. CASE ~late /\ PersonActs
  <2>1. CASE Deselect
    BY <1>2, <2>1, SelectStep DEF Deselect, Ids
  <2>2. CASE OpenEditor
    BY <1>2, <2>2, EditorStep
  <2>3. CASE ReloadPage
    BY <1>2, <2>3, ReloadStep
  <2>4. ASSUME NEW f \in Fixtures, Choose(f)
        PROVE  StudioInv'
    BY <1>2, <2>4, SelectStep DEF Choose, Ids
  <2>5. ASSUME NEW f \in Fixtures, FetchDetail(f)
        PROVE  StudioInv'
    BY <1>2, <2>5, FetchStep
  <2>6. ASSUME NEW tab \in {"input", "run", "prompt"}, OpenTab(tab)
        PROVE  StudioInv'
    BY <1>2, <2>6, TabStep
  <2>7. ASSUME NEW text \in Prompts \cup {Blank}, Type(text)
        PROVE  StudioInv'
    BY <1>2, <2>7, TypeTextStep DEF Texts
  <2>8. CASE \/ AskMeta \/ AskRun \/ AskSavePrompt \/ AskSavePreview \/ AskSaveInput
             \/ \E f \in Fixtures : AskNewCase(f) \/ AskDelete(f)
    BY <1>2, <2>8, AsksStep
  <2> QED
    BY <1>2, <2>1, <2>2, <2>3, <2>4, <2>5, <2>6, <2>7, <2>8 DEF PersonActs
<1>3. CASE ~late /\ CallEnds
  <2>1. DOMAIN calls = 1 .. MaxAsked
    BY DEF StudioInv, StudioTypeOK
  <2>2. PICK n \in 1 .. MaxAsked :
             \/ MetaAnswers(n) \/ RunAnswers(n) \/ PromptSaved(n) \/ PreviewSaved(n)
             \/ InputSaved(n) \/ NewCaseMade(n) \/ CaseDeleted(n) \/ CallFails(n)
    BY <1>3, <2>1 DEF CallEnds
  <2> QED
    BY <1>3, <2>2, MetaStep, RunStep, SaveOfTextStep, InputStep, CaseStep, FailStep
<1> QED
  BY <1>1, <1>2, <1>3 DEF StudioNext

LEMMA StudioKeeps == StudioInv => ExpectationIsOwn /\ DraftsAreKept
<1> SUFFICES ASSUME StudioInv, ~late PROVE ExpectationIsOwn /\ DraftsAreKept
  BY DEF ExpectationIsOwn, DraftsAreKept
<1>1. StudioTypeOK /\ OwnOnly /\ WrittenIsDraft
  BY DEF StudioInv, Orderly
<1> QED
  BY <1>1 DEF ExpectationIsOwn, DraftsAreKept, OwnOnly, WrittenIsDraft, Safe, StudioTypeOK

-----------------------------------------------------------------------------
(***************************************************************************)
(* The parts together.                                                     *)
(***************************************************************************)

\* Whatever the parts of the server and its pages do, the studio keeps its word: an
\* open-ended map is never forced on a model and {} not taken from it untried, an
\* expectation was run for its fixture, and a written prompt is in the editor, the draft
\* or the fixture, unless its editor was opened before the fixture had come, as long as
\* no call met what had changed meanwhile (router.py run_with_arbitrary_prompt,
\* OracleReviewPage.tsx).
THEOREM StudioCorrect == Spec => []StudioKeepsItsWord
<1> DEFINE Inv == OracleInv /\ StudioInv
           vars == <<part, scoringVars, promptVars, configVars, archiveVars, mirrorVars,
                     oracleVars, cacheVars, studioVars>>
<1>1. Init => Inv
  BY OracleInitial, StudioInitial DEF Init
<1>2. Inv /\ [Next]_vars => Inv'
  <2>1. [Next]_vars => [OracleNext]_oracleVars /\ [StudioNext]_studioVars
    BY Zenon DEF Next, OthersRest
  <2> QED
    BY <2>1, OracleStep, StudioStep
<1>3. Inv => StudioKeepsItsWord
  BY OracleKeeps, StudioKeeps DEF StudioKeepsItsWord
<1> QED
  BY <1>1, <1>2, <1>3, PTL DEF Spec

-----------------------------------------------------------------------------
(***************************************************************************)
(* The history of runs.                                                    *)
(***************************************************************************)
Batches == Nat \cup {Alone}
Lines   == [run : Nat, at : Nat, batch : Batches]
Posts   == [batch : Batches, runs : Seq(Nat)]

ArchiveTypeOK ==
    /\ started \in Seq(Batches)
    /\ underway \subseteq DOMAIN started
    /\ posting \in Posts
    /\ records \in [memory : SUBSET Posts, kv : SUBSET Posts]
    /\ history \in Seq(Lines) /\ cut \in BOOLEAN
    /\ clock \in Nat /\ full \in Nat

\* The lines tell of runs that finished, each once, in the order they did.
LinesInOrder ==
    \A i \in DOMAIN history :
        /\ history[i].run \in DOMAIN started \ underway
        /\ history[i].batch = started[history[i].run]
        /\ history[i].at <= clock
        /\ \A j \in DOMAIN history :
               i < j => history[i].run # history[j].run /\ history[i].at <= history[j].at

Names(p, b) == p.batch = b /\ \A k \in DOMAIN started : started[k] = b => k \in ToSet(p.runs)

\* A batch is named after its first run, and its POST knows the runs it has started.
BatchesAreNamed ==
    /\ \A k \in DOMAIN started : started[k] # Alone => started[k] \in 1 .. k
    /\ posting # NoPost => posting.batch \in 1 .. Len(started) /\ Names(posting, posting.batch)

\* The runs of a batch are known to its POST, and then to its record.
BatchesAreKept ==
    \A k \in DOMAIN started : started[k] # Alone =>
        \/ Names(posting, started[k])
        \/ started[k] \in broken
        \/ \E p \in records.kv : Names(p, started[k])

\* As long as nothing failed to be written, each finished run is in both files.
FilesAgree ==
    full = 0 => ~cut /\ (history # <<>> => lastRun = history[Len(history)].run)

ArchiveInv ==
    ArchiveTypeOK /\ LinesInOrder /\ BatchesAreNamed /\ BatchesAreKept /\ FilesAgree

LEMMA ArchiveInitial == ArchiveInit => ArchiveInv
<1> SUFFICES ASSUME ArchiveInit PROVE ArchiveInv
  OBVIOUS
<1> USE RunArchiveAssumption
<1>1. /\ started = <<>> /\ underway = {} /\ posting = NoPost /\ records = NoRecords
      /\ history = <<>> /\ cut = FALSE /\ clock = 0 /\ full = 0
  BY DEF ArchiveInit
<1>2. DOMAIN <<>> = {}
  OBVIOUS
<1>3. NoPost \in Posts /\ NoRecords \in [memory : SUBSET Posts, kv : SUBSET Posts]
  BY DEF NoPost, NoRecords, Posts, Batches
<1>4. ArchiveTypeOK
  <2>1. started \in Seq(Batches) /\ history \in Seq(Lines) /\ underway \subseteq DOMAIN started
    BY <1>1
  <2>2. /\ posting \in Posts /\ records \in [memory : SUBSET Posts, kv : SUBSET Posts]
        /\ cut \in BOOLEAN /\ clock \in Nat /\ full \in Nat
    BY <1>1, <1>3
  <2>3. QED  BY <2>1, <2>2 DEF ArchiveTypeOK
<1>5. LinesInOrder /\ BatchesAreKept
  BY <1>1, <1>2 DEF LinesInOrder, BatchesAreKept
<1>6. BatchesAreNamed /\ FilesAgree
  BY <1>1, <1>2 DEF BatchesAreNamed, FilesAgree
<1>7. QED  BY <1>4, <1>5, <1>6 DEF ArchiveInv

\* The lines of the history, in arithmetic.
LEMMA LineFacts ==
  ASSUME ArchiveTypeOK, LinesInOrder
  PROVE  /\ \A i \in DOMAIN history : history[i] \in Lines /\ history[i].at \in Nat
         /\ \A i, j \in DOMAIN history : i <= j => history[i].at <= history[j].at
         /\ \A i, j \in DOMAIN history : history[i].run = history[j].run => i = j
         /\ Len(history) \in Nat /\ DOMAIN history = 1 .. Len(history)
         /\ SoloAt \subseteq 1 .. Len(history)
<1>1. history \in Seq(Lines)
  BY DEF ArchiveTypeOK
<1>2. Len(history) \in Nat /\ DOMAIN history = 1 .. Len(history)
  BY <1>1
<1>3. \A i \in DOMAIN history : history[i] \in Lines
  BY <1>1, <1>2
<1>4. \A i \in DOMAIN history : history[i] \in Lines /\ history[i].at \in Nat
  BY <1>3 DEF Lines
<1>5. \A i, j \in DOMAIN history :
        i < j => history[i].run # history[j].run /\ history[i].at <= history[j].at
  BY DEF LinesInOrder
<1>6. \A i, j \in DOMAIN history : i <= j => history[i].at <= history[j].at
  BY <1>2, <1>4, <1>5
<1>7. \A i, j \in DOMAIN history : history[i].run = history[j].run => i = j
  <2> SUFFICES ASSUME NEW i \in DOMAIN history, NEW j \in DOMAIN history,
                      history[i].run = history[j].run
               PROVE  i = j
    OBVIOUS
  <2>1. i \in Nat /\ j \in Nat
    BY <1>2
  <2>2. ~(i < j) /\ ~(j < i)
    BY <1>5
  <2>3. QED  BY <2>1, <2>2
<1>8. QED  BY <1>2, <1>4, <1>6, <1>7 DEF SoloAt

\* The run that opened the group of a solo run.
LEMMA OpenerOf ==
  ASSUME ArchiveTypeOK, LinesInOrder, NEW i \in SoloAt
  PROVE  /\ Opener(i) \in SoloAt /\ Opener(i) <= i /\ Opens(Opener(i))
         /\ \A j \in SoloAt : j <= i /\ Opens(j) => j <= Opener(i)
<1>1. PICK n \in Nat : n = Len(history)
  BY LineFacts
<1>2. SoloAt \in SUBSET (1 .. n) /\ SoloAt \subseteq 1 .. n
  BY <1>1, LineFacts
<1>3. \E m \in SoloAt : \A j \in SoloAt : m <= j
  BY <1>2, LeastLine
<1> PICK m \in SoloAt : \A j \in SoloAt : m <= j
  BY <1>3
<1>4. {j \in SoloAt : j < m} = {}
  <2>1. \A j \in SoloAt : j \in Nat
    BY <1>2
  <2>2. \A j \in SoloAt : ~(j < m)
    BY <2>1
  <2>3. QED  BY <2>2
<1>5. Opens(m) /\ m <= i
  BY <1>4 DEF Opens
<1> DEFINE P == {j \in SoloAt : j <= i /\ Opens(j)}
<1>6. P \in SUBSET (1 .. n) /\ P # {}
  BY <1>2, <1>5
<1>7. Max(P) \in P /\ \A j \in P : j <= Max(P)
  BY <1>6, LastPosition
<1>8. Opener(i) = Max(P)
  BY DEF Opener
<1>9. QED  BY <1>7, <1>8

\* Two solo runs are in one group when none opens one after the first, up to the second.
LEMMA OneOpener ==
  ASSUME ArchiveTypeOK, LinesInOrder, NEW d \in SoloAt, NEW e \in SoloAt, d < e
  PROVE  Opener(d) = Opener(e) <=> ~\E k \in SoloAt : d < k /\ k <= e /\ Opens(k)
<1>1. \A j \in SoloAt : j \in Nat
  BY LineFacts
<1>2. /\ Opener(d) \in SoloAt /\ Opener(d) <= d /\ Opens(Opener(d))
      /\ \A j \in SoloAt : j <= d /\ Opens(j) => j <= Opener(d)
  BY OpenerOf
<1>3. /\ Opener(e) \in SoloAt /\ Opener(e) <= e /\ Opens(Opener(e))
      /\ \A j \in SoloAt : j <= e /\ Opens(j) => j <= Opener(e)
  BY OpenerOf
<1>4. ASSUME Opener(d) = Opener(e), NEW k \in SoloAt, d < k, k <= e, Opens(k)
      PROVE  FALSE
  <2>1. k <= Opener(d) /\ Opener(d) <= d
    BY <1>2, <1>3, <1>4
  <2>2. k \in Nat /\ d \in Nat /\ Opener(d) \in Nat
    BY <1>1, <1>2
  <2>3. QED  BY <1>4, <2>1, <2>2
<1>5. ASSUME ~\E k \in SoloAt : d < k /\ k <= e /\ Opens(k)
      PROVE  Opener(d) = Opener(e)
  <2>1. ~(d < Opener(e))
    BY <1>3, <1>5
  <2>2. d \in Nat /\ e \in Nat /\ Opener(d) \in Nat /\ Opener(e) \in Nat
    BY <1>1, <1>2, <1>3
  <2>3. Opener(e) <= d
    BY <2>1, <2>2
  <2>4. Opener(e) <= Opener(d)
    BY <1>2, <1>3, <2>3
  <2>5. Opener(d) <= e
    BY <1>2, <2>2
  <2>6. Opener(d) <= Opener(e)
    BY <1>2, <1>3, <2>5
  <2>7. QED  BY <2>2, <2>4, <2>6
<1>6. QED  BY <1>4, <1>5

\* The last solo run before another one.
LEMMA SoloBefore ==
  ASSUME ArchiveTypeOK, LinesInOrder, NEW d \in SoloAt, NEW k \in SoloAt, d < k
  PROVE  \E m \in SoloAt :
            /\ m < k /\ (\A j \in SoloAt : j < k => j <= m)
            /\ Opens(k) <=> history[k].at - history[m].at > Gap
<1> DEFINE E == {j \in SoloAt : j < k}
<1>1. PICK n \in Nat : n = Len(history)
  BY LineFacts
<1>2. E \in SUBSET (1 .. n) /\ E # {}
  BY <1>1, LineFacts
<1>3. Max(E) \in E /\ \A j \in E : j <= Max(E)
  BY <1>2, LastPosition
<1>4. Opens(k) <=> history[k].at - history[Max(E)].at > Gap
  BY <1>2 DEF Opens
<1>5. PICK m \in E : m = Max(E)
  BY <1>3
<1>6. QED  BY <1>3, <1>4, <1>5

\* A group is opened between two solo runs where a pause parts them.
LEMMA PausesOpen ==
  ASSUME ArchiveTypeOK, LinesInOrder, NEW d \in SoloAt, NEW e \in SoloAt, d < e
  PROVE  (\E k \in SoloAt : d < k /\ k <= e /\ Opens(k)) <=> Separated(d, e)
<1>1. Gap \in Nat
  BY RunArchiveAssumption
<1>2. \A i \in SoloAt : i \in DOMAIN history /\ i \in Nat /\ history[i].at \in Nat
  BY LineFacts
<1>3. \A i, j \in SoloAt : i <= j => history[i].at <= history[j].at
  BY <1>2, LineFacts
<1>4. ASSUME NEW k \in SoloAt, d < k, k <= e, Opens(k)
      PROVE  Separated(d, e)
  <2>1. PICK m \in SoloAt : m < k /\ (\A j \in SoloAt : j < k => j <= m)
                            /\ (Opens(k) <=> history[k].at - history[m].at > Gap)
    BY <1>4, SoloBefore
  <2>2. history[k].at - history[m].at > Gap
    BY <1>4, <2>1
  <2>3. history[d].at <= history[m].at /\ history[k].at <= history[e].at
    BY <1>3, <1>4, <2>1
  <2>4. /\ history[d].at \in Nat /\ history[m].at \in Nat
        /\ history[k].at \in Nat /\ history[e].at \in Nat
    BY <1>2
  <2>5. history[m].at < history[e].at
    BY <1>1, <2>2, <2>3, <2>4
  <2>6. ASSUME NEW b \in SoloAt PROVE history[b].at - history[m].at \notin 1 .. Gap
    <3>1. history[b].at \in Nat /\ b \in Nat /\ k \in Nat
      BY <1>2
    <3>2. CASE b < k
      <4>1. history[b].at <= history[m].at
        BY <1>3, <2>1, <3>2
      <4>2. QED  BY <2>4, <3>1, <4>1
    <3>3. CASE ~(b < k)
      <4>1. history[k].at <= history[b].at
        BY <1>3, <3>1, <3>3
      <4>2. QED  BY <1>1, <2>2, <2>4, <3>1, <4>1
    <3>4. QED  BY <3>2, <3>3
  <2>7. QED  BY <2>3, <2>5, <2>6 DEF Separated
<1>5. ASSUME Separated(d, e)
      PROVE  \E k \in SoloAt : d < k /\ k <= e /\ Opens(k)
  <2>1. PICK a \in SoloAt : /\ history[d].at <= history[a].at /\ history[a].at < history[e].at
                            /\ \A b \in SoloAt : history[b].at - history[a].at \notin 1 .. Gap
    BY <1>5 DEF Separated
  <2> DEFINE L == {j \in SoloAt : d < j /\ history[a].at < history[j].at}
  <2>2. L \in SUBSET (1 .. Len(history)) /\ L # {} /\ e \in L
    BY <2>1, LineFacts
  <2>3. PICK k \in L : \A j \in L : k <= j
    BY <2>2, LeastLine, LineFacts
  <2>4. k \in SoloAt /\ d < k /\ history[a].at < history[k].at /\ k <= e
    BY <2>2, <2>3
  <2>5. PICK m \in SoloAt : m < k /\ (\A j \in SoloAt : j < k => j <= m)
                            /\ (Opens(k) <=> history[k].at - history[m].at > Gap)
    BY <2>4, SoloBefore
  <2>6. d <= m
    BY <2>4, <2>5
  <2>7. m \in Nat /\ k \in Nat /\ d \in Nat /\ history[m].at \in Nat /\ history[k].at \in Nat
        /\ history[a].at \in Nat /\ history[d].at \in Nat
    BY <1>2, <2>4
  <2>8. m \notin L
    BY <2>3, <2>5, <2>7
  <2>9. history[m].at <= history[a].at
    <3>1. CASE m = d
      BY <2>1, <3>1
    <3>2. CASE m # d
      <4>1. d < m
        BY <2>6, <2>7, <3>2
      <4>2. ~(history[a].at < history[m].at)
        BY <2>8, <4>1
      <4>3. QED  BY <2>7, <4>2
    <3>3. QED  BY <3>1, <3>2
  <2>10. history[k].at - history[a].at \notin 1 .. Gap
    BY <2>1, <2>4
  <2>11. history[k].at - history[m].at > Gap
    BY <1>1, <2>4, <2>7, <2>9, <2>10
  <2>12. QED  BY <2>4, <2>5, <2>11
<1>6. QED  BY <1>4, <1>5

LEMMA ArchiveGroups == ArchiveInv => SoloRunsGroupByBursts
<1> SUFFICES ASSUME ArchiveInv, NEW d \in SoloAt, NEW e \in SoloAt, d < e
             PROVE  (ShownRuns(d) = ShownRuns(e) /\ ShownRuns(d) # <<>>) <=> ~Separated(d, e)
  BY DEF SoloRunsGroupByBursts
<1>1. ArchiveTypeOK /\ LinesInOrder
  BY DEF ArchiveInv
<1>2. Opener(d) = Opener(e) <=> ~Separated(d, e)
  BY <1>1, OneOpener, PausesOpen
<1>3. d \in DOMAIN history /\ e \in DOMAIN history /\ d # e
      /\ history[d].batch = Alone /\ history[e].batch = Alone
  <2>1. d \in Nat /\ e \in Nat
    BY <1>1, LineFacts
  <2>2. QED  BY <2>1 DEF SoloAt
<1>4. Opener(d) \in DOMAIN history /\ Opener(e) \in DOMAIN history
  BY <1>1, OpenerOf DEF SoloAt
<1>5. \A i \in {d, e} :
        ShownRuns(i) = IF \E k \in SoloAt : k # i /\ Opener(k) = Opener(i)
                       THEN <<"auto", history[Opener(i)].run>> ELSE <<>>
  BY <1>3 DEF ShownRuns
<1>6. \A x : <<"auto", x>> # <<>>
  OBVIOUS
<1>7. ASSUME Opener(d) = Opener(e)
      PROVE  ShownRuns(d) = ShownRuns(e) /\ ShownRuns(d) # <<>>
  BY <1>3, <1>5, <1>6, <1>7
<1>8. ASSUME ShownRuns(d) = ShownRuns(e), ShownRuns(d) # <<>>
      PROVE  Opener(d) = Opener(e)
  <2>1. ShownRuns(d) = <<"auto", history[Opener(d)].run>>
    BY <1>5, <1>8
  <2>2. ShownRuns(e) = <<"auto", history[Opener(e)].run>>
    BY <1>5, <1>8
  <2>3. <<"auto", history[Opener(d)].run>> = <<"auto", history[Opener(e)].run>>
    BY <1>8, <2>1, <2>2
  <2>4. \A x, y : <<"auto", x>> = <<"auto", y>> => x = y
    OBVIOUS
  <2>5. history[Opener(d)].run = history[Opener(e)].run
    BY <2>3, <2>4
  <2>6. QED  BY <1>1, <1>4, <2>5, LineFacts
<1>9. QED  BY <1>2, <1>7, <1>8

-----------------------------------------------------------------------------
LEMMA ArchiveRecords == ArchiveInv => BatchesHaveRecords
<1> SUFFICES ASSUME ArchiveInv, NEW g \in Groups,
                    g[1] = "batch", g[2] # posting.batch, g[2] \notin broken
             PROVE  \E p \in Record(g) : {history[i].run : i \in Shows(g)} \subseteq ToSet(p.runs)
  BY DEF BatchesHaveRecords
<1>1. ArchiveTypeOK /\ LinesInOrder /\ BatchesAreKept
  BY DEF ArchiveInv
<1>2. PICK i \in Page : g = ShownRuns(i) /\ g # <<>>
  BY DEF Groups
<1>3. \A k \in DOMAIN history :
        ShownRuns(k) = g => history[k].batch # Alone /\ g = <<"batch", history[k].batch>>
  <2> SUFFICES ASSUME NEW k \in DOMAIN history, ShownRuns(k) = g
               PROVE  history[k].batch # Alone /\ g = <<"batch", history[k].batch>>
    OBVIOUS
  <2>1. \A x : <<"auto", x>>[1] = "auto"
    OBVIOUS
  <2>2. history[k].batch # Alone
    <3> SUFFICES ASSUME history[k].batch = Alone PROVE FALSE
      OBVIOUS
    <3>1. g = <<"auto", history[Opener(k)].run>>
      BY <1>2 DEF ShownRuns
    <3>2. g[1] = "auto"
      BY <2>1, <3>1
    <3>3. QED  BY <3>2
  <2>3. QED  BY <2>2 DEF ShownRuns
<1>4. i \in DOMAIN history
  BY DEF Page
<1>5. history[i].batch # Alone /\ g = <<"batch", history[i].batch>>
  BY <1>2, <1>3, <1>4
<1>6. PICK b : b = history[i].batch
  OBVIOUS
<1>7. b # Alone /\ g = <<"batch", b>> /\ g[2] = b
  BY <1>5, <1>6
<1>8. \A k \in DOMAIN history :
        history[k].run \in DOMAIN started /\ history[k].batch = started[history[k].run]
  BY <1>1 DEF LinesInOrder
<1>9. PICK p \in records.kv : Names(p, b)
  <2>1. PICK r \in DOMAIN started : started[r] = b
    BY <1>4, <1>6, <1>8
  <2>2. Names(posting, b) \/ b \in broken \/ \E p \in records.kv : Names(p, b)
    BY <1>1, <1>7, <2>1 DEF BatchesAreKept
  <2>3. ~Names(posting, b) /\ b \notin broken
    BY <1>7 DEF Names
  <2>4. QED  BY <2>2, <2>3
<1>10. p.batch = b /\ \A k \in DOMAIN started : started[k] = b => k \in ToSet(p.runs)
  BY <1>9 DEF Names
<1>11. p \in Record(g)
  BY <1>7, <1>10 DEF Record
<1>12. ASSUME NEW k \in Shows(g) PROVE history[k].run \in ToSet(p.runs)
  <2>1. k \in DOMAIN history /\ ShownRuns(k) = g
    BY DEF Shows, Page
  <2>2. g = <<"batch", history[k].batch>>
    BY <1>3, <2>1
  <2>3. \A x, y : <<"batch", x>> = <<"batch", y>> => x = y
    OBVIOUS
  <2>4. history[k].batch = b
    BY <1>7, <2>2, <2>3
  <2>5. QED  BY <1>8, <1>10, <2>1, <2>4
<1>13. QED  BY <1>11, <1>12

LEMMA ArchiveTells == ArchiveInv => ArchiveTellsTheRuns
<1> SUFFICES ASSUME ArchiveInv PROVE ArchiveTellsTheRuns
  OBVIOUS
<1>1. LastRunIsNewest
  BY DEF ArchiveInv, FilesAgree, LastRunIsNewest, Last
<1>2. QED  BY <1>1, ArchiveGroups, ArchiveRecords DEF ArchiveTellsTheRuns

-----------------------------------------------------------------------------
\* What each step does to the history: a line more, at most.
Longer ==
    \/ history' = history
    \/ \E l : history' = Append(history, l)

LEMMA GroupsStay ==
  ASSUME ArchiveTypeOK, LinesInOrder, ArchiveTypeOK', LinesInOrder', Longer
  PROVE  GroupsOnlyGrow
<1>1. CASE history' = history
  <2>1. \A i : ShownRuns(i)' = ShownRuns(i)
    BY <1>1 DEF ShownRuns, Opener, Opens, SoloAt
  <2>2. QED  BY <2>1 DEF GroupsOnlyGrow
<1>2. ASSUME NEW l, history' = Append(history, l)
      PROVE  GroupsOnlyGrow
  <2>1. PICK n \in Nat : n = Len(history)
    BY LineFacts
  <2>2. history \in Seq(Lines) /\ DOMAIN history = 1 .. n /\ SoloAt \subseteq 1 .. n
    BY <2>1, LineFacts DEF ArchiveTypeOK
  <2>3. DOMAIN history' = 1 .. n + 1 /\ \A i \in 1 .. n : history'[i] = history[i]
    BY <1>2, <2>1, <2>2
  <2>4. \A i \in 1 .. n : i \in SoloAt' <=> i \in SoloAt
    BY <2>2, <2>3 DEF SoloAt
  <2>5. SoloAt' \subseteq 1 .. n + 1 /\ \A i \in SoloAt : i \in SoloAt'
    BY <2>2, <2>3, <2>4 DEF SoloAt
  <2>6. \A i \in 1 .. n : {j \in SoloAt' : j < i} = {j \in SoloAt : j < i}
    <3>1. \A i \in 1 .. n : \A j \in SoloAt' : j < i => j \in 1 .. n
      BY <2>1, <2>5
    <3>2. \A i \in 1 .. n : \A j : (j \in SoloAt' /\ j < i) <=> (j \in SoloAt /\ j < i)
      BY <2>2, <2>4, <3>1
    <3>3. QED  BY <3>2
  <2>7. ASSUME NEW i \in 1 .. n PROVE Opens(i)' <=> Opens(i)
    <3>1. CASE {j \in SoloAt : j < i} = {}
      BY <2>6, <3>1 DEF Opens
    <3>2. CASE {j \in SoloAt : j < i} # {}
      <4>1. {j \in SoloAt : j < i} \in SUBSET (1 .. n)
        BY <2>2
      <4>2. Max({j \in SoloAt : j < i}) \in 1 .. n
        BY <3>2, <4>1, LastPosition
      <4>3. PICK m \in 1 .. n : m = Max({j \in SoloAt : j < i})
        BY <4>2
      <4>4. m = Max({j \in SoloAt' : j < i})
        BY <2>6, <4>3
      <4>5. history'[i] = history[i] /\ history'[m] = history[m]
        BY <2>3
      <4>6. Opens(i) <=> history[i].at - history[m].at > Gap
        BY <3>2, <4>3 DEF Opens
      <4>7. {j \in SoloAt' : j < i} # {}
        BY <2>6, <3>2
      <4>8. Opens(i)' <=> history'[i].at - history'[m].at > Gap
        BY <4>4, <4>7 DEF Opens
      <4>9. QED  BY <4>5, <4>6, <4>8
    <3>3. QED  BY <3>1, <3>2
  <2>8. ASSUME NEW i \in 1 .. n PROVE Opener(i)' = Opener(i)
    <3>1. \A j : j \in SoloAt' /\ j <= i => j \in 1 .. n
      BY <2>5
    <3>2. \A j \in 1 .. n : (j \in SoloAt' /\ j <= i /\ Opens(j)')
                              <=> (j \in SoloAt /\ j <= i /\ Opens(j))
      BY <2>4, <2>7
    <3>3. {j \in SoloAt' : j <= i /\ Opens(j)'} = {j \in SoloAt : j <= i /\ Opens(j)}
      BY <2>2, <3>1, <3>2
    <3>4. QED  BY <3>3 DEF Opener
  <2>9. ASSUME NEW i \in 1 .. n, ShownRuns(i) # <<>>
        PROVE  ShownRuns(i)' = ShownRuns(i)
    <3>1. history'[i] = history[i]
      BY <2>3
    <3>2. CASE history[i].batch # Alone
      BY <3>1, <3>2 DEF ShownRuns
    <3>3. CASE history[i].batch = Alone
      <4>1. PICK k \in SoloAt : k # i /\ Opener(k) = Opener(i)
        BY <2>9, <3>3 DEF ShownRuns
      <4>2. ShownRuns(i) = <<"auto", history[Opener(i)].run>>
        BY <3>3, <4>1 DEF ShownRuns
      <4>3. k \in 1 .. n /\ k \in SoloAt' /\ Opener(k)' = Opener(k)
        BY <2>2, <2>5, <2>8
      <4>4. Opener(i)' = Opener(i)
        BY <2>8
      <4>5. \E h \in SoloAt' : h # i /\ Opener(h)' = Opener(i)'
        BY <4>1, <4>3, <4>4
      <4>6. ShownRuns(i)' = <<"auto", history'[Opener(i)'].run>>
        BY <3>1, <3>3, <4>5 DEF ShownRuns
      <4>7. i \in SoloAt
        BY <2>2, <3>3 DEF SoloAt
      <4>8. Opener(i) \in 1 .. n
        BY <2>2, <4>7, OpenerOf
      <4>9. history'[Opener(i)] = history[Opener(i)]
        BY <2>3, <4>8
      <4>10. QED  BY <4>2, <4>4, <4>6, <4>9
    <3>4. QED  BY <3>2, <3>3
  <2>10. QED  BY <2>2, <2>9 DEF GroupsOnlyGrow
<1>3. QED  BY <1>1, <1>2 DEF Longer

\* A run that finishes adds its line at the end, unless the line is lost.
LEMMA LinesFollow ==
  ASSUME ArchiveTypeOK, LinesInOrder, NEW r \in underway,
         underway' = underway \ {r}, UNCHANGED <<started, clock>>,
         history' \in {history, AppendedTo(history, r)}
  PROVE  LinesInOrder' /\ history' \in Seq(Lines) /\ Longer
<1>1. r \in DOMAIN started /\ started \in Seq(Batches) /\ clock \in Nat
      /\ history \in Seq(Lines)
  BY DEF ArchiveTypeOK
<1>2. r \in Nat /\ started[r] \in Batches
  <2>1. DOMAIN started = 1 .. Len(started)
    BY <1>1
  <2>2. QED  BY <1>1, <2>1
<1> DEFINE line == [run |-> r, at |-> clock, batch |-> started[r]]
<1>3. line \in Lines /\ line.run = r /\ line.at = clock /\ line.batch = started[r]
  BY <1>1, <1>2 DEF Lines
<1>4. \A i \in DOMAIN history :
        /\ history[i].run \in DOMAIN started \ underway
        /\ history[i].batch = started[history[i].run]
        /\ history[i].at <= clock
        /\ \A j \in DOMAIN history :
               i < j => history[i].run # history[j].run /\ history[i].at <= history[j].at
  BY DEF LinesInOrder
<1>5. CASE history' = history
  <2>1. \A i \in DOMAIN history : history[i].run \in DOMAIN started \ underway'
    BY <1>4
  <2>2. QED  BY <1>1, <1>4, <1>5, <2>1 DEF LinesInOrder, Longer
<1>6. CASE history' = Append(history, line)
  <2> HIDE DEF line
  <2>1. PICK n \in Nat : n = Len(history)
    BY <1>1
  <2>2. DOMAIN history = 1 .. n
    BY <1>1, <2>1
  <2>3. history' \in Seq(Lines)
    BY <1>1, <1>3, <1>6
  <2>4. DOMAIN history' = 1 .. n + 1
    BY <1>1, <1>6, <2>1
  <2>5. \A i \in 1 .. n : history'[i] = history[i]
    BY <1>1, <1>6, <2>1
  <2>6. history'[n + 1] = line
    BY <1>1, <1>6, <2>1
  <2>7. \A i \in DOMAIN history' : i \in 1 .. n \/ i = n + 1
    BY <2>1, <2>4
  <2>8. ASSUME NEW i \in DOMAIN history'
        PROVE  /\ history'[i].run \in DOMAIN started \ underway'
               /\ history'[i].batch = started[history'[i].run]
               /\ history'[i].at <= clock
               /\ i \in 1 .. n => history'[i].run # r
    <3>1. CASE i \in 1 .. n
      <4>1. history[i].run \in DOMAIN started \ underway
        BY <1>4, <2>2, <3>1
      <4>2. history[i].run # r
        BY <4>1
      <4>3. history[i].batch = started[history[i].run] /\ history[i].at <= clock
        BY <1>4, <2>2, <3>1
      <4>4. history'[i] = history[i]
        BY <2>5, <3>1
      <4>5. QED  BY <4>1, <4>2, <4>3, <4>4
    <3>2. CASE i = n + 1
      <4>1. r \notin underway' /\ clock <= clock
        BY <1>1
      <4>2. i \notin 1 .. n
        BY <2>1, <3>2
      <4>3. QED  BY <1>1, <1>3, <2>6, <3>2, <4>1, <4>2
    <3>3. QED  BY <2>7, <3>1, <3>2
  <2>9. ASSUME NEW i \in DOMAIN history', NEW j \in DOMAIN history', i < j
        PROVE  history'[i].run # history'[j].run /\ history'[i].at <= history'[j].at
    <3>1. i \in 1 .. n
      BY <2>1, <2>4, <2>9
    <3>2. CASE j \in 1 .. n
      <4>1. history[i].run # history[j].run /\ history[i].at <= history[j].at
        BY <1>4, <2>2, <2>9, <3>1, <3>2
      <4>2. history'[i] = history[i] /\ history'[j] = history[j]
        BY <2>5, <3>1, <3>2
      <4>3. QED  BY <4>1, <4>2
    <3>3. CASE j = n + 1
      <4>1. history'[j].run = r /\ history'[j].at = clock
        BY <1>3, <2>6, <3>3
      <4>2. QED  BY <2>8, <3>1, <4>1
    <3>4. QED  BY <2>7, <3>2, <3>3
  <2>10. started' = started /\ clock' = clock
    OBVIOUS
  <2>11. LinesInOrder'
    BY <2>8, <2>9, <2>10 DEF LinesInOrder
  <2>12. Longer
    BY <1>6 DEF Longer
  <2>13. QED  BY <2>3, <2>11, <2>12
<1>7. QED  BY <1>5, <1>6 DEF AppendedTo

\* The other steps leave the lines alone.
LEMMA LinesStay ==
  ASSUME ArchiveTypeOK, LinesInOrder, history' = history,
         DOMAIN started \subseteq DOMAIN started',
         \A k \in DOMAIN started : started'[k] = started[k],
         \A k \in DOMAIN started : k \in underway' => k \in underway,
         clock' \in Nat, clock <= clock'
  PROVE  LinesInOrder' /\ Longer
<1>1. \A i \in DOMAIN history :
        /\ history[i].run \in DOMAIN started \ underway
        /\ history[i].batch = started[history[i].run]
        /\ history[i].at <= clock
        /\ \A j \in DOMAIN history :
               i < j => history[i].run # history[j].run /\ history[i].at <= history[j].at
  BY DEF LinesInOrder
<1>2. ASSUME NEW i \in DOMAIN history
      PROVE  /\ history[i].run \in DOMAIN started' \ underway'
             /\ history[i].batch = started'[history[i].run]
             /\ history[i].at <= clock'
  <2>1. history[i].run \in DOMAIN started \ underway
        /\ history[i].batch = started[history[i].run] /\ history[i].at <= clock
    BY <1>1
  <2>2. history[i].at \in Nat /\ clock \in Nat
    BY LineFacts DEF ArchiveTypeOK
  <2>3. history[i].at <= clock'
    BY <2>1, <2>2
  <2>4. QED  BY <2>1, <2>3
<1>3. QED  BY <1>1, <1>2 DEF LinesInOrder, Longer

\* Runs that begin: those of the POST under way, or one that is alone.
LEMMA RunBegins ==
  ASSUME ArchiveInv, NEW batch, Begin(batch),
         \/ batch = Alone /\ posting' = posting
         \/ batch = (IF posting = NoPost THEN Len(started) + 1 ELSE posting.batch)
            /\ posting' = [batch |-> batch, runs |-> Append(posting.runs, Len(started) + 1)]
  PROVE  ArchiveInv' /\ Longer
<1> USE RunArchiveAssumption
<1>1. ArchiveTypeOK /\ LinesInOrder /\ BatchesAreNamed /\ BatchesAreKept /\ FilesAgree
  BY DEF ArchiveInv
<1>2. started \in Seq(Batches) /\ underway \subseteq DOMAIN started /\ posting \in Posts
      /\ clock \in Nat
  BY <1>1 DEF ArchiveTypeOK
<1>3. PICK n \in Nat : n = Len(started)
  BY <1>2
<1>4. /\ started' = Append(started, batch) /\ underway' = underway \cup {n + 1}
      /\ UNCHANGED <<records, broken, history, cut, lastRun, clock, reboots, full>>
  BY <1>3 DEF Begin, archiveFiles, archiveBounds
<1>5. posting.batch \in Batches /\ posting.runs \in Seq(Nat)
  BY <1>2 DEF Posts
<1>6. batch \in Batches
  BY <1>3, <1>5 DEF Batches
<1>7. DOMAIN started = 1 .. n
  BY <1>2, <1>3
<1>8. /\ started' \in Seq(Batches) /\ DOMAIN started' = 1 .. n + 1 /\ Len(started') = n + 1
      /\ \A k \in 1 .. n : started'[k] = started[k]
      /\ started'[n + 1] = batch
  BY <1>2, <1>3, <1>4, <1>6
<1>9. DOMAIN started \subseteq DOMAIN started' /\ n + 1 \notin DOMAIN started
  BY <1>3, <1>7, <1>8
<1>10. underway' \subseteq DOMAIN started'
  BY <1>2, <1>3, <1>4, <1>8, <1>9
<1>11. posting' \in Posts
  <2>1. Append(posting.runs, Len(started) + 1) \in Seq(Nat)
    BY <1>3, <1>5
  <2>2. [batch |-> batch, runs |-> Append(posting.runs, Len(started) + 1)] \in Posts
    BY <1>6, <2>1 DEF Posts
  <2>3. QED  BY <1>2, <2>2
<1>12. ArchiveTypeOK'
  BY <1>1, <1>4, <1>8, <1>10, <1>11 DEF ArchiveTypeOK
<1>13. LinesInOrder' /\ Longer
  <2>1. \A k \in DOMAIN started : started'[k] = started[k]
    BY <1>7, <1>8
  <2>2. \A k \in DOMAIN started : k \in underway' => k \in underway
    BY <1>4, <1>9
  <2>3. clock' \in Nat /\ clock <= clock' /\ history' = history
    BY <1>2, <1>4
  <2>4. QED  BY <1>1, <1>9, <2>1, <2>2, <2>3, LinesStay
<1>14. FilesAgree'
  BY <1>1, <1>4 DEF FilesAgree
<1>15. /\ \A k \in 1 .. n : started[k] # Alone => started[k] \in 1 .. k
       /\ posting # NoPost => posting.batch \in 1 .. n /\ Names(posting, posting.batch)
  BY <1>1, <1>3, <1>7 DEF BatchesAreNamed
<1>16. \A k \in 1 .. n : started[k] # Alone => started[k] \in 1 .. n
  BY <1>3, <1>15
<1>17. \A k \in DOMAIN started' : k \in 1 .. n \/ k = n + 1
  BY <1>3, <1>8
<1>18. CASE batch = Alone /\ posting' = posting
  <2>1. ASSUME NEW p, NEW b, b # Alone, Names(p, b) PROVE Names(p, b)'
    <3>1. p.batch = b /\ \A k \in 1 .. n : started[k] = b => k \in ToSet(p.runs)
      BY <1>7, <2>1 DEF Names
    <3>2. \A k \in DOMAIN started' : started'[k] = b => k \in ToSet(p.runs)
      BY <1>8, <1>17, <1>18, <2>1, <3>1
    <3>3. QED  BY <3>1, <3>2 DEF Names
  <2>2. ASSUME posting # NoPost
        PROVE  posting.batch \in 1 .. n + 1 /\ Names(posting, posting.batch)'
    <3>1. posting.batch \in 1 .. n /\ Names(posting, posting.batch)
      BY <1>15, <2>2
    <3>2. PICK b : b = posting.batch
      OBVIOUS
    <3>3. b # Alone /\ b \in 1 .. n + 1
      BY <1>3, <3>1, <3>2
    <3>4. QED
      <4>1. PICK p : p = posting
        OBVIOUS
      <4>2. Names(p, b)'
        BY <2>1, <3>1, <3>2, <3>3, <4>1
      <4>3. posting' = p /\ posting'.batch = b
        BY <1>18, <3>2, <4>1
      <4>4. QED  BY <3>2, <3>3, <4>2, <4>3, <1>18 DEF Names
  <2>3. BatchesAreNamed'
    <3>1. \A k \in DOMAIN started' : started'[k] # Alone => started'[k] \in 1 .. k
      BY <1>8, <1>15, <1>17, <1>18
    <3>2. (posting # NoPost => posting.batch \in 1 .. Len(started) /\ Names(posting, posting.batch))'
      BY <1>8, <1>18, <2>2 DEF NoPost
    <3>3. QED  BY <3>1, <3>2 DEF BatchesAreNamed
  <2>4. BatchesAreKept'
    <3> SUFFICES ASSUME NEW k \in DOMAIN started', started'[k] # Alone
                 PROVE  (\/ Names(posting, started[k]) \/ started[k] \in broken
                         \/ \E p \in records.kv : Names(p, started[k]))'
      BY DEF BatchesAreKept
    <3>1. k \in 1 .. n /\ started'[k] = started[k]
      BY <1>8, <1>17, <1>18
    <3>2. PICK b : b = started[k]
      OBVIOUS
    <3>3. Names(posting, b) \/ b \in broken \/ \E p \in records.kv : Names(p, b)
      BY <1>1, <1>7, <3>1, <3>2 DEF BatchesAreKept
    <3>4. CASE Names(posting, b)
      <4>1. PICK p : p = posting
        OBVIOUS
      <4>2. Names(p, b)'
        BY <2>1, <3>1, <3>2, <3>4, <4>1
      <4>3. Names(posting, started[k])'
        BY <1>18, <3>1, <3>2, <4>1, <4>2 DEF Names
      <4>4. QED  BY <4>3
    <3>5. CASE b \in broken
      BY <1>4, <3>1, <3>2, <3>5
    <3>6. CASE \E p \in records.kv : Names(p, b)
      <4>1. PICK p \in records.kv : Names(p, b)
        BY <3>6
      <4>2. Names(p, b)'
        BY <2>1, <3>1, <3>2, <4>1
      <4>3. Names(p, started[k])'
        BY <3>1, <3>2, <4>2 DEF Names
      <4>4. QED  BY <1>4, <4>3
    <3>7. QED  BY <3>3, <3>4, <3>5, <3>6
  <2>5. QED  BY <1>12, <1>13, <1>14, <2>3, <2>4 DEF ArchiveInv
<1>19. CASE /\ batch = (IF posting = NoPost THEN n + 1 ELSE posting.batch)
            /\ posting' = [batch |-> batch, runs |-> Append(posting.runs, n + 1)]
  <2>1. posting'.batch = batch /\ posting'.runs = Append(posting.runs, n + 1)
    BY <1>19
  <2>2. /\ \A x \in ToSet(posting.runs) : x \in ToSet(posting'.runs)
        /\ n + 1 \in ToSet(posting'.runs)
    <3>1. PICK m \in Nat : m = Len(posting.runs)
      BY <1>5
    <3>2. DOMAIN posting.runs = 1 .. m /\ DOMAIN posting'.runs = 1 .. m + 1
      BY <1>3, <1>5, <2>1, <3>1
    <3>3. (\A j \in 1 .. m : posting'.runs[j] = posting.runs[j])
          /\ posting'.runs[m + 1] = n + 1
      BY <1>3, <1>5, <2>1, <3>1
    <3>4. \A j \in 1 .. m : j \in 1 .. m + 1
      BY <3>1
    <3>5. m + 1 \in 1 .. m + 1
      BY <3>1
    <3>6. QED  BY <3>2, <3>3, <3>4, <3>5 DEF ToSet
  <2>3. batch \in 1 .. n + 1 /\ batch # Alone
    <3>1. CASE posting = NoPost
      BY <1>3, <1>19, <3>1
    <3>2. CASE posting # NoPost
      BY <1>3, <1>15, <1>19, <3>2
    <3>3. QED  BY <3>1, <3>2
  <2>4. \A k \in 1 .. n : started[k] = batch => k \in ToSet(posting.runs)
    <3>1. CASE posting = NoPost
      <4>1. batch = n + 1
        BY <1>19, <3>1
      <4>2. \A k \in 1 .. n : started[k] # n + 1
        <5>1. n + 1 # Alone
          BY <1>3
        <5>2. n + 1 \notin 1 .. n
          BY <1>3
        <5>3. QED  BY <1>16, <5>1, <5>2
      <4>3. QED  BY <4>1, <4>2
    <3>2. CASE posting # NoPost
      <4>1. batch = posting.batch /\ Names(posting, posting.batch)
        BY <1>15, <1>19, <3>2
      <4>2. QED  BY <1>7, <4>1 DEF Names
    <3>3. QED  BY <3>1, <3>2
  <2>5. \A k \in DOMAIN started' : started'[k] = batch => k \in ToSet(posting'.runs)
    BY <1>8, <1>17, <2>2, <2>4
  <2>6. ASSUME NEW p, NEW b, b # batch, Names(p, b) PROVE Names(p, b)'
    <3>1. p.batch = b /\ \A k \in 1 .. n : started[k] = b => k \in ToSet(p.runs)
      BY <1>7, <2>6 DEF Names
    <3>2. \A k \in DOMAIN started' : started'[k] = b => k \in ToSet(p.runs)
      BY <1>8, <1>17, <2>6, <3>1
    <3>3. QED  BY <3>1, <3>2 DEF Names
  <2>7. BatchesAreNamed'
    <3>1. ASSUME NEW k \in DOMAIN started', started'[k] # Alone
          PROVE  started'[k] \in 1 .. k
      <4>1. CASE k \in 1 .. n
        BY <1>8, <1>15, <3>1, <4>1
      <4>2. CASE k = n + 1
        BY <1>8, <2>3, <4>2
      <4>3. QED  BY <1>17, <4>1, <4>2
    <3>2. posting'.batch \in 1 .. Len(started') /\ Names(posting, posting.batch)'
      BY <1>8, <2>1, <2>3, <2>5 DEF Names
    <3>3. QED  BY <3>1, <3>2 DEF BatchesAreNamed
  <2>8. BatchesAreKept'
    <3> SUFFICES ASSUME NEW k \in DOMAIN started', started'[k] # Alone
                 PROVE  (\/ Names(posting, started[k]) \/ started[k] \in broken
                         \/ \E p \in records.kv : Names(p, started[k]))'
      BY DEF BatchesAreKept
    <3>1. CASE started'[k] = batch
      <4>1. Names(posting, started[k])'
        BY <2>1, <2>5, <3>1 DEF Names
      <4>2. QED  BY <4>1
    <3>2. CASE started'[k] # batch
      <4>1. k \in 1 .. n /\ started'[k] = started[k]
        BY <1>8, <1>17, <3>2
      <4>2. PICK b : b = started[k]
        OBVIOUS
      <4>3. b # Alone /\ b # batch /\ started'[k] = b
        BY <3>2, <4>1, <4>2
      <4>4. Names(posting, b) \/ b \in broken \/ \E p \in records.kv : Names(p, b)
        BY <1>1, <1>7, <4>1, <4>2, <4>3 DEF BatchesAreKept
      <4>5. ~Names(posting, b)
        <5>1. CASE posting = NoPost
          BY <4>3, <5>1 DEF Names, NoPost
        <5>2. CASE posting # NoPost
          BY <1>19, <4>3, <5>2 DEF Names
        <5>3. QED  BY <5>1, <5>2
      <4>6. CASE b \in broken
        BY <1>4, <4>3, <4>6
      <4>7. CASE \E p \in records.kv : Names(p, b)
        <5>1. PICK p \in records.kv : Names(p, b)
          BY <4>7
        <5>2. Names(p, b)'
          BY <2>6, <4>3, <5>1
        <5>3. Names(p, started[k])'
          BY <4>3, <5>2 DEF Names
        <5>4. QED  BY <1>4, <5>3
      <4>8. QED  BY <4>4, <4>5, <4>6, <4>7
    <3>3. QED  BY <3>1, <3>2
  <2>9. QED  BY <1>12, <1>13, <1>14, <2>7, <2>8 DEF ArchiveInv
<1>20. QED  BY <1>3, <1>18, <1>19

\* A POST that ends: its batch has a record, or counts among the broken ones.
LEMMA PostEnds ==
  ASSUME ArchiveInv, posting' = NoPost,
         UNCHANGED <<started, history, cut, lastRun, clock>>,
         underway' \in {underway, {}}, full' \in {full, full + 1},
         records' \in [memory : SUBSET (records.memory \cup {posting}),
                       kv : {records.kv, records.kv \cup {posting}}],
         broken' \in {broken, broken \cup {posting.batch}},
         posting # NoPost => posting.batch \in broken' \/ posting \in records'.kv
  PROVE  ArchiveInv' /\ Longer
<1> USE RunArchiveAssumption
<1>1. ArchiveTypeOK /\ LinesInOrder /\ BatchesAreNamed /\ BatchesAreKept /\ FilesAgree
  BY DEF ArchiveInv
<1>2. /\ posting \in Posts /\ records \in [memory : SUBSET Posts, kv : SUBSET Posts]
      /\ started \in Seq(Batches) /\ underway \subseteq DOMAIN started /\ full \in Nat
      /\ history \in Seq(Lines) /\ cut \in BOOLEAN /\ clock \in Nat
  BY <1>1 DEF ArchiveTypeOK
<1>3. NoPost \in Posts
  BY DEF NoPost, Posts, Batches
<1>4. records' \in [memory : SUBSET Posts, kv : SUBSET Posts]
  <2>1. records.memory \subseteq Posts /\ records.kv \subseteq Posts
    BY <1>2
  <2>2. SUBSET (records.memory \cup {posting}) \subseteq SUBSET Posts
    BY <1>2, <2>1
  <2>3. {records.kv, records.kv \cup {posting}} \subseteq SUBSET Posts
    BY <1>2, <2>1
  <2>4. QED  BY <2>2, <2>3
<1>5. \A p \in records.kv : p \in records'.kv
  OBVIOUS
<1>6. full' \in Nat /\ (full' = 0 => full = 0)
  BY <1>2
<1>7. ArchiveTypeOK'
  <2>1. underway' \subseteq DOMAIN started' /\ started' = started
    BY <1>2
  <2>2. started' \in Seq(Batches) /\ history' \in Seq(Lines) /\ cut' \in BOOLEAN /\ clock' \in Nat
    BY <1>2
  <2>3. posting' \in Posts
    BY <1>3
  <2>4. QED  BY <1>4, <1>6, <2>1, <2>2, <2>3 DEF ArchiveTypeOK
<1>8. LinesInOrder' /\ Longer
  <2>1. history' = history /\ clock' \in Nat /\ clock <= clock'
    BY <1>2
  <2>2. DOMAIN started \subseteq DOMAIN started' /\ \A k \in DOMAIN started : started'[k] = started[k]
    OBVIOUS
  <2>3. \A k \in DOMAIN started : k \in underway' => k \in underway
    OBVIOUS
  <2>4. QED  BY <1>1, <2>1, <2>2, <2>3, LinesStay
<1>9. BatchesAreNamed'
  <2>1. started' = started /\ posting' = NoPost
    OBVIOUS
  <2>2. QED  BY <1>1, <2>1 DEF BatchesAreNamed
<1>10. FilesAgree'
  BY <1>1, <1>6 DEF FilesAgree
<1>11. BatchesAreKept'
  <2> SUFFICES ASSUME NEW k \in DOMAIN started, started[k] # Alone
               PROVE  (\/ Names(posting, started[k]) \/ started[k] \in broken
                       \/ \E p \in records.kv : Names(p, started[k]))'
    BY DEF BatchesAreKept
  <2>1. PICK b : b = started[k]
    OBVIOUS
  <2>2. started' = started /\ started'[k] = b
    BY <2>1
  <2>3. Names(posting, b) \/ b \in broken \/ \E p \in records.kv : Names(p, b)
    BY <1>1, <2>1 DEF BatchesAreKept
  <2>4. \A p : Names(p, b) => Names(p, started[k])'
    BY <2>2 DEF Names
  <2>5. CASE Names(posting, b)
    <3>1. posting.batch = b /\ posting # NoPost
      BY <2>1, <2>5 DEF Names, NoPost
    <3>2. CASE posting.batch \in broken'
      BY <2>2, <3>1, <3>2
    <3>3. CASE posting \in records'.kv
      <4>1. PICK p : p = posting
        OBVIOUS
      <4>2. Names(p, started[k])' /\ p \in records'.kv
        BY <2>4, <2>5, <3>3, <4>1
      <4>3. QED  BY <4>2
    <3>4. QED  BY <3>1, <3>2, <3>3
  <2>6. CASE b \in broken
    BY <2>2, <2>6
  <2>7. CASE \E p \in records.kv : Names(p, b)
    <3>1. PICK p \in records.kv : Names(p, b)
      BY <2>7
    <3>2. Names(p, started[k])' /\ p \in records'.kv
      BY <1>5, <2>4, <3>1
    <3>3. QED  BY <3>2
  <2>8. QED  BY <2>3, <2>5, <2>6, <2>7
<1>12. QED  BY <1>7, <1>8, <1>9, <1>10, <1>11 DEF ArchiveInv

\* A run that finishes, whether or not its files can be written.
LEMMA RunEnds ==
  ASSUME ArchiveInv, NEW r \in underway, Finish(r) \/ FinishOnFullDisk(r)
  PROVE  ArchiveInv' /\ Longer
<1>1. ArchiveTypeOK /\ LinesInOrder /\ BatchesAreNamed /\ BatchesAreKept /\ FilesAgree
  BY DEF ArchiveInv
<1>2. /\ posting \in Posts /\ records \in [memory : SUBSET Posts, kv : SUBSET Posts]
      /\ started \in Seq(Batches) /\ underway \subseteq DOMAIN started /\ full \in Nat
      /\ cut \in BOOLEAN /\ clock \in Nat /\ history \in Seq(Lines)
  BY <1>1 DEF ArchiveTypeOK
<1>3. /\ underway' = underway \ {r} /\ full' \in {full, full + 1} /\ cut' \in BOOLEAN
      /\ UNCHANGED <<started, posting, records, broken, clock>>
      /\ history' \in {history, AppendedTo(history, r)}
  BY <1>2 DEF Finish, FinishOnFullDisk, archiveBounds
<1>4. LinesInOrder' /\ history' \in Seq(Lines) /\ Longer
  BY <1>1, <1>3, LinesFollow
<1>5. ArchiveTypeOK'
  <2>1. full' \in Nat /\ underway' \subseteq DOMAIN started
    BY <1>2, <1>3
  <2>2. QED  BY <1>2, <1>3, <1>4, <2>1 DEF ArchiveTypeOK
<1>6. \A p, b : Names(p, b)' <=> Names(p, b)
  BY <1>3 DEF Names
<1>7. BatchesAreNamed'
  BY <1>1, <1>3 DEF BatchesAreNamed, Names
<1>8. BatchesAreKept'
  BY <1>1, <1>3 DEF BatchesAreKept, Names
<1>9. FilesAgree'
  <2>1. CASE FinishOnFullDisk(r)
    <3>1. full' = full + 1
      BY <2>1 DEF FinishOnFullDisk
    <3>2. full' # 0
      BY <1>2, <3>1
    <3>3. QED  BY <3>2 DEF FilesAgree
  <2>2. CASE Finish(r)
    <3>1. full' = full /\ cut' = FALSE /\ lastRun' = r /\ history' = AppendedTo(history, r)
      BY <2>2 DEF Finish, archiveBounds
    <3>2. CASE full = 0
      <4>1. ~cut
        BY <1>1, <3>2 DEF FilesAgree
      <4>2. PICK l : l = [run |-> r, at |-> clock, batch |-> started[r]]
        OBVIOUS
      <4>3. l.run = r /\ history' = Append(history, l)
        BY <3>1, <4>1, <4>2 DEF AppendedTo
      <4>4. PICK n \in Nat : n = Len(history)
        BY <1>2
      <4>5. history'[n + 1] = l /\ Len(history') = n + 1
        BY <1>2, <4>3, <4>4
      <4>6. QED  BY <3>1, <4>3, <4>5 DEF FilesAgree
    <3>3. CASE full # 0
      BY <3>1, <3>3 DEF FilesAgree
    <3>4. QED  BY <3>2, <3>3
  <2>3. QED  BY <2>1, <2>2
<1>10. QED  BY <1>4, <1>5, <1>7, <1>8, <1>9 DEF ArchiveInv

LEMMA LaterStep == ArchiveInv /\ (Later \/ UNCHANGED archiveVars) => ArchiveInv' /\ Longer
<1> SUFFICES ASSUME ArchiveInv, Later \/ UNCHANGED archiveVars PROVE ArchiveInv' /\ Longer
  OBVIOUS
<1>1. ArchiveTypeOK /\ LinesInOrder /\ BatchesAreNamed /\ BatchesAreKept /\ FilesAgree
  BY DEF ArchiveInv
<1>2. clock \in Nat
  BY <1>1 DEF ArchiveTypeOK
<1>3. /\ clock' \in Nat /\ clock <= clock'
      /\ UNCHANGED <<started, underway, posting, records, broken, history, cut, lastRun, full>>
  BY <1>2 DEF Later, archiveVars, archiveFiles
<1>4. LinesInOrder' /\ Longer
  BY <1>1, <1>3, LinesStay
<1>5. ArchiveTypeOK'
  BY <1>1, <1>3 DEF ArchiveTypeOK
<1>6. BatchesAreNamed'
  BY <1>1, <1>3 DEF BatchesAreNamed, Names
<1>7. BatchesAreKept'
  BY <1>1, <1>3 DEF BatchesAreKept, Names
<1>8. FilesAgree'
  BY <1>1, <1>3 DEF FilesAgree
<1>9. QED  BY <1>4, <1>5, <1>6, <1>7, <1>8 DEF ArchiveInv

LEMMA ArchiveStep == ArchiveInv /\ [ArchiveNext]_archiveVars => ArchiveInv' /\ Longer
<1> SUFFICES ASSUME ArchiveInv, [ArchiveNext]_archiveVars PROVE ArchiveInv' /\ Longer
  OBVIOUS
<1>1. /\ records \in [memory : SUBSET Posts, kv : SUBSET Posts]
      /\ records = [memory |-> records.memory, kv |-> records.kv]
  <2>1. records \in [memory : SUBSET Posts, kv : SUBSET Posts]
    BY DEF ArchiveInv, ArchiveTypeOK
  <2>2. QED  BY <2>1
<1>2. records \in [memory : SUBSET (records.memory \cup {posting}),
                   kv : {records.kv, records.kv \cup {posting}}]
  BY <1>1
<1>3. CASE StartAlone
  BY <1>3, RunBegins DEF StartAlone
<1>4. CASE StartOneOfBatch
  <2>1. PICK batch : /\ batch = IF posting = NoPost THEN Len(started) + 1 ELSE posting.batch
                     /\ Begin(batch)
                     /\ posting' = [batch |-> batch, runs |-> Append(posting.runs, Len(started) + 1)]
    BY <1>4 DEF StartOneOfBatch
  <2>2. QED  BY <2>1, RunBegins
<1>5. CASE BatchRefused
  <2>1. /\ posting' = NoPost /\ broken' = broken \cup {posting.batch}
        /\ UNCHANGED <<started, underway, records, history, cut, lastRun, clock, full>>
    BY <1>5 DEF BatchRefused, archiveFiles, archiveBounds
  <2>2. records' \in [memory : SUBSET (records.memory \cup {posting}),
                      kv : {records.kv, records.kv \cup {posting}}]
    BY <1>2, <2>1
  <2>3. posting.batch \in broken'
    BY <2>1
  <2>4. QED  BY <2>1, <2>2, <2>3, PostEnds
<1>6. CASE BatchRecorded
  <2>1. /\ posting' = NoPost
        /\ records' = [memory |-> records.memory \cup {posting}, kv |-> records.kv \cup {posting}]
        /\ UNCHANGED <<started, underway, broken, history, cut, lastRun, clock, full>>
    BY <1>6 DEF BatchRecorded, archiveFiles, archiveBounds
  <2>2. records' \in [memory : SUBSET (records.memory \cup {posting}),
                      kv : {records.kv, records.kv \cup {posting}}]
    BY <2>1
  <2>3. posting \in records'.kv
    BY <2>1
  <2>4. QED  BY <2>1, <2>2, <2>3, PostEnds
<1>7. CASE BatchRecordedInMemory
  <2>1. /\ posting' = NoPost /\ full' = full + 1 /\ broken' = broken \cup {posting.batch}
        /\ records' = [records EXCEPT !.memory = @ \cup {posting}]
        /\ UNCHANGED <<started, underway, history, cut, lastRun, clock>>
    BY <1>7 DEF BatchRecordedInMemory, archiveFiles
  <2>2. records' \in [memory : SUBSET (records.memory \cup {posting}),
                      kv : {records.kv, records.kv \cup {posting}}]
    BY <1>1, <2>1
  <2>3. posting.batch \in broken'
    BY <2>1
  <2>4. QED  BY <2>1, <2>2, <2>3, PostEnds
<1>8. CASE RebootServer
  <2>1. /\ posting' = NoPost /\ underway' = {} /\ broken' = broken \cup {posting.batch}
        /\ records' = [records EXCEPT !.memory = {}]
        /\ UNCHANGED <<started, history, cut, lastRun, clock, full>>
    BY <1>8 DEF RebootServer, archiveFiles
  <2>2. records' \in [memory : SUBSET (records.memory \cup {posting}),
                      kv : {records.kv, records.kv \cup {posting}}]
    BY <1>1, <2>1
  <2>3. posting.batch \in broken'
    BY <2>1
  <2>4. QED  BY <2>1, <2>2, <2>3, PostEnds
<1>9. CASE \E r \in underway : Finish(r) \/ FinishOnFullDisk(r)
  BY <1>9, RunEnds
<1>10. CASE Later \/ UNCHANGED archiveVars
  BY <1>10, LaterStep
<1>11. QED  BY <1>3, <1>4, <1>5, <1>6, <1>7, <1>8, <1>9, <1>10 DEF ArchiveNext

\* What the API says of past runs is what happened to them, after every step: solo runs
\* are grouped by bursts, batches have their records, the last run is the newest; and a run
\* shown in a group stays in it, whatever finishes, fails or restarts (HistoryIsTold).
THEOREM HistoryCorrect == ArchiveSpec => HistoryIsTold
<1>1. ArchiveInv /\ [ArchiveNext]_archiveVars => ArchiveInv'
  BY ArchiveStep
<1>2. ArchiveInv /\ ArchiveInv' /\ [ArchiveNext]_archiveVars
        => ArchiveTellsTheRuns' /\ GroupsOnlyGrow
  <2> SUFFICES ASSUME ArchiveInv, ArchiveInv', [ArchiveNext]_archiveVars
               PROVE  ArchiveTellsTheRuns' /\ GroupsOnlyGrow
    OBVIOUS
  <2>1. Longer
    BY ArchiveStep
  <2>2. ArchiveTypeOK /\ LinesInOrder /\ (ArchiveTypeOK /\ LinesInOrder)'
    BY DEF ArchiveInv
  <2>3. GroupsOnlyGrow
    BY <2>1, <2>2, GroupsStay
  <2>4. ArchiveInv => ArchiveTellsTheRuns
    BY ArchiveTells
  <2>5. ArchiveTellsTheRuns'
    <3>1. ArchiveInv'
      OBVIOUS
    <3>2. QED  BY ArchiveTells, <3>1, PTL
  <2>6. QED  BY <2>3, <2>5
<1>3. QED
  BY ArchiveInitial, <1>1, <1>2, PTL DEF ArchiveSpec, HistoryIsTold

=============================================================================
