--------------------------- MODULE RecallPipeline ---------------------------
(*******************************************************************************)
(* One recall through a RecallPipeline: the six built-in stages over one       *)
(* RecallContext, in whatever order a pipeline lists them, each at most        *)
(* once.  What a model or an index answers is its choice; a stage whose        *)
(* helper raises leaves the context as it was.                                 *)
(*                                                                             *)
(* A query is known by its text and its key, the text stripped and in lower    *)
(* case; a found text by its number of words.  The query asked is not blank.   *)
(* A sum is counted as the elements of a union that has as many for each term. *)
(*******************************************************************************)
EXTENDS Naturals, Sequences, FiniteSets, SequencesExt, FiniteSetsExt

CONSTANTS Queries, Original,   \* the query that was asked is one of them
          KeyOf,               \* of a query
          Found,               \* texts the index may answer
          Words,               \* of a text
          NumVariants, MaxSubqueries,
          TopK, FusionK, BudgetTokens,
          Unit                 \* what a score is counted in fractions of

ASSUME RecallAssumption ==
    /\ Original \in Queries /\ DOMAIN KeyOf = Queries
    /\ Words \in [Found -> Nat] /\ TopK \in Nat \ {0} /\ FusionK \in Nat
    /\ NumVariants \in Nat \ {0} /\ MaxSubqueries \in Nat \ {0} /\ BudgetTokens \in Nat
    /\ Unit \in Nat /\ \A rank \in 1 .. TopK : Unit % (FusionK + rank) = 0

VARIABLES context,   \* see NewContext
          ran,       \* Stages so far ...
          lastRan,   \* ... and the latest
          recalled   \* items of the result, once there is one

recallVars == <<context, ran, lastRan, recalled>>

Stages == {"intent", "expansion", "decomposition", "retrieval", "fusion", "budget"}

NothingYet == [given |-> FALSE, items |-> <<>>]

NewContext == [queries |-> <<Original>>,
               subs    |-> <<>>,
               complex |-> "unknown",   \* intent.complexity: "HIGH", or "other"
               raw     |-> <<>>,        \* raw_results, one list per query
               fused   |-> <<>>,
               skipped |-> FALSE]

RecallInit ==
    /\ context = NewContext /\ ran = {} /\ lastRan = "none" /\ recalled = NothingYet

\* The loop of recall: a skipped pipeline goes no further.
Stage(s, after) ==
    /\ s \in Stages \ ran /\ ~context.skipped /\ ~recalled.given
    /\ context' = after /\ ran' = ran \union {s} /\ lastRan' = s
    /\ UNCHANGED recalled

\* A finite set in the order of the pairs of R, a strict and total one.
InOrder(S, R) ==
    [place \in 1 .. Cardinality(S) |->
        CHOOSE x \in S : Cardinality({y \in S : <<y, x>> \in R}) = place - 1]

\* What comes first of each key stays.
OncePer(key, s) ==
    LET first == {n \in DOMAIN s : \A m \in 1 .. n - 1 : key[s[m]] # key[s[n]]}
        order == InOrder(first, {p \in first \X first : p[1] < p[2]})
    IN  [place \in DOMAIN order |-> s[order[place]]]

FirstOf(s, n) == SubSeq(s, 1, IF Len(s) < n THEN Len(s) ELSE n)

\* The stages ---------------------------------------------------------------

IntentFilter ==
    \/ \E c \in {"unknown", "HIGH", "other"}, skip \in BOOLEAN :
          Stage("intent", [context EXCEPT !.complex = c, !.skipped = skip])
    \/ Stage("intent", context)

\* Both expanders: the original, then what differs from all before, up to the limit.
Expanded(variants) ==
    FirstOf(OncePer(KeyOf, <<Original>> \o variants), NumVariants + 1)

Expansion ==
    \/ \E variants \in SeqOf(Queries, NumVariants + 1) :
          Stage("expansion", [context EXCEPT !.queries = Expanded(variants)])
    \/ Stage("expansion", context)

\* Both decomposers: at most so many parts, or the query itself, which is dropped.
Decomposition ==
    \/ /\ context.complex # "other"
       /\ \E parts \in SeqOf(Queries \ {Original}, MaxSubqueries) :
             Stage("decomposition",
                   [context EXCEPT !.subs = parts])
    \/ Stage("decomposition", context)   \* simple enough, or it raised

\* Each query once; one that fails has found nothing.
Retrieval ==
    LET asked == OncePer(KeyOf, context.queries \o context.subs)
    IN  \E lists \in [DOMAIN asked -> SeqOf(Found, TopK)] :
           Stage("retrieval", [context EXCEPT !.raw = @ \o lists])

FoundIn(lists) == UNION {ToSet(lists[l]) : l \in DOMAIN lists}

Places(i, lists) ==
    UNION {{<<l, n>> : n \in {m \in DOMAIN lists[l] : lists[l][m] = i}} : l \in DOMAIN lists}

\* One list after the other: a text is met where it occurs first.
Sooner(i, j, lists) ==
    \E p \in Places(i, lists) : \A q \in Places(j, lists) :
        p[1] < q[1] \/ (p[1] = q[1] /\ p[2] < q[2])

\* What was found, each text once.
Flat(lists) ==
    InOrder(FoundIn(lists), {p \in Found \X Found : Sooner(p[1], p[2], lists)})

\* 1 / (k + rank)
Reciprocal(rank) == Unit \div (FusionK + rank)

Score(i, lists) ==
    Cardinality(UNION {{p} \X (1 .. Reciprocal(p[2])) : p \in Places(i, lists)})

\* sorted, which keeps the order of first occurrence among equals.
Fused(lists) ==
    LET score == [i \in Found |-> Score(i, lists)]
    IN  InOrder(FoundIn(lists),
                {p \in Found \X Found :
                    \/ score[p[1]] > score[p[2]]
                    \/ score[p[1]] = score[p[2]] /\ Sooner(p[1], p[2], lists)})

Fusion == Stage("fusion", IF context.raw = <<>> THEN context
                          ELSE [context EXCEPT !.fused = Fused(context.raw)])

Estimate(i) == (Words[i] * 4) \div 3

Used(s) == Cardinality(UNION {{n} \X (1 .. Estimate(s[n])) : n \in DOMAIN s})

\* Mutant: the item that exceeds the budget is kept as well.
KeptOneMore(s) == FirstOf(s, 1 + Max({n \in 0 .. Len(s) : Used(FirstOf(s, n)) <= BudgetTokens}))

\* The longest beginning within the budget: the first item that does not fit ends it.
Kept(s) == FirstOf(s, Max({n \in 0 .. Len(s) : Used(FirstOf(s, n)) <= BudgetTokens}))

TokenBudget ==
    LET source == IF context.fused # <<>> THEN context.fused ELSE Flat(context.raw)
    IN  Stage("budget", [context EXCEPT !.fused = Kept(source)])

\* _materialize: with nothing in the ranking, everything that was found.
Materialize ==
    /\ ~recalled.given
    /\ recalled' = [given |-> TRUE,
                  items |-> IF context.fused # <<>> THEN context.fused ELSE Flat(context.raw)]
    /\ UNCHANGED <<context, ran, lastRan>>

RecallNext ==
    \/ IntentFilter \/ Expansion \/ Decomposition \/ Retrieval \/ Fusion \/ TokenBudget
    \/ Materialize

RecallSpec == RecallInit /\ [][RecallNext]_recallVars

-----------------------------------------------------------------------------
\* A text that every list with the other in it has before it.
Beats(i, j, lists) ==
    /\ \A l \in DOMAIN lists : IsInjective(lists[l])
    /\ j \in FoundIn(lists)
    /\ \A l \in DOMAIN lists : \A n \in DOMAIN lists[l] :
          lists[l][n] = j => \E m \in 1 .. n - 1 : lists[l][m] = i

\* Whatever stages a pipeline has and whichever of them fail, the answer holds each
\* text once and only texts that were found, a text that beats another in every list
\* comes before it, and the other is not there without it (RRFusionStage, _materialize);
\* where the budget came last, the answer keeps it ("trim final list to fit a token
\* budget"), unless the best text alone is larger than the budget: then the stage
\* leaves nothing, and the answer is everything that was found.
AnswerIsRanked ==
    recalled.given =>
        LET items == recalled.items
            place(i) == CHOOSE n \in DOMAIN items : items[n] = i
        IN  /\ IsInjective(items) /\ ToSet(items) \subseteq FoundIn(context.raw)
            /\ \A i, j \in Found : Beats(i, j, context.raw) /\ j \in ToSet(items) =>
                  i \in ToSet(items) /\ place(i) < place(j)
            /\ lastRan = "budget" /\ context.fused # <<>> => Used(items) <= BudgetTokens
            /\ lastRan = "budget" /\ context.fused = <<>> /\ items # <<>> =>
                  \E i \in ToSet(items) : Estimate(i) > BudgetTokens
=============================================================================
