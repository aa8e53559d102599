---------------------------- MODULE MCKnowledge -----------------------------
(********************************************************************************)
(* Six parts of storing, remembering and recalling, which share no state here   *)
(* and are checked by one run: a behaviour is one of the part that it names,    *)
(* while the others stay as they began.                                         *)
(********************************************************************************)
EXTENDS MemoryLayers, RecallPipeline, ProfileFacts, Collections, ConnectionPool, AuditTrail, TLC

VARIABLE part

\* Low importance decays first, as 21 days before 34.
Lifetimes == "low" :> 0 @@ "medium" :> 1

MCKeyOf == 1 :> 1 @@ 2 :> 1 @@ 3 :> 2

MCWords == "short" :> 1 @@ "medium" :> 3 @@ "long" :> 9

Symmetry == Permutations(Cycles)

\* What a part that does not move in this behaviour looks like.
Resting(p) == part # p

Init ==
    /\ part \in {"memory", "recall", "profile", "collection", "pool", "audit"}
    /\ MemoryInit
    /\ Resting("memory") => setup = [filter |-> FALSE, embedder |-> FALSE, llm |-> FALSE]
    /\ CollectionInit
    /\ Resting("collection") => backend = "memory"
    /\ RecallInit /\ ProfileInit /\ PoolInit /\ AuditInit

OthersRest ==
    /\ UNCHANGED part
    /\ IF part = "memory"     THEN TRUE ELSE UNCHANGED memoryVars
    /\ IF part = "recall"     THEN TRUE ELSE UNCHANGED recallVars
    /\ IF part = "profile"    THEN TRUE ELSE UNCHANGED profileVars
    /\ IF part = "collection" THEN TRUE ELSE UNCHANGED collectionVars
    /\ IF part = "pool"       THEN TRUE ELSE UNCHANGED poolVars
    /\ IF part = "audit"      THEN TRUE ELSE UNCHANGED auditVars

Next ==
    \/ part = "memory"     /\ MemoryNext     /\ OthersRest
    \/ part = "recall"     /\ RecallNext     /\ OthersRest
    \/ part = "profile"    /\ ProfileNext    /\ OthersRest
    \/ part = "collection" /\ CollectionNext /\ OthersRest
    \/ part = "pool"       /\ PoolNext       /\ OthersRest
    \/ part = "audit"      /\ AuditNext      /\ OthersRest

Spec == Init /\ [][Next]_<<part, memoryVars, recallVars, profileVars, collectionVars, poolVars,
                           auditVars>>
=============================================================================
