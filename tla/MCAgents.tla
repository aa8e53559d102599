------------------------------ MODULE MCAgents ------------------------------
(********************************************************************************)
(* Eight parts of building, calling and composing agents, which share no        *)
(* state here and are checked by one run: a behaviour is one of the part that   *)
(* it names, while the others stay as they began.                               *)
(********************************************************************************)
EXTENDS FactoryAgent, SenseiApp, AgentHooks, ProviderCalls, BatchRun, ReasoningLoops,
        AgentBuild, SkillCatalog, TLC

VARIABLE part

\* What the APIs say of models that refuse something.
MCRefuses == "adaptive" :> {"temperature"} @@ "small" :> {"thinking"}
                 @@ "oseries" :> {"temperature", "max_tokens"}

MCHandlerModes == <<"sequential", "parallel", "sequential">>

\* A registry with one tool under two names.
MCShelf == "add" :> <<"shelf", 0, "add">> @@ "sum" :> <<"shelf", 0, "add">>

MCYamlTools == <<"add", "sum">>

\* The directory that is passed last.
Bundled == 1

\* All bundled skills are there when the process starts; the user has any.
AsShipped == {Bundled} \X Stems \subseteq OnDisk

\* What a part that does not move in this behaviour looks like.
Resting(p) == part # p

Init ==
    /\ part \in {"factory", "sensei", "hooks", "providers", "batch", "reasoning", "build",
                 "catalog"}
    /\ FactoryInit
    /\ Resting("factory") => mode = "run"
    /\ ProviderInit
    /\ Resting("providers") => chain = <<"openai">>
    /\ BatchInit
    /\ Resting("batch") => inputs = <<>> /\ batchMode = "gather" /\ onError = "raise"
    /\ CatalogInit
    /\ AsShipped
    /\ Resting("catalog") => \A p \in OnDisk : p[1] = Bundled
    /\ SenseiInit /\ HooksInit /\ ReasoningInit /\ BuildInit

OthersRest ==
    /\ UNCHANGED part
    /\ IF part = "factory"   THEN TRUE ELSE UNCHANGED factoryVars
    /\ IF part = "sensei"    THEN TRUE ELSE UNCHANGED senseiVars
    /\ IF part = "hooks"     THEN TRUE ELSE UNCHANGED hooksVars
    /\ IF part = "providers" THEN TRUE ELSE UNCHANGED providerVars
    /\ IF part = "batch"     THEN TRUE ELSE UNCHANGED batchVars
    /\ IF part = "reasoning" THEN TRUE ELSE UNCHANGED reasoningVars
    /\ IF part = "build"     THEN TRUE ELSE UNCHANGED buildVars
    /\ IF part = "catalog"   THEN TRUE ELSE UNCHANGED catalogVars

Next ==
    \/ part = "factory"   /\ FactoryNext   /\ OthersRest
    \/ part = "sensei"    /\ SenseiNext    /\ OthersRest
    \/ part = "hooks"     /\ HooksNext     /\ OthersRest
    \/ part = "providers" /\ ProviderNext  /\ OthersRest
    \/ part = "batch"     /\ BatchNext     /\ OthersRest
    \/ part = "reasoning" /\ ReasoningNext /\ OthersRest
    \/ part = "build"     /\ BuildNext     /\ OthersRest
    \/ part = "catalog"   /\ CatalogNext   /\ OthersRest

Spec == Init /\ [][Next]_<<part, factoryVars, senseiVars, hooksVars, providerVars, batchVars,
                           reasoningVars, buildVars, catalogVars>>
=============================================================================
