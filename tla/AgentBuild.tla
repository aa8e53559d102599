------------------------------ MODULE AgentBuild ------------------------------
(*********************************************************************************)
(* Building agents (ryuu/factory: Agent.__post_init__, _resolvers, _builders):   *)
(* which tool objects an agent gets, which schema each of them carries, and      *)
(* whose hooks are wrapped around its execute.                                   *)
(*                                                                               *)
(* Building runs without an await: it is one step.  A tool object is changed     *)
(* in place, so that agents over one ToolRegistry or over the same tool          *)
(* instances meet on it.  A call looks the name up, and execute, when it is      *)
(* made.                                                                         *)
(*********************************************************************************)
EXTENDS Naturals, FiniteSets, Sequences

CONSTANTS
    ToolNames,  \* names of tools
    Shelf,      \* the ToolRegistry that is passed: name -> object
    YamlTools,  \* the tools of a prompt file, in its order
    MaxBuilds   \* bound: attempts to build an agent, and registrations

ASSUME AgentBuildAssumption ==
    /\ MaxBuilds \in Nat /\ IsFiniteSet(ToolNames) /\ YamlTools \in Seq(ToolNames)
    /\ DOMAIN Shelf \subseteq ToolNames
    /\ Shelf \in [DOMAIN Shelf -> {"shelf", "instance"} \X {0} \X ToolNames]

VARIABLES
    shelf,      \* that registry now
    toolObject, \* object -> whose schema it carries, whose hooks are around it
    built,      \* the agents, in the order they were built
    builds

buildVars == <<shelf, toolObject, built, builds>>

-----------------------------------------------------------------------------
Unwrapped(schema) == [schema |-> schema, wraps |-> <<>>]
Instance(t) == <<"instance", 0, t>>

BuildInit ==
    /\ shelf = Shelf
    /\ toolObject = [o \in {Shelf[t] : t \in DOMAIN Shelf} \cup {Instance(t) : t \in ToolNames}
                        |-> Unwrapped("attached")]
    /\ built = <<>>
    /\ builds = 0

\* What may be asked for: where the tools come from, the prompt reference, the
\* hooks around tools, and what is wrong with the rest of the fields.
Wants == [source : {"callables", "instances", "registry"}, tools : SUBSET ToolNames,
          yaml : BOOLEAN, hooked : BOOLEAN,
          flaw : {"none", "mixedPrompt", "badField", "unknownModel"}]

\* resolve_yaml_prompt: prompt= beside instructions, system, template or examples,
\* a reference or a file that is not there.
PromptRefused(want) == want.yaml /\ want.flaw = "mixedPrompt"

\* validate: a value out of range, or two ways to say one thing.
FieldsRefused(want) ==
    \/ want.flaw = "badField"
    \/ want.source = "registry" /\ want.tools # {}

\* build_provider, for the model and each fallback.
ProviderUnknown(want) == want.flaw = "unknownModel"

\* Mutant of Registered: a function is wrapped once for all agents.
RegisteredForAll(want, n) ==
    CASE want.source = "callables" -> [t \in want.tools |-> <<"own", 1, t>>]
      [] want.source = "instances" -> [t \in want.tools |-> Instance(t)]
      [] want.source = "registry"  -> shelf

\* build_tool_registry: a function gets an object of its own, an ITool is it.
Registered(want, n) ==
    CASE want.source = "callables" -> [t \in want.tools |-> <<"own", n, t>>]
      [] want.source = "instances" -> [t \in want.tools |-> Instance(t)]
      [] want.source = "registry"  -> shelf

\* register and build_tool_schema, for functions.
WithFunctions(want, n) ==
    LET mine == {Registered(want, n)[t] : t \in DOMAIN Registered(want, n)}
    IN  [o \in DOMAIN toolObject \cup mine |->
            IF o \in DOMAIN toolObject THEN toolObject[o] ELSE Unwrapped("introspected")]

\* apply_yaml_tool_schemas: nothing without tools; otherwise one after the other,
\* up to the first that has no handler.
Paired(want, n) ==
    IF ~want.yaml \/ (want.source # "registry" /\ want.tools = {}) THEN 0
    ELSE LET missing == {i \in 1..Len(YamlTools) : YamlTools[i] \notin DOMAIN Registered(want, n)}
         IN  IF missing = {} THEN Len(YamlTools)
             ELSE (CHOOSE i \in missing : \A j \in missing : i <= j) - 1

PairingFails(want, n) ==
    want.yaml /\ (want.source = "registry" \/ want.tools # {}) /\ Paired(want, n) < Len(YamlTools)

WithSchemas(want, n, objects) ==
    LET named == {Registered(want, n)[YamlTools[i]] : i \in 1..Paired(want, n)}
    IN  [o \in DOMAIN objects |-> IF o \in named THEN [objects[o] EXCEPT !.schema = "yaml"]
                                  ELSE objects[o]]

\* The names of a registry under which an object stands.
NamesOf(registry, o) == {t \in DOMAIN registry : registry[t] = o}

\* wrap_tool_registry_with_hooks: once for each name, outside what is there.
WithHooks(want, n, objects) ==
    IF ~want.hooked THEN objects
    ELSE [o \in DOMAIN objects |->
            [objects[o] EXCEPT !.wraps =
                @ \o [i \in 1..Cardinality(NamesOf(Registered(want, n), o)) |-> n]]]

BuildAttempt ==
    /\ builds < MaxBuilds
    /\ builds' = builds + 1

\* Refused before any tool is touched.
BuildRefused(want) ==
    /\ BuildAttempt
    /\ PromptRefused(want) \/ FieldsRefused(want) \/ ProviderUnknown(want)
    /\ UNCHANGED <<shelf, toolObject, built>>

\* Agent(...), and its failure when a tool of the prompt file has no handler.
BuildAgent(want) ==
    LET n == Len(built) + 1
        paired == WithSchemas(want, n, WithFunctions(want, n))
    IN  /\ BuildAttempt
        /\ ~(PromptRefused(want) \/ FieldsRefused(want) \/ ProviderUnknown(want))
        /\ IF PairingFails(want, n)
           THEN /\ toolObject' = [o \in DOMAIN toolObject |-> paired[o]]
                /\ UNCHANGED built
           ELSE /\ toolObject' = WithHooks(want, n, paired)
                /\ built' = Append(built, [want  |-> [want EXCEPT !.flaw = "none"],
                                           names |-> Registered(want, n)])
        /\ UNCHANGED shelf

\* Somebody registers another tool under a name of the registry.
RegisterTool(t) ==
    /\ BuildAttempt
    /\ shelf' = [u \in DOMAIN shelf \cup {t} |-> IF u = t THEN <<"later", builds, t>> ELSE shelf[u]]
    /\ toolObject' = [o \in DOMAIN toolObject \cup {<<"later", builds, t>>} |->
                        IF o \in DOMAIN toolObject THEN toolObject[o] ELSE Unwrapped("attached")]
    /\ UNCHANGED built

BuildNext ==
    \/ \E want \in Wants : BuildRefused(want) \/ BuildAgent(want)
    \/ \E t \in ToolNames : RegisterTool(t)

BuildSpec == BuildInit /\ [][BuildNext]_buildVars

-----------------------------------------------------------------------------
(* Properties.                                                                   *)

\* The object that agent n calls by a name, and whose hooks fire around it.
Called(n, t) == IF built[n].want.source = "registry" THEN shelf[t] ELSE built[n].names[t]
HooksOf(n, t) == toolObject[Called(n, t)].wraps
TimesIn(n, s) == Cardinality({i \in DOMAIN s : s[i] = n})

\* Around a tool the hooks of an agent fire once for each name under which it
\* had the tool when it was built, however many agents were built, refused or
\* failed before and after; around a function only its own hooks fire.
HooksFireOnce ==
    \A n \in 1..Len(built) :
        LET a == built[n]
        IN  /\ \A o \in DOMAIN toolObject :
                  TimesIn(n, toolObject[o].wraps) =
                      IF a.want.hooked THEN Cardinality(NamesOf(a.names, o)) ELSE 0
            /\ a.want.source = "callables" =>
                  \A t \in DOMAIN a.names : \A i \in DOMAIN HooksOf(n, t) : HooksOf(n, t)[i] = n

\* The schema of a function is its signature's, unless its own agent's prompt
\* file has one.
SchemasAreOwn ==
    \A n \in 1..Len(built) : built[n].want.source = "callables" =>
        \A t \in DOMAIN built[n].names :
            toolObject[built[n].names[t]].schema =
                IF built[n].want.yaml /\ \E i \in 1..Len(YamlTools) : YamlTools[i] = t
                THEN "yaml" ELSE "introspected"

\* Building one agent leaves the tools of the others as they are, as far as the
\* tools are functions.
AgentsOwnTheirTools == HooksFireOnce /\ SchemasAreOwn
=============================================================================
