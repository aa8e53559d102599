------------------------------ MODULE OracleRuns ------------------------------
(********************************************************************************)
(* The oracle prompt of the studio (ryuu_eval/http/router.py): meta-generate    *)
(* writes it, run-with-prompt answers an input with it, with and without        *)
(* structured output.                                                           *)
(*                                                                              *)
(* One fixture.  Of a prompt only the schema matters, of an answer whether it   *)
(* is JSON with cells.  What is kept of a run is an item of the collection      *)
(* store of Collections.                                                        *)
(********************************************************************************)
EXTENDS Naturals

CONSTANTS
    Tabs,          \* pages with an Execute button
    MaxExecutes,   \* bound: runs
    Nothing

ASSUME OracleRunsAssumption == MaxExecutes \in Nat

VARIABLES
    schema,    \* output_schema of the prompt on the pages
    asking,    \* run-with-prompt: at most one request of each tab
    executes

oracleVars == <<schema, asking, executes>>

-----------------------------------------------------------------------------
\* No usable schema, an open-ended map, or one with properties.
Schemas == {"none", "map", "fixed"}
ModelReplies == {"cells", "empty", "text", "schemaError", "error"}
Quiet == [at |-> "idle", schema |-> "none", forced |-> FALSE, calls |-> 0,
          content |-> Nothing, byForce |-> FALSE, skipped |-> FALSE]

OracleInit ==
    /\ schema \in Schemas
    /\ asking = [t \in Tabs |-> Quiet]
    /\ executes = 0

\* _is_dynamic_map_schema: such a schema allows {} and is left to the prompt.
Forced(s) == s = "fixed"

\* _sample_to_json_schema: whatever the sample, the schema has properties, a
\* list type or additionalProperties that are no schema.
SchemaOfSample == "fixed"

\* meta-generate: a hint that can be parsed replaces the schema of the answer.
MetaGenerate ==
    /\ \E hinted \in BOOLEAN :
          IF hinted THEN schema' = SchemaOfSample ELSE schema' \in Schemas
    /\ UNCHANGED <<asking, executes>>

\* A person edits the prompt.
EditOraclePrompt ==
    /\ schema' \in Schemas
    /\ UNCHANGED <<asking, executes>>

Execute(t) ==
    /\ asking[t].at = "idle" /\ executes < MaxExecutes
    /\ executes' = executes + 1
    /\ asking' = [asking EXCEPT ![t] = [Quiet EXCEPT
          !.at = "first", !.schema = schema, !.forced = Forced(schema),
          !.calls = 1, !.skipped = (schema = "map")]]
    /\ UNCHANGED schema

\* 502: nothing is recorded.
Fails(t) == asking' = [asking EXCEPT ![t] = Quiet]

AsksAgain(t, at) ==
    asking' = [asking EXCEPT ![t].at = at, ![t].forced = FALSE, ![t].calls = @ + 1]

\* The result, whether a schema was in force when it was given, and the note
\* schema_skipped of the response.
Has(t, content, byForce, skipped) ==
    asking' = [asking EXCEPT ![t].at = "answered", ![t].content = content,
                             ![t].byForce = byForce, ![t].skipped = skipped]

\* The first answer of the provider.
FirstReply(t, reply) ==
    /\ asking[t].at = "first"
    /\ reply = "schemaError" => asking[t].forced
    /\ CASE reply = "error"                            -> Fails(t)
         [] reply = "schemaError"                      -> AsksAgain(t, "fallback")
         [] reply = "empty" /\ asking[t].forced        -> AsksAgain(t, "retry")
         [] OTHER -> Has(t, reply, asking[t].forced, asking[t].skipped)
    /\ UNCHANGED <<schema, executes>>

\* The answer to the call after a schema error.
FallbackReply(t, reply) ==
    /\ asking[t].at = "fallback" /\ reply # "schemaError"
    /\ IF reply = "error" THEN Fails(t) ELSE Has(t, reply, FALSE, asking[t].skipped)
    /\ UNCHANGED <<schema, executes>>

\* The answer to the call after {}: an error leaves the first one standing.
RetryReply(t, reply) ==
    /\ asking[t].at = "retry" /\ reply # "schemaError"
    /\ IF reply = "error" THEN Has(t, "empty", TRUE, FALSE) ELSE Has(t, reply, FALSE, TRUE)
    /\ UNCHANGED <<schema, executes>>

\* _record_history, if a fixture is named, and the response; a failing append is
\* swallowed.
RecordRun(t) ==
    /\ asking[t].at = "answered"
    /\ asking' = [asking EXCEPT ![t] = Quiet]
    /\ UNCHANGED <<schema, executes>>

OracleNext ==
    \/ MetaGenerate \/ EditOraclePrompt
    \/ \E t \in Tabs : \/ Execute(t) \/ RecordRun(t)
                       \/ \E reply \in ModelReplies : \/ FirstReply(t, reply)
                                                 \/ FallbackReply(t, reply)
                                                 \/ RetryReply(t, reply)

OracleSpec == OracleInit /\ [][OracleNext]_oracleVars

-----------------------------------------------------------------------------
(* Properties.                                                                  *)

\* Structured output never hides an answer: {} is only returned by a prompt
\* that was also tried without it; an open-ended map is never
\* forced; and what the response says was skipped was skipped.
ForceIsNeverTheLastWord ==
    \A t \in Tabs : asking[t].at = "answered" =>
        /\ asking[t].content = "empty" => ~asking[t].byForce \/ asking[t].calls = 2
        /\ asking[t].byForce => asking[t].schema = "fixed"
        /\ asking[t].skipped => ~asking[t].byForce
        /\ asking[t].calls <= 2

=============================================================================
