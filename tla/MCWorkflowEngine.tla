-------------------------- MODULE MCWorkflowEngine --------------------------
(* Instances of WorkflowEngine for TLC.                                      *)
EXTENDS WorkflowEngine

CONSTANTS a, b, d, z   \* two states, a marker ("DONE"), an id nobody defines

MCStateIds == {a, b, d, z}

\* The deployed workflow; one that starts at a state listed as a marker; and one
\* whose initial state is missing, as after a faulty upgrade between a kill and
\* the resume.
Deployed == [states |-> {a, b}, initial |-> a, terminals |-> {d}]
Trivial  == [states |-> {a, d}, initial |-> d, terminals |-> {d}]
Invalid  == [states |-> {b}, initial |-> a, terminals |-> {d}]
MCWorkflows == {Deployed, Trivial, Invalid}
=============================================================================
