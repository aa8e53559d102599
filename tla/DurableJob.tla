----------------------------- MODULE DurableJob -----------------------------
(*******************************************************************************)
(* What a caller of the workflow engine may rely on, whatever happens to the   *)
(* process: the durable history of a job grows by one step at a time until     *)
(* it is closed, it never shrinks unless somebody deletes it (or keeps it      *)
(* only in memory), and COMPLETED is answered only for a closed history or     *)
(* for a job with nothing to do.                                               *)
(*******************************************************************************)
EXTENDS Naturals

VARIABLES
    steps,   \* durable steps of the job
    closed,  \* the last durable step ended the job
    verdict  \* what the last call answered

Init == steps = 0 /\ closed = FALSE /\ verdict = "NONE"

\* One more step is durable.  A closed history takes no further step.
Commit ==
    /\ ~closed
    /\ steps' = steps + 1
    /\ closed' \in BOOLEAN
    /\ UNCHANGED verdict

\* A call ends.
Judge ==
    /\ verdict' \in {"COMPLETED", "FAILED", "RAISED"}
    /\ verdict' = "COMPLETED" => closed \/ steps = 0
    /\ UNCHANGED <<steps, closed>>

\* The history is deleted, as a whole or step by step, or lost with the process.
Forget ==
    /\ steps' \in 0 .. steps
    /\ closed' \in BOOLEAN
    /\ verdict' = "NONE"

Next == Commit \/ Judge \/ Forget

Spec == Init /\ [][Next]_<<steps, closed, verdict>>
=============================================================================
