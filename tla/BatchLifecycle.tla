--------------------------- MODULE BatchLifecycle ---------------------------
(***************************************************************************)
(* What the orchestrator promises about the status column of its batch     *)
(* rows, whatever the interleaving of handlers, sweeps and restarts:       *)
(*  - a row is inserted "assigned" and starts "working" at most once;      *)
(*  - only an open row (given out, or taken back and still being worked on *)
(*    by its silent client) is concluded by a submission;                  *)
(*  - a "completed" row is only concluded again together with its double;  *)
(*  - "validated" and "hash_error" rows are never concluded again;         *)
(*  - any row given out may be taken back.                                 *)
(***************************************************************************)
CONSTANT Batches

VARIABLE status

Open == {"assigned", "working", "pending"}

Given == Open \cup {"completed", "validated", "hash_error"}

Moves ==
    {<<"none", "assigned">>, <<"assigned", "working">>}
        \cup (Open \X {"completed", "validated", "hash_error"})
        \cup ({"completed"} \X {"validated", "hash_error"})
        \cup (Given \X {"pending"})

Init == status = [b \in Batches |-> "none"]

Next ==
    /\ status' \in [Batches -> Given \cup {"none"}]
    /\ \A b \in Batches : status'[b] = status[b] \/ <<status[b], status'[b]>> \in Moves

Spec == Init /\ [][Next]_status

=============================================================================
