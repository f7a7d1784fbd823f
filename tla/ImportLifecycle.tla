--------------------------- MODULE ImportLifecycle ---------------------------
(***************************************************************************)
(* What dataset-service promises about the import of one dataset, whatever  *)
(* its workers, its queue and its sweeps do: at most one delivery is        *)
(* recorded at a time, a delivery is settled once, a settled delivery       *)
(* changes only by being replaced with a newer one, none begins while a     *)
(* label job holds the dataset or after its deletion began, and none is     *)
(* pending under a hold.  One recorded before the deletion began may still  *)
(* run and be settled: the deletion cancels only an import that was active  *)
(* when the request to delete read the dataset (datasetTrash.ts).           *)
(***************************************************************************)
EXTENDS Naturals

VARIABLES current,  \* number of the recorded delivery, 0 before the first
          status,   \* its status
          held,     \* whether any label job holds the dataset
          gone      \* whether its permanent deletion has begun

vars == <<current, status, held, gone>>

Pending == {"queued", "running"}
Settled == {"done", "failed", "cancelled"}

Init ==
    /\ current = 0
    /\ status = "none"
    /\ ~held
    /\ ~gone

\* A newer delivery takes the place of none or of a settled one.
Begin ==
    /\ status \notin Pending /\ ~held /\ ~gone
    /\ current' \in Nat /\ current' > current
    /\ status' = "queued"
    /\ UNCHANGED <<held, gone>>

\* Also after the deletion began, of a dataset that its purge read before the import started.
Run ==
    /\ status \in Pending
    /\ status' = "running"
    /\ UNCHANGED <<current, held, gone>>

\* Only a delivery that ran can be done; it may fail or be cancelled before it did.
Settle ==
    /\ status \in Pending
    /\ status' \in Settled
    /\ status' = "done" => status = "running"
    /\ UNCHANGED <<current, held, gone>>

Hold ==
    /\ status \notin Pending /\ ~gone
    /\ held' = TRUE
    /\ UNCHANGED <<current, status, gone>>

Release ==
    /\ held
    /\ held' = FALSE
    /\ UNCHANGED <<current, status, gone>>

\* Deletion begins: only of an unheld dataset.  It may record the import as cancelled.
Condemn ==
    /\ ~held /\ ~gone
    /\ gone' = TRUE
    /\ status' \in {status, "cancelled"}
    /\ UNCHANGED <<current, held>>

\* The record itself is removed.
Vanish ==
    /\ gone
    /\ current' = 0
    /\ status' = "none"
    /\ UNCHANGED <<held, gone>>

Next == Begin \/ Run \/ Settle \/ Hold \/ Release \/ Condemn \/ Vanish

Spec == Init /\ [][Next]_vars
=============================================================================
