--------------------------- MODULE AtomicBatches ---------------------------
(***************************************************************************)
(* What a user of storage.transaction() may rely on (db.py, the docstring  *)
(* of transaction(); the "Transactions" section of the storage adapters):  *)
(* a batch of writes takes effect at one instant or never. A batch that    *)
(* returned took effect, one that raised did not, and of one whose process *)
(* died before it returned nothing is known.                               *)
(***************************************************************************)
CONSTANT Batch

VARIABLES
    committed,  \* the batches that took effect
    status      \* what the caller of a batch knows of it

batchVars == <<committed, status>>

Init ==
    /\ committed = {}
    /\ status = [b \in Batch |-> "none"]

Begin(b) ==
    /\ status[b] = "none"
    /\ status' = [status EXCEPT ![b] = "running"]
    /\ UNCHANGED committed

Commit(b) ==
    /\ status[b] = "running"
    /\ committed' = committed \cup {b}
    /\ UNCHANGED status

\* The caller is told the truth.
Return(b) ==
    /\ status[b] = "running"
    /\ status' = [status EXCEPT ![b] = IF b \in committed THEN "ok" ELSE "failed"]
    /\ UNCHANGED committed

\* Some of the running batches die; those that took effect stay.
Die(B) ==
    /\ B # {}
    /\ \A b \in B : status[b] = "running"
    /\ status' = [b \in Batch |-> IF b \in B THEN "crashed" ELSE status[b]]
    /\ UNCHANGED committed

Next ==
    \/ \E b \in Batch : Begin(b) \/ Commit(b) \/ Return(b)
    \/ \E B \in SUBSET Batch : Die(B)

Spec == Init /\ [][Next]_batchVars
============================================================================
