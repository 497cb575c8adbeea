--------------------------- MODULE MCStagedBatches ---------------------------
(* Instances of StagedBatches for TLC; MCRequests and MCServices hold others. *)
EXTENDS StagedBatches

CONSTANTS t1, c1, c2, b1, b2, r1, r2

On(tool, t, c) == [tool |-> tool, on |-> t, to |-> c, padded |-> FALSE]
Bare(tool) == On(tool, "none", "none")

\* A category, then a budget.
MCFailing == {<<On("update_transaction_category", t1, c1), Bare("create_budget")>>}

=============================================================================
