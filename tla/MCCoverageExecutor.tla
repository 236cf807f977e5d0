------------------------- MODULE MCCoverageExecutor -------------------------
(* A small instance of CoverageExecutor: a priced batch of one cell, a priced *)
(* one of two cells that fits only if the first cost nothing, and an unpriced *)
(* one for which the operator has two admissions.                            *)
EXTENDS CoverageExecutor

MCRuns == 1..4
MCBatches == 1..3
MCBatchOf == <<1, 2, 2, 3>>
MCAdmissions == {[batch |-> 1, version |-> 1], [batch |-> 2, version |-> 1],
                 [batch |-> 3, version |-> 1], [batch |-> 3, version |-> 2]}
=============================================================================
