--------------------------- MODULE MCBudgetLedger ---------------------------
(***************************************************************************)
(* Instances of BudgetLedger: two seasons that share the provider account  *)
(* of k1.  b1 runs in a controlled run of s1 with one arm on each backend, *)
(* b2 is a public battle of s2 with both arms on k1.                       *)
(***************************************************************************)
EXTENDS BudgetLedger

CONSTANTS b1, b2, s1, s2, r1, k1, k2

MCSeasonOf == [b \in Battles |-> IF b = b1 THEN s1 ELSE s2]
MCRunOf == [b \in Battles |-> IF b = b1 THEN r1 ELSE NoRun]
MCRunSeason == [r \in Runs |-> s1]

\* Both arms of every battle on k1, except the right arm of b1.
MCBackendOf == [a \in Arms |-> IF a = <<b1, "right">> THEN k2 ELSE k1]
OneBackend == [a \in Arms |-> k1]

MCWorst == [a \in Arms |-> 2]

\* The run admits b1 alone and is the first to be overrun; the account of k1
\* admits both battles and is overrun by what they may cost together.
MCCap == [g \in Budgets |-> IF g[1] = "run" THEN 5 ELSE 10]

MCOpening == [k \in Backends |-> IF k = k1 THEN 1 ELSE 0]

\* Only the shared account of k1 is rotated.
TwoEpochs == [k \in Backends |-> IF k = k1 THEN 2 ELSE 1]

MCBedrock == {k1}
\* A negative report that is clamped, the worst case, and an overrun.
MCReported == {-1, 6}
ExactOrOver == {2, 6}
\* The validities that end in a behaviour.
AccountAndProvider == {<<"provider", s2, k1>>, <<"account", k1>>}
=============================================================================
