---------------------------- MODULE SharedBudget ----------------------------
(***************************************************************************)
(* The two governed runners on one provider account.  They share the       *)
(* global budget lock; the dataset runner also reads the contract runner's *)
(* artifacts and ledger (prior), the contract runner reads nothing of the  *)
(* dataset runner's.  Subprocesses outlive the invocation that started     *)
(* them, so both can have one under way.                                   *)
(***************************************************************************)
EXTENDS ContractRunner

CONSTANTS Items, Outcomes, ArmCost, N, Forecast, Modes, MaxNewPairs, Drifting, MaxCrashes

VARIABLES proc, arm, billed, acct, last, journal, events, art,
          llock, pc, mode, item, started, ledger, recorded, responses, resolver,
          resfile, launches, crashes

datasetvars == <<proc, arm, billed, acct, last, journal, events, art,
                 llock, pc, mode, item, started, ledger, recorded, responses, resolver,
                 resfile, launches, crashes>>

\* _load_state: the contract runner's files are scanned with its own functions.
prior == IF scan_loads THEN prior_exposure ELSE -1

D == INSTANCE DatasetRunner WITH Runs <- Items, Priors <- {KnownPrior}

\* What DatasetRunner and LiveSmoke assume of their constants; Cap and Ceiling
\* are those of both runners.
ASSUME SharedConstants ==
  /\ N \in Nat \ {0} /\ Items = 1..N
  /\ Outcomes \subseteq DOMAIN D!OutcomeEvent /\ ArmCost \in Nat \ {0}
  /\ Forecast \in Nat /\ 2 * ArmCost <= Forecast
  /\ Modes \subseteq {"execute", "finalize", "quarantine"}
  /\ MaxNewPairs \in Nat \ {0} /\ Drifting \subseteq Items /\ MaxCrashes \in Nat

JointInit == Init /\ D!Init

ContractSteps == Next /\ UNCHANGED datasetvars
DatasetSteps == UNCHANGED contractvars /\ D!Next

JointNext == ContractSteps \/ DatasetSteps
jointvars == <<contractvars, datasetvars, lock>>

JointSpec == JointInit /\ [][JointNext]_jointvars

-----------------------------------------------------------------------------
ContractSpend == SumFunctionOnSet(spent, Runs)
DatasetSpend == SumFunctionOnSet([w \in Items |-> D!Billed(w)], Items)

\* The dataset runner's books cover what both runners have spent, at every
\* moment at which it can read them.
BooksCoverBoth == prior >= 0 => ContractSpend + DatasetSpend <= D!total_exposure_usd

\* While the dataset runner holds an admission, the money spent by both stays
\* under the ceiling it admitted against: also the charges of contract runs that
\* were lost, killed or are still under way on their own.
DatasetAdmitsJointly ==
  pc \in {"launch", "wait"} => ContractSpend + DatasetSpend <= Ceiling

=============================================================================
