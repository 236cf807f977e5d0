--------------------------- MODULE ContractRunner ---------------------------
(***************************************************************************)
(* The frontier contract runner (frontier_contract_runner.py): one paid    *)
(* tool-contract smoke (module PaidRun) per candidate endpoint, admitted   *)
(* against a cap.  Its memory is the ledger and the artifacts; a candidate *)
(* is done when some artifact shows a pass, so one that failed, timed out  *)
(* or was lost is paid for again by the next invocation, on a new          *)
(* reservation.  An operator may release the reservation of a run that     *)
(* refused before it generated anything.                                   *)
(***************************************************************************)
EXTENDS PaidRun, FiniteSetsExt, SequencesExt

CONSTANTS
  Candidates,    \* candidate endpoints 1..K, in manifest order
  Cap,           \* cap_usd
  Ceiling,       \* cap_usd * admission_fraction
  KnownPrior,    \* KNOWN_PRIOR_OPENROUTER_EXPOSURE_USD
  MaxKills       \* bound: crashes of this runner

ASSUME ContractConstants ==
  /\ IsFiniteSet(Runs) /\ Runs = 1..Cardinality(Runs)   \* bound: reservations ever made
  /\ IsFiniteSet(Candidates) /\ Candidates = 1..Cardinality(Candidates)
  /\ Cap \in Nat /\ Ceiling \in 0..Cap
  /\ KnownPrior \in Nat /\ MaxKills \in Nat

VARIABLES
  lock,      \* holder of the global budget lock
  at,        \* where the running invocation is
  position,  \* its candidate
  entries,   \* the ledger
  kills

contractvars == <<runvars, at, position, entries, kills>>

-----------------------------------------------------------------------------
(* What an invocation reads. *)

Entry(e, r, c) == [event |-> e, run |-> r, candidate |-> c]
Logged(e, r) == \E c \in Candidates : Contains(entries, Entry(e, r, c))
ReservedRuns == {r \in Runs : Logged("reservation", r)}
current == Cardinality(ReservedRuns)

\* Fault: a timeout finalizes the reservation.
Mutant_active_ledger_reservations ==
  {r \in ReservedRuns : ~(\E e \in {"artifact", "timeout", "reconciliation"} : Logged(e, r))}

\* active_ledger_reservations: an incident finalizes nothing.
active_ledger_reservations ==
  {r \in ReservedRuns : ~(\E e \in {"artifact", "reconciliation"} : Logged(e, r))}

artifacts == {r \in Runs : file[r] \in Written}

\* scan_live_smoke_artifacts raises on an artifact it cannot read.
scan_loads == \A r \in Runs : file[r] # "torn"

Exposure(S) == SumFunctionOnSet([r \in Runs |-> claim(r)], S)
contract_exposure ==
  Exposure(artifacts) + Allowance * Cardinality(active_ledger_reservations)

\* Fault: the reservations of this runner are not counted.
Mutant_prior_exposure == Max({Exposure(artifacts), KnownPrior})

\* What the dataset runner counts for this runner.
prior_exposure ==
  Max({Exposure(artifacts), KnownPrior})
    + Allowance * Cardinality(active_ledger_reservations)

_existing_contract_pass(c) ==
  \E r \in artifacts : file[r] = "complete" /\ Contains(entries, Entry("reservation", r, c))

\* Bound: no further reservation in this instance of the model.
OutOfRuns == ReservedRuns = Runs

-----------------------------------------------------------------------------
(* One invocation of run_frontier_contracts. *)

move(where) == at' = where /\ UNCHANGED <<position, lock>>
leave == at' = "idle" /\ position' = 1 /\ lock' = "free"

log(e) == entries' = Append(entries, Entry(e, current, position))

start ==
  /\ at = "idle" /\ lock = "free"
  /\ at' = "initial" /\ lock' = "contract"
  /\ UNCHANGED <<runvars, position, entries, kills>>

\* The first scan, which prices the whole panel, decides nothing but whether
\* the files load.
initial_scan ==
  /\ at = "initial"
  /\ IF scan_loads THEN move("loop") ELSE leave
  /\ UNCHANGED <<runvars, entries, kills>>

\* Every turn scans again.
skip_candidate ==
  /\ at = "loop" /\ position \in Candidates /\ scan_loads
  /\ _existing_contract_pass(position)
  /\ position' = position + 1
  /\ UNCHANGED <<runvars, lock, at, entries, kills>>

loop_ends ==
  /\ at = "loop"
  /\ \/ position \notin Candidates
     \/ /\ scan_loads /\ ~_existing_contract_pass(position)
        /\ contract_exposure + Allowance > Ceiling \/ OutOfRuns
  /\ move("end")
  /\ UNCHANGED <<runvars, entries, kills>>

loop_raises ==
  /\ at = "loop" /\ position \in Candidates /\ ~scan_loads
  /\ leave
  /\ UNCHANGED <<runvars, entries, kills>>

\* Fault: the admission forgets the allowance of the new run.
Mutant_reserve ==
  /\ at = "loop" /\ position \in Candidates /\ scan_loads
  /\ ~_existing_contract_pass(position)
  /\ contract_exposure < Ceiling
  /\ ~OutOfRuns
  /\ entries' = Append(entries, Entry("reservation", current + 1, position))
  /\ move("launch")
  /\ UNCHANGED <<runvars, kills>>

reserve ==
  /\ at = "loop" /\ position \in Candidates /\ scan_loads
  /\ ~_existing_contract_pass(position)
  /\ contract_exposure + Allowance <= Ceiling
  /\ ~OutOfRuns
  /\ entries' = Append(entries, Entry("reservation", current + 1, position))
  /\ move("launch")
  /\ UNCHANGED <<runvars, kills>>

start_subprocess ==
  /\ at = "launch"
  /\ Launch(current)
  /\ move("wait")
  /\ UNCHANGED <<entries, kills>>

\* TimeoutExpired: subprocess.run has killed the subprocess.
timeout ==
  /\ at = "wait" /\ Die(current)
  /\ move("timed_out")
  /\ UNCHANGED <<entries, kills>>

\* A timeout or a missing artifact ends the loop, with the reservation kept.
record_incident ==
  /\ \/ at = "timed_out" /\ log("timeout")
     \/ /\ at = "wait" /\ phase[current] \in {"dead", "refused"}
        /\ log("no_artifact")
  /\ move("end")
  /\ UNCHANGED <<runvars, kills>>

\* The artifact releases the reservation, whether or not the contract passed;
\* the postflight scan raises if some other artifact cannot be read.
record_artifact ==
  /\ at = "wait" /\ phase[current] = "exited"
  /\ IF scan_loads
     THEN /\ log("artifact")
          /\ at' = "loop" /\ position' = position + 1 /\ UNCHANGED lock
     ELSE leave /\ UNCHANGED entries
  /\ UNCHANGED <<runvars, kills>>

\* The last scan, the cap check and the summary change nothing.
finish ==
  /\ at = "end"
  /\ leave
  /\ UNCHANGED <<runvars, entries, kills>>

\* Killed: the lock goes, the subprocess stays.
killed ==
  /\ at # "idle" /\ kills < MaxKills
  /\ leave
  /\ kills' = kills + 1
  /\ UNCHANGED <<runvars, entries>>

-----------------------------------------------------------------------------
(* resolve_no_artifact_reservation. *)

\* Fault: a subprocess that died counts as one that refused.
Mutant_releasable(r) ==
  /\ Logged("no_artifact", r)
  /\ \E i \in 2..Len(entries) :
       /\ entries[i].event = "reservation" /\ entries[i].run = r
       /\ entries[i - 1].event = "artifact"
       /\ file[entries[i - 1].run] = "complete" /\ reported[entries[i - 1].run] > 0

\* validate_no_artifact_reconciliation: the subprocess wrote an allow-listed
\* refusal and nothing else, the ledger entry before the reservation is a
\* complete artifact, and the account moved by exactly that artifact's cost
\* (which an operator's proof may or may not be able to show).
releasable(r) ==
  /\ Logged("no_artifact", r) /\ phase[r] = "refused"
  /\ \E i \in 2..Len(entries) :
       /\ entries[i].event = "reservation" /\ entries[i].run = r
       /\ entries[i - 1].event = "artifact"
       /\ file[entries[i - 1].run] = "complete" /\ reported[entries[i - 1].run] > 0

resolve(r) ==
  /\ lock = "free" /\ scan_loads
  /\ r \in active_ledger_reservations /\ releasable(r)
  /\ \E c \in Candidates :
       /\ Contains(entries, Entry("reservation", r, c))
       /\ entries' = Append(entries, Entry("reconciliation", r, c))
  /\ UNCHANGED <<runvars, lock, at, position, kills>>

-----------------------------------------------------------------------------
Init ==
  /\ RunInit /\ lock = "free" /\ at = "idle" /\ position = 1
  /\ entries = <<>> /\ kills = 0

RunnerStep ==
  \/ initial_scan \/ skip_candidate \/ loop_ends \/ loop_raises \/ reserve
  \/ start_subprocess \/ record_incident \/ record_artifact \/ finish

ChildStep(r) ==
  /\ Charge(r) \/ Open(r) \/ Write(r) \/ Exit(r) \/ Refuse(r) \/ Die(r)
  /\ UNCHANGED <<lock, at, position, entries, kills>>

Next ==
  \/ start \/ RunnerStep \/ timeout \/ killed
  \/ \E r \in Runs : ChildStep(r) \/ resolve(r)

Spec == Init /\ [][Next]_<<contractvars, lock>>

-----------------------------------------------------------------------------
\* Whatever the provider charges for a contract run, now or later, is counted:
\* by its artifact, by its reservation, or by both.
ContractCoversSpend ==
  \A r \in Runs : spent[r] <= (IF r \in artifacts THEN claim(r) ELSE 0)
                              + (IF r \in active_ledger_reservations THEN Allowance ELSE 0)

\* Repeated candidates, lost runs, late charges and released reservations never
\* bring the money spent over the admission ceiling.
ContractSpendUnderCeiling ==
  SumFunctionOnSet(spent, Runs) <= Ceiling
=============================================================================
