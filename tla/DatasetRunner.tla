---------------------------- MODULE DatasetRunner ----------------------------
(***************************************************************************)
(* The governed collector of real data (real_dataset_runner.py).  It works *)
(* through a frozen list of work items, one paid live_smoke subprocess     *)
(* (module LiveSmoke) per item.  Everything it knows between invocations   *)
(* is in files: the hash-chained ledger, the source artifacts, the         *)
(* responses and the incident resolutions.  An invocation holds the global *)
(* budget lock and the ledger lock; a crash releases both, but the         *)
(* subprocess it started lives on.                                         *)
(*                                                                         *)
(* A second program, record_no_id_source_incident_resolution, appends      *)
(* conservative closures under the ledger lock alone.                      *)
(***************************************************************************)
EXTENDS LiveSmoke, FiniteSetsExt

CONSTANTS
  N,            \* work items 1..N, in workload order
  Forecast,     \* worst-case reserve of one pair
  Ceiling,      \* cap_usd * admission_fraction
  Cap,          \* cap_usd
  Modes,        \* the command-line modes the operator uses
  MaxNewPairs,  \* --max-new-pairs
  Priors,       \* what the contract runner may have spent or reserved before
  Drifting,     \* items whose source fails _source_postflight_issues
  MaxCrashes    \* bound: crashes of the runner or the resolver

ASSUME RunnerConstants ==
  /\ N \in Nat \ {0} /\ Runs = 1..N
  /\ Forecast \in Nat /\ 2 * ArmCost <= Forecast
  /\ Ceiling \in Nat /\ Cap \in Nat /\ Ceiling <= Cap
  /\ Modes \subseteq {"execute", "finalize", "quarantine"}
  /\ MaxNewPairs \in Nat \ {0}
  /\ Priors \subseteq Nat
  /\ Drifting \subseteq Runs
  /\ MaxCrashes \in Nat

VARIABLES
  prior,      \* what the frontier contract runner has spent or reserved
  lock,       \* holder of the global budget lock
  llock,      \* holder of the ledger lock
  pc, mode, item, started,   \* the running invocation
  ledger,     \* the ledger's events, by work item
  recorded,   \* exposure basis and conditions of source_artifact_recorded
  responses,  \* response artifacts, by work item
  resolver,   \* the item being resolved, or 0
  resfile,    \* items with a resolution artifact
  launches,   \* history: how often an item was launched
  crashes

files == <<ledger, recorded, responses, resfile>>
runner == <<pc, mode, item, started, lock>>
vars == <<smokevars, prior, lock, llock, pc, mode, item, started, ledger, recorded,
          responses, resolver, resfile, launches, crashes>>

Incidents == {"timeout", "no_artifact", "postflight_mismatch", "unreconciled"}
LedgerEvents == Incidents \cup {"reservation", "resolution", "recorded"}

-----------------------------------------------------------------------------
(* DatasetState: what an invocation reads from the files. *)

Has(w, e) == e \in ledger[w]

\* Fault: a timeout releases the reservation.
Mutant_Reserved(w) == Has(w, "reservation") /\ ~Has(w, "timeout")

Reserved(w) == Has(w, "reservation")
Source(w) == art[w] = "whole"
Resolved(w) == Has(w, "resolution")

\* What prior is while the contract runner's files do not load.
Unreadable == -1

\* The exposure basis of a source.  A recorded resolution replaces it.
basis(w) == IF Resolved(w) THEN "resolved"
            ELSE IF AccountedSource(w) THEN "actual" ELSE "full"

Unresolved(w) == Source(w) /\ basis(w) = "full"

\* What a work item counts for: a reservation until its source is there.
exposure(w) ==
  IF Source(w) THEN (IF basis(w) = "actual" THEN ActualCost(w) ELSE Forecast)
  ELSE IF Reserved(w) THEN Forecast ELSE 0

DatasetExposure == SumFunctionOnSet([w \in Runs |-> exposure(w)], Runs)
total_exposure_usd == prior + DatasetExposure

\* Fault: only the next item is counted.
Mutant_remaining_block == total_exposure_usd + Forecast

\* The complete remaining block: everything not yet reserved.
remaining_block ==
  total_exposure_usd + Forecast * Cardinality({w \in Runs : ~Reserved(w)})

\* The conditions normalise_source_responses writes, and those it refuses.  A
\* misidentified result is left out before its cost is looked at.
normalizable(w) == {c \in Arms : arm[w][c] = "answered" /\ acct[w][c] = "reconciled"}
rejected_accounting(w) ==
  \E c \in Arms : arm[w][c] = "answered" /\ acct[w][c] = "unreconciled"

\* _load_state raises nothing: neither over the contract runner's files, which
\* it reads first, nor over its own.
FilesLoad ==
  prior # Unreadable /\ \A w \in Runs :
    /\ art[w] # "torn"
    /\ w \in resfile <=> Resolved(w)
    /\ Has(w, "recorded") =>
         /\ Source(w) /\ recorded[w].conditions = responses[w]
         /\ Resolved(w) => recorded[w].basis = "resolved"
    /\ responses[w] # {} => Source(w)

\* Nor does _validate_state_against_workload, nor the plan, which refuses a
\* source without a governed reservation.
StateLoads ==
  FilesLoad /\ \A w \in Runs : Source(w) => Reserved(w) /\ w \notin Drifting

\* build_dataset_plan: what keeps an invocation from paying for anything.
plan_blocked ==
  \/ \E w \in Runs : /\ Reserved(w) /\ ~Has(w, "recorded")
                     /\ ~Source(w) \/ Unresolved(w)
  \/ (\E w \in Runs : ~Reserved(w)) /\ remaining_block > Ceiling

-----------------------------------------------------------------------------
(* One invocation of run_real_exploratory_dataset. *)

\* Leaving an invocation, normally or with an exception, releases the locks.
leave ==
  /\ pc' = "idle" /\ lock' = "free" /\ llock' = "free"
  /\ mode' = "none" /\ item' = 1 /\ started' = 0

goto(where) == pc' = where /\ UNCHANGED <<lock, llock, mode, item, started>>
\* Fault: the loop advances twice.
Mutant_next_item == /\ pc' = "loop" /\ item' = item + 2
                    /\ UNCHANGED <<lock, llock, mode, started>>

next_item == /\ pc' = "loop" /\ item' = item + 1
             /\ UNCHANGED <<lock, llock, mode, started>>

append(w, e) == ledger' = [ledger EXCEPT ![w] = @ \cup {e}]

OnlyRunner == UNCHANGED <<smokevars, prior, recorded, responses, resolver, resfile,
                          launches, crashes>>

\* The global lock first, then the ledger lock.
invoke(m) ==
  /\ pc = "idle" /\ lock = "free"
  /\ pc' = "locking" /\ lock' = "dataset" /\ mode' = m
  /\ UNCHANGED <<llock, item, started, ledger>> /\ OnlyRunner

lock_ledger ==
  /\ pc = "locking" /\ llock = "free"
  /\ pc' = "plan" /\ llock' = "run"
  /\ UNCHANGED <<lock, mode, item, started, ledger>> /\ OnlyRunner

plan ==
  /\ pc = "plan"
  /\ IF ~StateLoads THEN leave
     ELSE IF mode = "execute" /\ plan_blocked THEN goto("end") ELSE goto("loop")
  /\ UNCHANGED ledger /\ OnlyRunner

\* Fault: the quarantine mode is not exempted.
Mutant_stop ==
  \/ item > N
  \/ /\ item <= N /\ ~Has(item, "recorded")
     /\ \/ Reserved(item) /\ (~Source(item) \/ Unresolved(item))
        \/ /\ ~Reserved(item) /\ mode = "execute"
           /\ started >= MaxNewPairs \/ remaining_block > Ceiling

\* The loop is over, or it stops at an item.
stop ==
  \/ item > N
  \/ /\ item <= N /\ ~Has(item, "recorded")
     /\ \/ Reserved(item) /\ ~Source(item)
        \/ Reserved(item) /\ Unresolved(item) /\ mode # "quarantine"
        \/ /\ ~Reserved(item) /\ mode = "execute"
           /\ \/ started >= MaxNewPairs
              \/ remaining_block > Ceiling

loop_stops ==
  /\ pc = "loop" /\ (item > N \/ StateLoads) /\ stop
  /\ goto("end")
  /\ UNCHANGED ledger /\ OnlyRunner

skip_item ==
  /\ pc = "loop" /\ item <= N /\ StateLoads
  /\ \/ Has(item, "recorded")
     \/ ~Reserved(item) /\ mode # "execute"
  /\ next_item
  /\ UNCHANGED ledger /\ OnlyRunner

\* Fault: an unresolved source is finalized like any other.
Mutant_recover_source ==
  /\ pc = "loop" /\ item <= N /\ StateLoads
  /\ Reserved(item) /\ ~Has(item, "recorded") /\ Source(item)
  /\ goto("respond")
  /\ UNCHANGED ledger /\ OnlyRunner

\* A source of an earlier invocation, finalized without a provider call.  An
\* unresolved one only with its exact incident.
recover_source ==
  /\ pc = "loop" /\ item <= N /\ StateLoads
  /\ Reserved(item) /\ ~Has(item, "recorded") /\ Source(item)
  /\ Unresolved(item) => mode = "quarantine" /\ Has(item, "unreconciled")
  /\ goto("respond")
  /\ UNCHANGED ledger /\ OnlyRunner

\* IntegrityError: the state does not load, or an unresolved source lacks its
\* exact incident.
loop_raises ==
  /\ pc = "loop" /\ item <= N
  /\ \/ ~StateLoads
     \/ /\ mode = "quarantine" /\ Reserved(item) /\ ~Has(item, "recorded")
        /\ Unresolved(item) /\ ~Has(item, "unreconciled")
  /\ leave
  /\ UNCHANGED ledger /\ OnlyRunner

\* Admission: the reservation is durable before the subprocess exists.
reserve ==
  /\ pc = "loop" /\ item <= N /\ StateLoads
  /\ mode = "execute" /\ ~Reserved(item)
  /\ started < MaxNewPairs /\ remaining_block <= Ceiling
  /\ goto("launch")
  /\ append(item, "reservation") /\ OnlyRunner

start_subprocess ==
  /\ pc = "launch"
  /\ launch(item)
  /\ launches' = [launches EXCEPT ![item] = @ + 1]
  /\ started' = started + 1 /\ pc' = "wait"
  /\ UNCHANGED <<lock, llock, mode, item, ledger, prior, recorded, responses, resolver,
                 resfile, crashes>>

\* TimeoutExpired: subprocess.run kills the subprocess and waits for it.
timeout ==
  /\ pc = "wait" /\ dies(item)
  /\ goto("timed_out")
  /\ UNCHANGED <<ledger, prior, recorded, responses, resolver, resfile, launches, crashes>>

\* Fault: the loop goes on after an incident.
Mutant_record_incident(e) ==
  IF \A r \in Runs : JournalLoads(r)
  THEN next_item /\ append(item, e)
  ELSE leave /\ UNCHANGED ledger

\* The recovery journals go into the incident; a journal that does not load
\* raises JournalIntegrityError and leaves no incident.
record_incident(e) ==
  IF \A r \in Runs : JournalLoads(r)
  THEN goto("end") /\ append(item, e)
  ELSE leave /\ UNCHANGED ledger

record_timeout ==
  /\ pc = "timed_out"
  /\ record_incident("timeout")
  /\ OnlyRunner

\* The subprocess has ended without naming an artifact.
no_artifact ==
  /\ pc = "wait" /\ proc[item] \in {"dead", "refused"}
  /\ record_incident("no_artifact")
  /\ OnlyRunner

\* It has named one: the postflight decides what becomes of it.
postflight ==
  /\ pc = "wait" /\ proc[item] = "exited"
  /\ IF ~FilesLoad THEN leave /\ UNCHANGED ledger
     ELSE IF item \in Drifting THEN goto("end") /\ append(item, "postflight_mismatch")
     ELSE IF Unresolved(item) THEN goto("end") /\ append(item, "unreconciled")
     ELSE goto("respond") /\ UNCHANGED ledger
  /\ OnlyRunner

\* normalise_source_responses writes the responses one file at a time.
write_response(c) ==
  /\ pc = "respond" /\ c \in normalizable(item) \ responses[item]
  /\ c = "on" => "off" \notin normalizable(item) \ responses[item]
  /\ responses' = [responses EXCEPT ![item] = @ \cup {c}]
  /\ UNCHANGED <<runner, llock, ledger, smokevars, prior, recorded, resolver, resfile,
                 launches, crashes>>

\* _finalize_source appends source_artifact_recorded, unless a completed arm
\* has a cost that was not reconciled.
finalize_source ==
  /\ pc = "respond" /\ normalizable(item) \subseteq responses[item]
  /\ IF rejected_accounting(item)
     THEN leave /\ UNCHANGED <<ledger, recorded>>
     ELSE /\ next_item
          /\ append(item, "recorded")
          /\ recorded' = [recorded EXCEPT ![item] =
                            [basis |-> basis(item), conditions |-> normalizable(item)]]
  /\ UNCHANGED <<smokevars, prior, responses, resolver, resfile, launches, crashes>>

\* The final load, the final cap check and the summary change nothing.
finish ==
  /\ pc = "end"
  /\ leave
  /\ UNCHANGED ledger /\ OnlyRunner

\* The runner is killed: its locks go, its subprocess stays.
runner_crashes ==
  /\ pc # "idle" /\ crashes < MaxCrashes
  /\ pc' = "idle" /\ lock' = "free"
  /\ mode' = "none" /\ item' = 1 /\ started' = 0
  /\ llock' = IF llock = "run" THEN "free" ELSE llock
  /\ crashes' = crashes + 1
  /\ UNCHANGED <<ledger, smokevars, prior, recorded, responses, resolver, resfile,
                 launches>>

-----------------------------------------------------------------------------
(* record_no_id_source_incident_resolution. *)

OnlyResolver == UNCHANGED <<runner, smokevars, prior, recorded, responses, launches>>

\* Fault: a resolution artifact that exists is refused.
Mutant_resolvable_once(w) ==
  /\ Has(w, "unreconciled") /\ ~Has(w, "recorded") /\ w \notin resfile
  /\ Unresolved(w) /\ arm[w]["off"] = "noid" /\ normalizable(w) = {"on"}

\* The approved case only: the Epicure-off arm got HTTP 200 without a choice
\* and the Epicure-on arm has a reconciled result.
resolvable(w) ==
  /\ Has(w, "unreconciled") /\ ~Has(w, "recorded") /\ ~Resolved(w)
  /\ Unresolved(w) /\ arm[w]["off"] = "noid" /\ normalizable(w) = {"on"}

\* Under the ledger lock: check, then write the resolution artifact.
resolve(w) ==
  /\ llock = "free" /\ resolver = 0
  /\ \A r \in Runs : art[r] # "torn"
  /\ resolvable(w)
  /\ llock' = "resolve" /\ resolver' = w
  /\ resfile' = resfile \cup {w}
  /\ UNCHANGED <<ledger, crashes>> /\ OnlyResolver

\* ... then append the ledger event that makes it effective.
record_resolution ==
  /\ resolver # 0
  /\ append(resolver, "resolution")
  /\ llock' = "free" /\ resolver' = 0
  /\ UNCHANGED <<resfile, crashes>> /\ OnlyResolver

resolver_crashes ==
  /\ resolver # 0 /\ crashes < MaxCrashes
  /\ llock' = "free" /\ resolver' = 0 /\ crashes' = crashes + 1
  /\ UNCHANGED <<ledger, resfile>> /\ OnlyResolver

-----------------------------------------------------------------------------
Init ==
  /\ SmokeInit
  /\ prior \in Priors /\ lock = "free" /\ llock = "free"
  /\ pc = "idle" /\ mode = "none" /\ item = 1 /\ started = 0
  /\ ledger = [w \in Runs |-> {}]
  /\ recorded = [w \in Runs |-> [basis |-> "none", conditions |-> {}]]
  /\ responses = [w \in Runs |-> {}]
  /\ resolver = 0 /\ resfile = {}
  /\ launches = [w \in Runs |-> 0] /\ crashes = 0

RunnerStep ==
  \/ lock_ledger \/ plan \/ loop_stops \/ skip_item \/ recover_source \/ loop_raises
  \/ reserve \/ start_subprocess \/ record_timeout \/ no_artifact \/ postflight
  \/ \E c \in Arms : write_response(c)
  \/ finalize_source \/ finish

ChildStep(w) ==
  /\ SmokeStep(w)
  /\ UNCHANGED <<runner, llock, files, prior, resolver, launches, crashes>>

Next ==
  \/ \E m \in Modes : invoke(m)
  \/ RunnerStep \/ timeout \/ runner_crashes
  \/ \E w \in Runs : ChildStep(w) \/ resolve(w)
  \/ record_resolution \/ resolver_crashes

Spec == Init /\ [][Next]_vars

-----------------------------------------------------------------------------
(* Safety. *)

\* The state of the subprocesses, the runner and its files is well formed.
TypeOK ==
  /\ SmokeTypeOK
  /\ prior \in Nat \cup {Unreadable}
  /\ lock \in {"free", "dataset", "contract"} /\ llock \in {"free", "run", "resolve"}
  /\ pc \in {"idle", "locking", "plan", "loop", "launch", "wait", "timed_out",
             "respond", "end"}
  /\ mode \in Modes \cup {"none"}
  /\ item \in 1..(N + 1) /\ started \in 0..N
  /\ ledger \in [Runs -> SUBSET LedgerEvents]
  /\ recorded \in [Runs -> [basis : {"none", "actual", "full", "resolved"},
                            conditions : SUBSET Arms]]
  /\ responses \in [Runs -> SUBSET Arms]
  /\ resolver \in Runs \cup {0} /\ resfile \subseteq Runs
  /\ launches \in [Runs -> Nat] /\ crashes \in 0..MaxCrashes

\* A work item is launched at most once, over every crash, timeout and mode in
\* which the command is run again; and never without its reservation.
LaunchedOnce == \A w \in Runs : launches[w] <= IF Has(w, "reservation") THEN 1 ELSE 0

\* What the runner counts for an item covers what the provider charges for it,
\* at every moment: before the source, after it, and after a late charge.
ExposureCoversSpend == \A w \in Runs : Billed(w) <= exposure(w)

\* Work items run strictly one after the other: an item is reserved only when
\* every earlier one is recorded, and no two subprocesses can pay at the same
\* time, orphans of a killed runner included.
StrictlySequential ==
  /\ \A v, w \in Runs : v < w /\ Reserved(w) => Has(v, "recorded")
  /\ \A v, w \in Runs : Live(v) /\ ~Source(v) /\ Live(w) /\ ~Source(w) => v = w

\* Whole blocks only: once anything is reserved, what the contract runner holds,
\* what the provider has charged for the items so far, crashed and timed out ones
\* included, and the reserves of ALL items still to come fit under the admission
\* ceiling, so that the runner never finds itself unable to pay for the rest
\* (the admission checks of build_dataset_plan and of the loop).
BlockFits ==
  (\E w \in Runs : Reserved(w)) =>
    prior + SumFunctionOnSet([w \in Runs |-> Billed(w)], Runs)
      + Forecast * Cardinality({w \in Runs : ~Reserved(w)}) <= Ceiling

\* A ledger record keeps describing its files: no later write of the runner,
\* the resolver or a straggling subprocess changes the basis or the responses.
RecordStands ==
  \A w \in Runs : Has(w, "recorded") =>
    /\ Source(w) /\ recorded[w] = [basis |-> basis(w), conditions |-> responses[w]]
    /\ basis(w) = "full" => Has(w, "unreconciled")

-----------------------------------------------------------------------------
(* The subprocess keeps the promise its parents rely on (module PaidRun).   *)

PhaseOf(r) ==
  CASE proc[r] = "none" -> "none"
    [] Live(r) -> "live"
    [] OTHER -> proc[r]

FileOf(r) ==
  IF art[r] # "whole" THEN art[r]
  ELSE IF complete(r) THEN "complete"
  ELSE IF fully_accounted(r) THEN "accounted" ELSE "unsettled"

Child == INSTANCE PaidRun WITH
  Allowance <- Forecast,
  phase <- [r \in Runs |-> PhaseOf(r)],
  spent <- [r \in Runs |-> Billed(r)],
  file <- [r \in Runs |-> FileOf(r)],
  reported <- [r \in Runs |-> IF Source(r) /\ AccountedSource(r) THEN ActualCost(r) ELSE 0]

\* live_smoke is charged only between its launch and a settled artifact, within
\* its allowance, never after a refusal; and its settled artifacts report the
\* exact cost, whichever of the two arms failed and in whatever order.
ChildIsPaidRun == Child!RunSpec

-----------------------------------------------------------------------------
(* Liveness.  The operator keeps using every mode and the resolver; the     *)
(* runner takes its steps; subprocess.run enforces its timeout.  Nothing is *)
(* assumed of the subprocess or the provider.                               *)

Fairness ==
  /\ \A m \in Modes : SF_vars(invoke(m))
  /\ \A w \in Runs : SF_vars(resolve(w))
  /\ WF_vars(RunnerStep) /\ WF_vars(timeout) /\ WF_vars(record_resolution)

FairSpec == Spec /\ Fairness

\* A resolution artifact whose ledger event was lost in a crash makes every
\* invocation fail to load; running the resolver again repairs that.
ResolutionHeals == \A w \in Runs : w \in resfile ~> Resolved(w)

\* Every source is recorded in the end, whoever crashed when: a fully accounted
\* one at its cost; one whose cost stayed unresolved at its full allowance and
\* without a replay (--finalize-unresolved-existing-only), provided its exact
\* incident was journaled and no answered arm lacks its cost.
SourcesAreRecorded ==
  \A w \in Runs :
    (/\ Source(w) /\ w \notin Drifting
     /\ \/ AccountedSource(w)
        \/ Unresolved(w) /\ Has(w, "unreconciled") /\ ~rejected_accounting(w))
    ~> Has(w, "recorded")

=============================================================================
