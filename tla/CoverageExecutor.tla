-------------------------- MODULE CoverageExecutor --------------------------
(***************************************************************************)
(* The coverage executor (frontier_coverage_primary_executor_v1.py): one   *)
(* endpoint batch per invocation, in a frozen order, each cell of it one   *)
(* paid run (module PaidRun) inside the executor's own process.            *)
(*                                                                         *)
(* Its memory is a ledger of its own, the canonical ledger it shares with  *)
(* the contract runner, the sources and the receipts.  No write covers two *)
(* of them, so every restart has to find out how far the last one came; a  *)
(* request that was started is never sent again.  Both locks are held for  *)
(* the whole invocation: there is one at a time.                           *)
(***************************************************************************)
EXTENDS PaidRun, FiniteSetsExt, SequencesExt

CONSTANTS
  Batches,     \* endpoint batches 1..B, in batch_execution_order
  BatchOf,     \* the batch of a cell; the cells are the paid runs
  Unpriced,    \* cohere_direct batches: a resource quota instead of dollars
  Admissions,  \* live admissions, each for one batch; a batch may have several
  Baseline,    \* predecessor exposure, and what other ledgers hold
  Ceiling,     \* ADMISSION_CEILING_USD
  MaxCrashes   \* bound

ASSUME CoverageConstants ==
  /\ IsFiniteSet(Runs) /\ Runs = 1..Cardinality(Runs)
  /\ IsFiniteSet(Batches) /\ Batches = 1..Cardinality(Batches)
  /\ BatchOf \in [Runs -> Batches] /\ Unpriced \subseteq Batches
  /\ Admissions \subseteq [batch : Batches, version : Nat \ {0}]
  /\ Baseline \in Nat /\ Ceiling \in Nat /\ MaxCrashes \in Nat

VARIABLES
  sent,       \* cells with a journaled request_started
  sound,      \* cells whose source passes _audit_source
  ledger,     \* the executor's ledger
  reserved,   \* canonical ledger: reservation_created
  finalized,  \* canonical ledger: artifact_recorded
  receipts,   \* batches with a receipt
  expired,    \* admissions of Unpriced batches whose attestation has expired
  at,         \* where the invocation is
  admission,  \* the live admission it was given
  item,       \* its cell
  crashes

books == <<ledger, reserved, finalized, receipts>>
evidence == <<runvars, sent, sound>>
coveragevars == <<books, evidence, expired, at, admission, item, crashes>>

-----------------------------------------------------------------------------
(* The executor's ledger. *)

Cells(b) == {w \in Runs : BatchOf[w] = b}

Entry(e, b, w) ==
  [event |-> e, batch |-> b, cell |-> w, version |-> 0, how |-> "", requests |-> 0,
   kept |-> {}]

Logged(log, e) == {log[i] : i \in {j \in 1..Len(log) : log[j].event = e}}
CellsOf(log, e) == {x.cell : x \in Logged(log, e)}
BatchesOf(log, e) == {x.batch : x \in Logged(log, e)}
open_batch(log) == BatchesOf(log, "reserved") \ BatchesOf(log, "closed")

starts == CellsOf(ledger, "started")
terminals == CellsOf(ledger, "terminal")
incidents == CellsOf(ledger, "incident")
completed == BatchesOf(ledger, "closed")
sources == {x.cell : x \in {y \in Logged(ledger, "terminal") : y.how = "source"}}

\* The admission a batch was reserved under, 0 if it is not reserved.
bound(b) ==
  LET R == {x \in Logged(ledger, "reserved") : x.batch = b}
  IN  IF R = {} THEN 0 ELSE (CHOOSE x \in R : TRUE).version

\* _ledger_state: what each event requires of the events before it, and of the
\* requests it names: a source and an incident need one, zero cost has none.
accepts(log, x) ==
  CASE x.event = "reserved" ->
         /\ open_batch(log) = {}
         /\ x.batch = Cardinality(BatchesOf(log, "closed")) + 1
    [] x.event = "started" ->
         open_batch(log) = {x.batch} /\ x.cell \notin CellsOf(log, "started")
    [] x.event \in {"terminal", "incident"} ->
         /\ open_batch(log) = {x.batch} /\ x.cell \in CellsOf(log, "started")
         /\ x.cell \notin CellsOf(log, "terminal")
         /\ x.event = "incident" => x.cell \notin CellsOf(log, "incident")
         /\ x.requests = 0 <=> x.event = "terminal" /\ x.how = "zero"
    [] x.event = "closed" ->
         /\ open_batch(log) = {x.batch} /\ Cells(x.batch) \subseteq CellsOf(log, "terminal")
         /\ x.batch \notin Unpriced =>
              x.kept = {y.cell : y \in {z \in Logged(log, "terminal") :
                                          z.batch = x.batch /\ z.how # "source"}}

(* The canonical ledger and the sources. *)

Priced == {w \in Runs : BatchOf[w] \notin Unpriced}
active == reserved \ finalized

\* scan_live_smoke_artifacts and the probe raise on a source they cannot read.
scan_loads == \A w \in Runs : file[w] # "torn"

\* Fault: a source whose cost never settled counts at what it reports.
Mutant_later_source_exposure ==
  SumFunctionOnSet(reported, {w \in Priced : file[w] \in Written})

later_source_exposure ==
  SumFunctionOnSet([w \in Runs |-> claim(w)], {w \in Priced : file[w] \in Written})

\* rebase_budget, with the reserve that is still missing.
projected(b) ==
  Baseline + later_source_exposure + Allowance * Cardinality(active)
    + Allowance * Cardinality(Cells(b) \ active)

\* _rebind_global_batch_reservations
rebinds(b) ==
  \A w \in Cells(b) : w \in reserved /\ (w \in finalized => w \in sources)

\* _validate_completed_priced_global_state
completed_stands(b) ==
  rebinds(b) /\ \A w \in Cells(b) : w \in sources <=> w \in finalized

-----------------------------------------------------------------------------
(* One invocation of execute_one_batch. *)

batch == admission.batch
next_batch == Min(Batches \ completed)
unreceipted == completed \ receipts

log(x) == ledger' = Append(ledger, x)
OnLedger(x) == log(x) /\ UNCHANGED <<reserved, finalized, receipts>>
Environment == UNCHANGED <<expired, crashes>>

\* The entry of a cell that ends, with its request_started_count (one stands for
\* any number).
Ended(event, how) ==
  [Entry(event, batch, item) EXCEPT !.how = how, !.requests = IF item \in sent THEN 1 ELSE 0]

move(where) == at' = where /\ UNCHANGED <<admission, item>>
none == [batch |-> 0, version |-> 0]
leave == at' = "idle" /\ admission' = none /\ item' = 0

\* The admission closes every blocker; a Cohere one only while its operator
\* attestation is valid.
invoke(a) ==
  /\ at = "idle" /\ a \notin expired
  /\ at' = "locked" /\ admission' = a
  /\ item' = Min(Cells(a.batch))
  /\ UNCHANGED <<books, evidence>> /\ Environment

\* What every invocation checks before it looks at its own batch.
history_loads ==
  completed # {} => scan_loads /\ \A b \in completed \ Unpriced : completed_stands(b)


\* A completed batch without a receipt comes first, under the admission it was
\* reserved with.
receipt_first(a) == unreceipted = {a.batch} /\ a.version = bound(a.batch)

recover_receipt ==
  /\ at = "locked" /\ history_loads
  /\ receipt_first(admission)
  /\ move("receipt")
  /\ UNCHANGED <<books, evidence>> /\ Environment

Admitted ==
  /\ at = "locked" /\ history_loads /\ unreceipted = {} /\ scan_loads
  /\ completed # Batches /\ batch = next_batch

\* A batch that is already reserved goes on under the same admission only.
resume_batch ==
  /\ Admitted /\ bound(batch) = admission.version
  /\ batch \notin Unpriced => rebinds(batch)
  /\ move("loop")
  /\ UNCHANGED <<books, evidence>> /\ Environment

reserve_quota ==
  /\ Admitted /\ bound(batch) = 0 /\ batch \in Unpriced
  /\ OnLedger([Entry("reserved", batch, 0) EXCEPT !.version = admission.version])
  /\ move("loop")
  /\ UNCHANGED evidence /\ Environment

Budgeted ==
  /\ Admitted /\ bound(batch) = 0 /\ batch \notin Unpriced
  /\ Cells(batch) \cap finalized = {} /\ projected(batch) <= Ceiling

admit_priced ==
  /\ Budgeted
  /\ move("reserve")
  /\ UNCHANGED <<books, evidence>> /\ Environment

\* AdmissionDenied, CoverageExecutionError, or nothing left to do.
refuse_invocation ==
  /\ at = "locked"
  /\ ~(history_loads /\ receipt_first(admission))
  /\ ~(/\ Admitted
       /\ \/ bound(batch) = 0 /\ batch \in Unpriced
          \/ bound(batch) = admission.version /\ (batch \notin Unpriced => rebinds(batch))
          \/ Budgeted)
  /\ leave
  /\ UNCHANGED <<books, evidence>> /\ Environment

\* _ensure_global_batch_reservations: one durable append per cell.
reserve_cell ==
  /\ at = "reserve" /\ ~(Cells(batch) \subseteq reserved)
  /\ reserved' = reserved \cup {Min(Cells(batch) \ reserved)}
  /\ UNCHANGED <<at, admission, item, ledger, finalized, receipts, evidence>> /\ Environment

bind_batch ==
  /\ at = "reserve" /\ Cells(batch) \subseteq reserved
  /\ OnLedger([Entry("reserved", batch, 0) EXCEPT !.version = admission.version])
  /\ move("loop")
  /\ UNCHANGED evidence /\ Environment

-----------------------------------------------------------------------------
(* The loop over the cells of the batch. *)

InLoop == at = "loop" /\ incidents = {} /\ item \in Cells(batch)

next_item ==
  /\ item' = IF \E w \in Cells(batch) : w > item
             THEN Min({w \in Cells(batch) : w > item}) ELSE 0
  /\ UNCHANGED <<at, admission>>

\* _record_global_source; a cell without a source keeps its reservation.
record_global_source ==
  /\ InLoop /\ item \in terminals
  /\ IF item \in sources \cap Priced
     THEN IF scan_loads THEN finalized' = finalized \cup {item} /\ next_item
                        ELSE leave /\ UNCHANGED finalized
     ELSE next_item /\ UNCHANGED finalized
  /\ UNCHANGED <<ledger, reserved, receipts, evidence>> /\ Environment

\* Fault: the start of a cell is looked for among the terminals.
Mutant_start_item ==
  /\ InLoop /\ item \notin terminals
  /\ OnLedger(Entry("started", batch, item))
  /\ move("launch")
  /\ UNCHANGED evidence /\ Environment

start_item ==
  /\ InLoop /\ item \notin terminals \cup starts
  /\ OnLedger(Entry("started", batch, item))
  /\ move("launch")
  /\ UNCHANGED evidence /\ Environment

resume_item ==
  /\ InLoop /\ item \in starts \ terminals
  /\ move("recover")
  /\ UNCHANGED <<books, evidence>> /\ Environment

run_live_cell ==
  /\ at = "launch"
  /\ Launch(item)
  /\ move("run")
  /\ UNCHANGED <<books, sent, sound>> /\ Environment

\* The run returns or raises: either way its evidence decides.
live_cell_ends ==
  /\ at = "run" /\ phase[item] # "live"
  /\ move("recover")
  /\ UNCHANGED <<books, evidence>> /\ Environment

\* Fault: a source that does not pass its audit is recorded in the canonical
\* ledger before the audit.
Mutant_recover_source ==
  /\ at = "recover" /\ scan_loads /\ file[item] \in Written
  /\ finalized' = IF item \in Priced THEN finalized \cup {item} ELSE finalized
  /\ IF item \in sound
     THEN log(Ended("terminal", "source")) /\ move("loop")
     ELSE UNCHANGED ledger /\ leave
  /\ UNCHANGED <<reserved, receipts, evidence>> /\ Environment

\* _recover_started with a source; one that does not pass its audit raises.
recover_source ==
  /\ at = "recover" /\ scan_loads /\ file[item] \in Written
  /\ IF item \in sound
     THEN OnLedger(Ended("terminal", "source")) /\ move("loop")
     ELSE UNCHANGED books /\ leave
  /\ UNCHANGED evidence /\ Environment

\* Without a source, but a request was started: an incident ends the batch.
recover_incident ==
  /\ at = "recover" /\ scan_loads /\ file[item] = "absent" /\ item \in sent
  /\ OnLedger(Ended("incident", ""))
  /\ move("close")
  /\ UNCHANGED evidence /\ Environment

\* Nothing was sent: pre_generation_failure.
recover_zero_cost ==
  /\ at = "recover" /\ scan_loads /\ file[item] = "absent" /\ item \notin sent
  /\ OnLedger(Ended("terminal", "zero"))
  /\ move("loop")
  /\ UNCHANGED evidence /\ Environment

probe_raises ==
  /\ at = "recover" /\ ~scan_loads
  /\ leave
  /\ UNCHANGED <<books, evidence>> /\ Environment

loop_ends ==
  /\ at = "loop" /\ ~InLoop
  /\ move("close")
  /\ UNCHANGED <<books, evidence>> /\ Environment

\* The batch is closed when every cell has a terminal, naming the reservations
\* that stay; otherwise the invocation stops with everything retained.
close_batch ==
  /\ at = "close"
  /\ IF incidents = {} /\ Cells(batch) \subseteq terminals
     THEN /\ OnLedger([Entry("closed", batch, 0) EXCEPT !.kept = active \cap Cells(batch)])
          /\ move("receipt")
     ELSE UNCHANGED books /\ leave
  /\ UNCHANGED evidence /\ Environment

\* _materialize_receipt revalidates the sources and replaces atomically.
materialize_receipt ==
  /\ at = "receipt"
  /\ receipts' = IF scan_loads THEN receipts \cup {batch} ELSE receipts
  /\ leave
  /\ UNCHANGED <<ledger, reserved, finalized, evidence>> /\ Environment

\* Killed: the run is in the same process and dies with it.
crash ==
  /\ at # "idle" /\ crashes < MaxCrashes
  /\ crashes' = crashes + 1
  /\ leave
  /\ phase' = [w \in Runs |-> IF phase[w] = "live" THEN "dead" ELSE phase[w]]
  /\ UNCHANGED <<books, spent, file, reported, sent, sound, expired>>

\* Only invoke looks at it, so it expires between two invocations.  Bound: the
\* last attestation for a batch stays valid.
attestation_expires(a) ==
  /\ at = "idle" /\ a \notin expired /\ a.batch \in Unpriced
  /\ \E a2 \in Admissions : a2.batch = a.batch /\ a2.version > a.version
  /\ expired' = expired \cup {a}
  /\ UNCHANGED <<books, evidence, at, admission, item, crashes>>

-----------------------------------------------------------------------------
(* The paid run of a cell, and the provider.  Unpriced requests cost nothing. *)

\* request_started is durable before the first byte is sent.
Send(w) ==
  /\ phase[w] = "live" /\ file[w] = "absent" /\ w \notin sent
  /\ sent' = sent \cup {w}
  /\ UNCHANGED <<runvars, sound>>

\* Whether the source of a run that failed shows a complete MCP session and
\* closed attempts depends on where it failed; the session is opened after the
\* first request of the run.  A complete source is not told apart from a sound
\* one that is accounted for.
WriteSource(w) ==
  /\ Write(w) /\ file'[w] # "complete"
  /\ sound' \in {sound, sound \cup ({w} \cap sent)}
  /\ UNCHANGED sent

\* The executor asks for the evidence only, so returning and raising are one
\* step, Exit with a source and Die without.
CellStep(w) ==
  /\ \/ Send(w) \/ WriteSource(w)
     \/ /\ \/ w \in sent \cap Priced /\ Charge(w)
           \/ Open(w) \/ Exit(w)
           \/ file[w] \notin Written /\ Die(w)
        /\ UNCHANGED <<sent, sound>>
  /\ UNCHANGED <<books, expired, at, admission, item, crashes>>

-----------------------------------------------------------------------------
Init ==
  /\ RunInit /\ sent = {} /\ sound = {}
  /\ ledger = <<>> /\ reserved = {} /\ finalized = {} /\ receipts = {}
  /\ expired = {} /\ at = "idle" /\ admission = none
  /\ item = 0 /\ crashes = 0

ExecutorStep ==
  \/ recover_receipt \/ resume_batch \/ reserve_quota \/ admit_priced
  \/ refuse_invocation \/ reserve_cell \/ bind_batch
  \/ record_global_source \/ start_item \/ resume_item \/ run_live_cell
  \/ live_cell_ends \/ recover_source \/ recover_incident \/ recover_zero_cost
  \/ probe_raises \/ loop_ends \/ close_batch \/ materialize_receipt

Next ==
  \/ \E a \in Admissions : invoke(a)
  \/ ExecutorStep \/ crash
  \/ \E a \in Admissions : attestation_expires(a)
  \/ \E w \in Runs : CellStep(w)

\* The operator keeps invoking, with every admission there is; the executor
\* runs on, and a run ends (its requests have timeouts).
Fairness ==
  /\ \A a \in Admissions : SF_coveragevars(invoke(a))
  /\ WF_coveragevars(ExecutorStep)
  /\ \A w \in Runs : WF_coveragevars(CellStep(w) /\ phase'[w] # "live")

Spec == Init /\ [][Next]_coveragevars
FairSpec == Spec /\ Fairness

-----------------------------------------------------------------------------
\* The ledger loads after every append, whatever crashed when: batches follow
\* the frozen order one at a time, no cell is started or ended twice, a cell ends
\* without a request exactly when it cost nothing, and a closed batch retains
\* exactly the reservations of its cells without a source.
LedgerReplays ==
  \A i \in 1..Len(ledger) : accepts(SubSeq(ledger, 1, i - 1), ledger[i])

\* The two ledgers never disagree: a restart always finds the reservations of
\* its batch, none of them released before the local terminal that releases it,
\* and a completed batch as the next invocation requires it.
LedgersAgree ==
  \A b \in BatchesOf(ledger, "reserved") \ Unpriced :
    rebinds(b) /\ (b \in completed => completed_stands(b))

\* What the provider charges for priced cells, also after their run died or its
\* cost stayed unsettled, is counted at every moment and stays under the
\* ceiling together with everything counted before.
CoverageSpendIsAdmitted ==
  /\ \A w \in Priced : spent[w] <= (IF file[w] \in Written THEN claim(w) ELSE 0)
                                   + (IF w \in active THEN Allowance ELSE 0)
  /\ Baseline + SumFunctionOnSet(spent, Priced) <= Ceiling

\* Every batch gets its receipt, unless the study is stranded: by a request of
\* unknown fate, by a source that is torn or does not pass its audit, by the
\* budget, or by an attestation that expired before its batch had a receipt.
Stranded ==
  \/ incidents # {}
  \/ \E w \in Runs : file[w] = "torn" /\ phase[w] # "live"
  \/ \E w \in starts \ terminals : file[w] \in Written /\ w \notin sound
  \/ completed # Batches /\ bound(next_batch) = 0 /\ next_batch \notin Unpriced
       /\ projected(next_batch) > Ceiling
  \/ \E a \in expired : a.batch \notin receipts /\ a.version = bound(a.batch)

=============================================================================
