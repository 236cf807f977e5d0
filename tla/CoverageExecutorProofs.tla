------------------------- MODULE CoverageExecutorProofs -------------------------
(***************************************************************************)
(* Proofs about CoverageExecutor for every assignment of cells to batches, *)
(* every set of admissions and every bound on crashes.  EInv, the          *)
(* inductive invariant, says what a restart finds: how far the ledger is   *)
(* (OrderInv, CellInv), what the canonical ledger and the sources add to   *)
(* it (FilesInv), and what an invocation has already done (PlaceInv).      *)
(***************************************************************************)
EXTENDS CoverageExecutor, PaidRunProofs, SumLemmas

EventName == {"reserved", "started", "terminal", "incident", "closed"}
EntryRecord ==
  [event : EventName, batch : Batches, cell : Runs \cup {0}, version : Nat,
   how : {"", "source", "zero"}, requests : {0, 1}, kept : SUBSET Runs]

CoverageTypeOK ==
  /\ ledger \in Seq(EntryRecord)
  /\ at \in {"idle", "locked", "reserve", "loop", "launch", "run", "recover", "close",
             "receipt"}
  /\ at # "idle" => admission \in Admissions

bound_batches == BatchesOf(ledger, "reserved")
done == Cardinality(completed)

\* Batches are bound and completed in the frozen order, one at a time.
OrderInv ==
  /\ done \in Nat /\ completed = 1..done
  /\ completed \subseteq bound_batches /\ bound_batches \subseteq 1..(done + 1)
  /\ \A x \in Logged(ledger, "reserved") : x.version # 0

\* An entry about a cell belongs to a bound batch, and a cell ends once.
CellInv ==
  /\ \A e \in {"started", "terminal", "incident"} : \A x \in Logged(ledger, e) :
       x.cell \in Cells(x.batch) /\ x.batch \in bound_batches
  /\ \A x, y \in Logged(ledger, "terminal") : x.cell = y.cell => x = y

\* What the canonical ledger, the sources and the runs say beside the ledger.
FilesInv ==
  /\ reserved \subseteq Priced /\ finalized \subseteq sources \cap Priced
  /\ \A b \in bound_batches \ Unpriced : Cells(b) \subseteq reserved
  /\ \A b \in completed \ Unpriced : Cells(b) \cap sources \subseteq finalized
  /\ \A w \in sources : file[w] \in Written
  /\ \A w \in Runs : phase[w] # "none" => w \in starts

\* The cells of the batch that the loop has left behind.
Passed == {w \in Cells(batch) : w < item \/ item \notin Cells(batch)}

PlaceInv ==
  /\ at \in {"locked", "reserve"} => Passed = {}
  /\ at = "reserve" => batch = done + 1 /\ batch \notin bound_batches \cup Unpriced
  /\ at \in {"loop", "launch", "run", "recover", "close"} => batch \in bound_batches \ completed
  /\ at \in {"launch", "run", "recover"} =>
       item \in Cells(batch) /\ item \in starts \ terminals /\ incidents = {}
  /\ at \in {"loop", "launch", "run", "recover"} => Passed \cap sources \cap Priced \subseteq finalized
  /\ at = "close" /\ incidents = {} => Cells(batch) \cap sources \cap Priced \subseteq finalized

\* A source that passes its audit has a request.
SoundInv == sound \subseteq sent

EInv ==
  /\ PaidInv /\ CoverageTypeOK /\ OrderInv /\ CellInv /\ FilesInv /\ PlaceInv
  /\ LedgerReplays

-----------------------------------------------------------------------------
(***************************************************************************)
(* Numbers and the ledger.                                                 *)
(***************************************************************************)
\* Cells and batches are positive numbers.
LEMMA Numbers ==
  /\ Runs \subseteq Nat \ {0} /\ Batches \subseteq Nat \ {0}
  /\ Cardinality(Runs) \in Nat /\ Cardinality(Batches) \in Nat
  BY CoverageConstants, FS_CardinalityType

\* A nonempty set of natural numbers has a least element, which Min returns.
LEMMA MinIsLeast ==
  ASSUME NEW S \in SUBSET Nat, S # {}
  PROVE  Min(S) \in S /\ \A y \in S : Min(S) <= y
<1>1. \E x \in S : \A y \in S : ~(y < x)
  <2>1. PICK x \in S : \A y \in S : ~(<<y, x>> \in OpToRel(<, Nat))
    BY WFMin, NatLessThanWellFounded
  <2>2. ASSUME NEW y \in S, y < x
        PROVE  <<y, x>> \in OpToRel(<, Nat)
    BY <2>2 DEF OpToRel
  <2> QED BY <2>1, <2>2
<1>2. \E x \in S : \A y \in S : x <= y
  BY <1>1
<1> QED BY <1>2 DEF Min

\* Appending an entry logs that entry under its event and nothing else.
LEMMA AppendLogs ==
  ASSUME NEW old \in Seq(EntryRecord), NEW x \in EntryRecord, NEW e
  PROVE  /\ Append(old, x) \in Seq(EntryRecord)
         /\ Logged(Append(old, x), e) = Logged(old, e) \cup (IF x.event = e THEN {x} ELSE {})
<1> DEFINE new == Append(old, x)
<1>1. /\ new \in Seq(EntryRecord) /\ Len(new) = Len(old) + 1 /\ Len(old) \in Nat
      /\ \A i \in 1..Len(old) : new[i] = old[i]
      /\ new[Len(old) + 1] = x
  OBVIOUS
<1> HIDE DEF new
<1>2. ASSUME NEW y
      PROVE  y \in Logged(new, e) <=> y \in Logged(old, e) \/ (y = x /\ x.event = e)
  <2>1. y \in Logged(new, e) <=> \E i \in 1..Len(new) : new[i].event = e /\ y = new[i]
    BY DEF Logged
  <2>2. y \in Logged(old, e) <=> \E i \in 1..Len(old) : old[i].event = e /\ y = old[i]
    BY DEF Logged
  <2> QED BY <1>1, <2>1, <2>2
<1> QED BY <1>1, <1>2 DEF new

\* A ledger that loads still loads when an entry is appended that it accepts.
LEMMA AppendReplays ==
  ASSUME ledger \in Seq(EntryRecord), NEW x \in EntryRecord, ledger' = Append(ledger, x),
         LedgerReplays, accepts(ledger, x)
  PROVE  LedgerReplays'
<1>1. /\ ledger' \in Seq(EntryRecord) /\ Len(ledger') = Len(ledger) + 1 /\ Len(ledger) \in Nat
      /\ \A i \in 1..Len(ledger) : ledger'[i] = ledger[i]
      /\ ledger'[Len(ledger) + 1] = x
  OBVIOUS
<1>2. ASSUME NEW i \in 1..(Len(ledger) + 1)
      PROVE  SubSeq(ledger', 1, i - 1) = SubSeq(ledger, 1, i - 1)
  BY <1>1
<1>3. SubSeq(ledger, 1, Len(ledger)) = ledger
  OBVIOUS
<1>4. ASSUME NEW i \in 1..Len(ledger')
      PROVE  accepts(SubSeq(ledger', 1, i - 1), ledger'[i])
  <2>1. CASE i \in 1..Len(ledger)
    BY <1>1, <1>2, <2>1 DEF LedgerReplays
  <2>2. CASE i = Len(ledger) + 1
    <3>1. i - 1 = Len(ledger) /\ SubSeq(ledger', 1, i - 1) = ledger
      BY <1>1, <1>2, <1>3, <2>2
    <3>2. ledger'[i] = x
      BY <1>1, <2>2
    <3> QED BY <3>1, <3>2
  <2> QED BY <1>1, <2>1, <2>2
<1> QED BY <1>4 DEF LedgerReplays

\* What is read from the ledger stays while nothing is appended.
LEMMA SameLedger ==
  ASSUME UNCHANGED ledger
  PROVE  /\ starts' = starts /\ terminals' = terminals /\ incidents' = incidents
         /\ completed' = completed /\ sources' = sources /\ bound_batches' = bound_batches
         /\ done' = done
         /\ OrderInv' = OrderInv /\ CellInv' = CellInv /\ LedgerReplays' = LedgerReplays
  BY DEF starts, terminals, incidents, completed, sources, bound_batches, done, OrderInv,
         CellInv, LedgerReplays

\* What one entry adds to what is read from the ledger.
LEMMA EntryAdds ==
  ASSUME ledger \in Seq(EntryRecord), NEW x \in EntryRecord, ledger' = Append(ledger, x)
  PROVE  /\ ledger' \in Seq(EntryRecord)
         /\ \A e : Logged(ledger, e)' =
                    Logged(ledger, e) \cup (IF x.event = e THEN {x} ELSE {})
         /\ starts' = IF x.event = "started" THEN starts \cup {x.cell} ELSE starts
         /\ terminals' = IF x.event = "terminal" THEN terminals \cup {x.cell} ELSE terminals
         /\ incidents' = IF x.event = "incident" THEN incidents \cup {x.cell} ELSE incidents
         /\ completed' = IF x.event = "closed" THEN completed \cup {x.batch} ELSE completed
         /\ bound_batches' = IF x.event = "reserved" THEN bound_batches \cup {x.batch}
                             ELSE bound_batches
         /\ sources' = IF x.event = "terminal" /\ x.how = "source" THEN sources \cup {x.cell}
                       ELSE sources
<1>1. \A e : Logged(ledger, e)' = Logged(ledger, e) \cup (IF x.event = e THEN {x} ELSE {})
  BY AppendLogs
<1>2. ASSUME NEW e
      PROVE  /\ CellsOf(ledger, e)' =
                   IF x.event = e THEN CellsOf(ledger, e) \cup {x.cell} ELSE CellsOf(ledger, e)
             /\ BatchesOf(ledger, e)' =
                   IF x.event = e THEN BatchesOf(ledger, e) \cup {x.batch}
                   ELSE BatchesOf(ledger, e)
  BY <1>1 DEF CellsOf, BatchesOf
<1>3. sources' = IF x.event = "terminal" /\ x.how = "source" THEN sources \cup {x.cell}
                 ELSE sources
  BY <1>1 DEF sources
<1>4. ledger' \in Seq(EntryRecord)
  BY AppendLogs
<1> QED BY <1>1, <1>2, <1>3, <1>4 DEF starts, terminals, incidents, completed, bound_batches

\* Cells, batches and their entries.
LEMMA CellFacts ==
  ASSUME EInv
  PROVE  /\ starts \subseteq Runs /\ terminals \subseteq Runs /\ sources \subseteq terminals
         /\ bound_batches \subseteq Batches
         /\ \A w \in starts \cup terminals : BatchOf[w] \in bound_batches
         /\ \A w \in terminals, y \in Logged(ledger, "terminal") :
              y.cell = w => (w \in sources <=> y.how = "source")
<1>1. \A e : Logged(ledger, e) \subseteq EntryRecord
  BY DEF EInv, CoverageTypeOK, Logged
<1>2. bound_batches \subseteq Batches
  <2>1. ASSUME NEW x \in Logged(ledger, "reserved")
        PROVE  x.batch \in Batches
    <3>1. x \in EntryRecord
      BY <1>1
    <3> QED BY <3>1 DEF EntryRecord
  <2> QED BY <2>1 DEF bound_batches, BatchesOf
<1>3. ASSUME NEW e \in {"started", "terminal"}, NEW x \in Logged(ledger, e)
      PROVE  x.cell \in Runs /\ BatchOf[x.cell] \in bound_batches
  BY DEF EInv, CellInv, Cells
<1>4. starts \subseteq Runs /\ terminals \subseteq Runs
  BY <1>3 DEF starts, terminals, CellsOf
<1>5. \A w \in starts \cup terminals : BatchOf[w] \in bound_batches
  BY <1>3 DEF starts, terminals, CellsOf
<1>6. sources \subseteq terminals
  BY DEF sources, terminals, CellsOf
<1>7. \A x, y \in Logged(ledger, "terminal") : x.cell = y.cell => x = y
  BY DEF EInv, CellInv
<1>8. ASSUME NEW y \in Logged(ledger, "terminal")
      PROVE  y.cell \in sources <=> y.how = "source"
  BY <1>7 DEF sources
<1> QED BY <1>2, <1>4, <1>5, <1>6, <1>8

-----------------------------------------------------------------------------
(***************************************************************************)
(* The steps that append nothing.                                          *)
(***************************************************************************)
\* A step that writes no book and moves no run respects EInv when the place it
\* goes to does.
LEMMA NoWriteStep ==
  ASSUME EInv, UNCHANGED <<ledger, reserved, finalized, runvars>>, CoverageTypeOK', PlaceInv'
  PROVE  EInv'
<1>1. PaidInv'
  BY PaidStutter DEF EInv
<1>2. OrderInv' /\ CellInv' /\ LedgerReplays'
  BY SameLedger DEF EInv
<1>3. FilesInv'
  BY SameLedger DEF EInv, FilesInv, runvars
<1> QED BY <1>1, <1>2, <1>3 DEF EInv

\* Leaving an invocation keeps nothing that has to be respected.
LEMMA LeaveStep ==
  ASSUME EInv, UNCHANGED <<ledger, reserved, finalized, runvars>>, at' \in {"idle", "receipt"},
         at' # "idle" => admission' \in Admissions
  PROVE  EInv'
<1>1. CoverageTypeOK'
  BY DEF EInv, CoverageTypeOK
<1>2. PlaceInv'
  BY DEF PlaceInv
<1> QED BY <1>1, <1>2, NoWriteStep

\* The first cell of a batch has nothing before it.
LEMMA FirstPassed ==
  ASSUME NEW b \in Batches
  PROVE  {w \in Cells(b) : w < Min(Cells(b)) \/ Min(Cells(b)) \notin Cells(b)} = {}
<1>1. CASE Cells(b) = {}
  BY <1>1
<1>2. CASE Cells(b) # {}
  <2>1. Cells(b) \in SUBSET Nat
    BY Numbers DEF Cells
  <2>2. Min(Cells(b)) \in Cells(b) /\ \A y \in Cells(b) : Min(Cells(b)) <= y
    BY <1>2, <2>1, MinIsLeast
  <2> QED BY <2>1, <2>2
<1> QED BY <1>1, <1>2

\* An admission names a batch and a version that is not 0.
LEMMA AdmissionFacts ==
  ASSUME EInv, at # "idle"
  PROVE  batch \in Batches /\ admission.version \in Nat \ {0} /\ admission \in Admissions
  BY CoverageConstants DEF EInv, CoverageTypeOK, batch

\* The next batch follows the completed ones.
LEMMA NextBatch ==
  ASSUME EInv, completed # Batches
  PROVE  next_batch = done + 1 /\ next_batch \in Batches \ completed
<1>1. /\ done \in Nat /\ completed = 1..done /\ completed \subseteq Batches
      /\ Batches = 1..Cardinality(Batches) /\ Cardinality(Batches) \in Nat
  BY Numbers, CellFacts, CoverageConstants DEF EInv, OrderInv
<1>2. done + 1 \in Batches \ completed
  BY <1>1
<1>3. Batches \ completed \in SUBSET Nat /\ \A y \in Batches \ completed : done + 1 <= y
  BY <1>1
<1>4. Min(Batches \ completed) \in Batches \ completed
      /\ \A y \in Batches \ completed : Min(Batches \ completed) <= y
  BY <1>2, <1>3, MinIsLeast
<1>5. next_batch \in Nat /\ next_batch <= done + 1 /\ done + 1 <= next_batch
  BY <1>2, <1>3, <1>4 DEF next_batch
<1> QED BY <1>1, <1>2, <1>5

\* bound is 0 exactly for a batch that no admission has bound.
LEMMA BoundIsNonzero ==
  ASSUME EInv, NEW b
  PROVE  bound(b) = 0 <=> b \notin bound_batches
<1> DEFINE R == {x \in Logged(ledger, "reserved") : x.batch = b}
<1>1. CASE R = {}
  <2>1. b \notin bound_batches
    BY <1>1 DEF bound_batches, BatchesOf
  <2> QED BY <1>1, <2>1 DEF bound
<1>2. CASE R # {}
  <2>1. (CHOOSE x \in R : TRUE) \in R
    BY <1>2
  <2>2. b \in bound_batches
    BY <1>2 DEF bound_batches, BatchesOf
  <2> QED BY <1>2, <2>1, <2>2 DEF bound, EInv, OrderInv
<1> QED BY <1>1, <1>2

\* An invocation starts at the first cell of the batch it was admitted for.
LEMMA InvokeStep ==
  ASSUME EInv, NEW a \in Admissions, invoke(a)
  PROVE  EInv'
<1>1. /\ at' = "locked" /\ admission' = a /\ item' = Min(Cells(a.batch))
      /\ UNCHANGED <<ledger, reserved, finalized, runvars>>
  BY DEF invoke, books, evidence
<1>2. CoverageTypeOK'
  BY <1>1 DEF EInv, CoverageTypeOK
<1>3. Passed' = {}
  <2>1. a.batch \in Batches
    BY CoverageConstants
  <2> QED BY <1>1, <2>1, FirstPassed DEF Passed, batch
<1>4. PlaceInv'
  BY <1>1, <1>3 DEF PlaceInv
<1> QED BY <1>1, <1>2, <1>4, NoWriteStep

\* The decision at the start: a batch is resumed only if it was bound before, and
\* reserved only if it is the next one and not bound.
LEMMA DecideStep ==
  ASSUME EInv, resume_batch \/ admit_priced
  PROVE  EInv'
<1>1. /\ at = "locked" /\ UNCHANGED <<ledger, reserved, finalized, runvars, admission, item>>
      /\ completed # Batches /\ batch = next_batch
  BY DEF resume_batch, admit_priced, Budgeted, Admitted, move, books, evidence
<1>2. batch = done + 1 /\ batch \notin completed
  BY <1>1, NextBatch
<1>3. at' \in {"loop", "reserve"}
  BY DEF resume_batch, admit_priced, move
<1>4. at' = "loop" => batch \in bound_batches
  BY <1>1, AdmissionFacts, BoundIsNonzero DEF resume_batch, admit_priced, move
<1>5. at' = "reserve" => batch \notin bound_batches \cup Unpriced
  BY BoundIsNonzero DEF resume_batch, admit_priced, Budgeted, move
<1>6. CoverageTypeOK'
  BY <1>1, <1>3 DEF EInv, CoverageTypeOK
<1>7. Passed' = Passed /\ Passed = {} /\ batch' = batch
  BY <1>1 DEF Passed, batch, EInv, PlaceInv
<1>8. PlaceInv'
  BY <1>1, <1>2, <1>3, <1>4, <1>5, <1>7, SameLedger DEF PlaceInv
<1> QED BY <1>1, <1>6, <1>8, NoWriteStep

\* The other steps of an invocation that write nothing.
LEMMA OtherQuietSteps ==
  ASSUME EInv, resume_item \/ live_cell_ends \/ loop_ends
  PROVE  EInv'
<1>1. /\ UNCHANGED <<ledger, reserved, finalized, runvars, admission, item>>
      /\ at' \in {"recover", "close"}
  BY DEF resume_item, live_cell_ends, loop_ends, move, books, evidence
<1>a. at # "idle"
  BY DEF resume_item, live_cell_ends, loop_ends, InLoop
<1>2. CoverageTypeOK'
  BY <1>1, <1>a DEF EInv, CoverageTypeOK
<1>3. Passed' = Passed /\ batch' = batch
  BY <1>1 DEF Passed, batch
<1>4. CASE resume_item \/ live_cell_ends
  <2>1. /\ at' = "recover" /\ at \in {"loop", "run"}
        /\ item \in Cells(batch) /\ item \in starts \ terminals /\ incidents = {}
    BY <1>4 DEF resume_item, live_cell_ends, InLoop, move, EInv, PlaceInv
  <2>2. PlaceInv'
    BY <1>1, <1>3, <2>1, SameLedger DEF EInv, PlaceInv
  <2> QED BY <1>1, <1>2, <2>2, NoWriteStep
<1>5. CASE loop_ends
  <2>1. at' = "close" /\ at = "loop" /\ (incidents = {} => item \notin Cells(batch))
    BY <1>5 DEF loop_ends, InLoop, move
  <2>2. item \notin Cells(batch) => Passed = Cells(batch)
    BY DEF Passed
  <2>3. PlaceInv'
    BY <1>1, <1>3, <2>1, <2>2, SameLedger DEF EInv, PlaceInv
  <2> QED BY <1>1, <1>2, <2>3, NoWriteStep
<1> QED BY <1>4, <1>5

\* The steps in which an invocation leaves, and those between invocations.
LEMMA LeavingSteps ==
  ASSUME EInv,
         \/ recover_receipt \/ refuse_invocation \/ probe_raises \/ materialize_receipt
         \/ recover_source /\ item \notin sound
         \/ close_batch /\ ~(incidents = {} /\ Cells(batch) \subseteq terminals)
  PROVE  EInv'
<1>1. /\ UNCHANGED <<ledger, reserved, finalized, runvars>> /\ at' \in {"idle", "receipt"}
      /\ at' # "idle" => at # "idle" /\ admission' = admission
  BY DEF recover_receipt, refuse_invocation, probe_raises, materialize_receipt, recover_source,
    close_batch, leave, move, books, evidence
<1> QED BY <1>1, AdmissionFacts, LeaveStep

\* An attestation expires while nobody looks.
LEMMA ExpiryStep ==
  ASSUME EInv, NEW a \in Admissions, attestation_expires(a)
  PROVE  EInv'
  BY LeaveStep DEF attestation_expires, books, evidence

-----------------------------------------------------------------------------
(***************************************************************************)
(* The canonical ledger.                                                   *)
(***************************************************************************)
\* A reservation is made for a cell of the batch that is about to be bound.
LEMMA ReserveCellStep ==
  ASSUME EInv, reserve_cell
  PROVE  EInv'
<1>1. /\ reserved' = reserved \cup {Min(Cells(batch) \ reserved)} /\ Cells(batch) \ reserved # {}
      /\ at = "reserve" /\ UNCHANGED <<at, admission, item, ledger, finalized, runvars>>
  BY DEF reserve_cell, evidence
<1>a. Min(Cells(batch) \ reserved) \in Cells(batch)
  <2>1. Cells(batch) \ reserved \in SUBSET Nat
    BY Numbers DEF Cells
  <2> QED BY <1>1, <2>1, MinIsLeast
<1>b. reserved \subseteq reserved' /\ reserved' \subseteq Priced
  <2>1. Cells(batch) \subseteq Priced
    BY <1>1 DEF EInv, PlaceInv, Cells, Priced
  <2> QED BY <1>1, <1>a, <2>1 DEF EInv, FilesInv
<1>2. PaidInv'
  BY <1>1, PaidStutter DEF EInv
<1>3. CoverageTypeOK'
  BY <1>1 DEF EInv, CoverageTypeOK
<1>4. OrderInv' /\ CellInv' /\ LedgerReplays'
  BY <1>1, SameLedger DEF EInv
<1>5. FilesInv'
  BY <1>1, <1>b, SameLedger DEF EInv, FilesInv, runvars, Priced
<1>6. Passed' = Passed /\ batch' = batch
  BY <1>1 DEF Passed, batch
<1>7. PlaceInv'
  BY <1>1, <1>6, SameLedger DEF EInv, PlaceInv
<1> QED BY <1>2, <1>3, <1>4, <1>5, <1>7 DEF EInv

\* The cells that the loop leaves behind when it goes on: one more.
LEMMA NextPassed ==
  ASSUME EInv, item \in Cells(batch), next_item
  PROVE  Passed' \subseteq Passed \cup {item} /\ batch' = batch
<1>1. batch' = batch
  BY DEF next_item, batch
<1>2. Cells(batch) \in SUBSET (Nat \ {0})
  BY Numbers DEF Cells
<1>3. CASE \E w \in Cells(batch) : w > item
  <2> DEFINE S == {w \in Cells(batch) : w > item}
  <2>1. item' = Min(S) /\ S \in SUBSET Nat /\ S # {}
    BY <1>2, <1>3 DEF next_item
  <2>2. item' \in S /\ \A y \in S : item' <= y
    BY <2>1, MinIsLeast
  <2>3. ASSUME NEW w \in Cells(batch), w < item'
        PROVE  w <= item
    BY <1>2, <2>2, <2>3
  <2> QED BY <1>1, <1>2, <2>2, <2>3 DEF Passed
<1>4. CASE ~ \E w \in Cells(batch) : w > item
  BY <1>1, <1>2, <1>4 DEF Passed
<1> QED BY <1>3, <1>4

\* A source is recorded in the canonical ledger after its local terminal, and
\* the loop goes on only then.
LEMMA RecordStep ==
  ASSUME EInv, record_global_source
  PROVE  EInv'
<1>1. /\ at = "loop" /\ item \in Cells(batch) /\ item \in terminals
      /\ UNCHANGED <<ledger, reserved, runvars>>
  BY DEF record_global_source, InLoop, evidence
<1>2. CASE leave /\ UNCHANGED finalized
  BY <1>1, <1>2, LeaveStep DEF leave
<1>3. CASE /\ next_item /\ finalized \subseteq finalized'
           /\ finalized' \subseteq finalized \cup ({item} \cap sources \cap Priced)
           /\ item \in sources \cap Priced => item \in finalized'
  <2>1. UNCHANGED <<at, admission>>
    BY <1>3 DEF next_item
  <2>2. CoverageTypeOK'
    BY <1>1, <2>1 DEF EInv, CoverageTypeOK
  <2>3. FilesInv'
    BY <1>1, <1>3, SameLedger DEF EInv, FilesInv, runvars
  <2>4. Passed' \subseteq Passed \cup {item} /\ batch' = batch
    BY <1>1, <1>3, NextPassed
  <2>5. PlaceInv'
    BY <1>1, <1>3, <2>1, <2>4, SameLedger DEF EInv, PlaceInv
  <2> QED BY <1>1, <2>2, <2>3, <2>5, SameLedger, PaidStutter DEF EInv
<1>4. \/ leave /\ UNCHANGED finalized
      \/ /\ next_item /\ finalized \subseteq finalized'
         /\ finalized' \subseteq finalized \cup ({item} \cap sources \cap Priced)
         /\ item \in sources \cap Priced => item \in finalized'
  BY DEF record_global_source
<1> QED BY <1>2, <1>3, <1>4

-----------------------------------------------------------------------------
(***************************************************************************)
(* The steps that append an entry.                                         *)
(***************************************************************************)
\* A batch that is bound and not completed is the one open batch.
LEMMA OpenBatch ==
  ASSUME EInv
  PROVE  /\ open_batch(ledger) = bound_batches \ completed
         /\ \A b \in bound_batches \ completed : b = done + 1 /\ open_batch(ledger) = {b}
         /\ done + 1 \notin bound_batches => open_batch(ledger) = {}
<1>1. open_batch(ledger) = bound_batches \ completed
  BY DEF open_batch, bound_batches, completed
<1>2. done \in Nat /\ completed = 1..done /\ bound_batches \subseteq 1..(done + 1)
  BY DEF EInv, OrderInv
<1>3. bound_batches \ completed \subseteq {done + 1}
  BY <1>2
<1> QED BY <1>1, <1>3

\* A batch is bound when no other is open: it is the next one, its cells are
\* reserved unless it is unpriced, and its loop has left nothing behind.
LEMMA BoundStep ==
  ASSUME EInv, at \in {"locked", "reserve"}, at' = "loop",
         ledger' = Append(ledger, [Entry("reserved", batch, 0) EXCEPT !.version = admission.version]),
         UNCHANGED <<reserved, finalized, runvars, admission, item>>,
         batch = done + 1, batch \notin bound_batches,
         batch \notin Unpriced => Cells(batch) \subseteq reserved
  PROVE  EInv'
<1> DEFINE x == [Entry("reserved", batch, 0) EXCEPT !.version = admission.version]
<1>1. batch \in Batches /\ admission.version \in Nat \ {0} /\ admission \in Admissions
  BY AdmissionFacts
<1>2. x \in EntryRecord /\ x.event = "reserved" /\ x.batch = batch /\ x.version # 0
  BY <1>1 DEF Entry, EntryRecord, EventName
<1>3. ledger \in Seq(EntryRecord) /\ ledger' = Append(ledger, x)
  BY DEF EInv, CoverageTypeOK
<1> HIDE DEF x
<1>4. /\ ledger' \in Seq(EntryRecord)
      /\ Logged(ledger, "reserved")' = Logged(ledger, "reserved") \cup {x}
      /\ \A e \in {"started", "terminal", "incident"} : Logged(ledger, e)' = Logged(ledger, e)
      /\ starts' = starts /\ terminals' = terminals /\ incidents' = incidents
      /\ completed' = completed /\ bound_batches' = bound_batches \cup {batch}
      /\ sources' = sources
  <2>1. \A e : Logged(ledger, e)' = Logged(ledger, e) \cup (IF x.event = e THEN {x} ELSE {})
    BY <1>2, <1>3, EntryAdds
  <2>2. Logged(ledger, "reserved")' = Logged(ledger, "reserved") \cup {x}
    BY <1>2, <1>3, <2>1
  <2>3. \A e : e # "reserved" => Logged(ledger, e)' = Logged(ledger, e)
    BY <1>2, <1>3, <2>1
  <2> QED BY <1>2, <1>3, <2>2, <2>3, EntryAdds
<1>5. accepts(ledger, x)
  BY <1>2, OpenBatch DEF accepts, done, completed
<1>6. LedgerReplays'
  BY <1>2, <1>3, <1>5, AppendReplays DEF EInv
<1>7. done' = done
  BY <1>4 DEF done
<1>8. OrderInv'
  BY <1>2, <1>4, <1>7 DEF EInv, OrderInv
<1>9. CellInv'
  BY <1>4 DEF EInv, CellInv
<1>10. FilesInv'
  BY <1>4 DEF EInv, FilesInv, runvars
<1>11. Passed' = Passed /\ batch' = batch /\ Passed = {}
  BY DEF Passed, batch, EInv, PlaceInv
<1>12. batch \in bound_batches' \ completed'
  BY <1>4 DEF EInv, OrderInv
<1>13. PlaceInv'
  BY <1>11, <1>12 DEF PlaceInv
<1>14. CoverageTypeOK'
  BY <1>1, <1>4 DEF CoverageTypeOK
<1> QED BY <1>6, <1>8, <1>9, <1>10, <1>13, <1>14, PaidStutter DEF EInv

\* Both ways to bind a batch.
LEMMA BindSteps ==
  ASSUME EInv, reserve_quota \/ bind_batch
  PROVE  EInv'
<1>1. CASE reserve_quota
  <2>1. /\ at = "locked" /\ bound(batch) = 0 /\ batch \in Unpriced
        /\ completed # Batches /\ batch = next_batch
    BY <1>1 DEF reserve_quota, Admitted
  <2>2. batch = done + 1 /\ batch \notin bound_batches
    BY <2>1, NextBatch, BoundIsNonzero
  <2>3. /\ ledger' = Append(ledger, [Entry("reserved", batch, 0) EXCEPT !.version = admission.version])
        /\ UNCHANGED <<reserved, finalized, runvars, admission, item>> /\ at' = "loop"
    BY <1>1 DEF reserve_quota, OnLedger, log, move, evidence
  <2> QED BY <2>1, <2>2, <2>3, BoundStep
<1>2. CASE bind_batch
  <2>1. at = "reserve" /\ Cells(batch) \subseteq reserved
    BY <1>2 DEF bind_batch
  <2>2. batch = done + 1 /\ batch \notin bound_batches
    BY <2>1 DEF EInv, PlaceInv
  <2>3. /\ ledger' = Append(ledger, [Entry("reserved", batch, 0) EXCEPT !.version = admission.version])
        /\ UNCHANGED <<reserved, finalized, runvars, admission, item>> /\ at' = "loop"
    BY <1>2 DEF bind_batch, OnLedger, log, move, evidence
  <2> QED BY <2>1, <2>2, <2>3, BoundStep
<1> QED BY <1>1, <1>2

\* A cell is started once, in the open batch.
LEMMA StartStep ==
  ASSUME EInv, start_item
  PROVE  EInv'
<1> DEFINE x == Entry("started", batch, item)
<1>1. /\ at = "loop" /\ incidents = {} /\ item \in Cells(batch) /\ item \notin terminals \cup starts
      /\ ledger' = Append(ledger, x) /\ at' = "launch"
      /\ UNCHANGED <<reserved, finalized, runvars, admission, item>>
  BY DEF start_item, InLoop, OnLedger, log, move, evidence
<1>2. batch \in Batches /\ admission \in Admissions /\ batch \in bound_batches \ completed
  BY <1>1, AdmissionFacts DEF EInv, PlaceInv
<1>3. x \in EntryRecord /\ x.event = "started" /\ x.batch = batch /\ x.cell = item
  BY <1>1, <1>2 DEF Entry, EntryRecord, EventName, Cells
<1>4. ledger \in Seq(EntryRecord) /\ ledger' = Append(ledger, x)
  BY <1>1 DEF EInv, CoverageTypeOK
<1> HIDE DEF x
<1>5. /\ ledger' \in Seq(EntryRecord)
      /\ Logged(ledger, "started")' = Logged(ledger, "started") \cup {x}
      /\ \A e \in {"reserved", "terminal", "incident"} : Logged(ledger, e)' = Logged(ledger, e)
      /\ starts' = starts \cup {item} /\ terminals' = terminals /\ incidents' = incidents
      /\ completed' = completed /\ bound_batches' = bound_batches
      /\ sources' = sources
  <2>1. \A e : Logged(ledger, e)' = Logged(ledger, e) \cup (IF x.event = e THEN {x} ELSE {})
    BY <1>3, <1>4, EntryAdds
  <2>2. Logged(ledger, "started")' = Logged(ledger, "started") \cup {x}
    BY <1>3, <1>4, <2>1
  <2>3. \A e : e # "started" => Logged(ledger, e)' = Logged(ledger, e)
    BY <1>3, <1>4, <2>1
  <2> QED BY <1>3, <1>4, <2>2, <2>3, EntryAdds
<1>6. accepts(ledger, x)
  BY <1>1, <1>2, <1>3, OpenBatch DEF accepts, starts
<1>7. LedgerReplays'
  BY <1>3, <1>4, <1>6, AppendReplays DEF EInv
<1>8. OrderInv'
  BY <1>5 DEF EInv, OrderInv, done
<1>9. CellInv'
  BY <1>1, <1>2, <1>3, <1>5 DEF EInv, CellInv
<1>10. FilesInv'
  BY <1>1, <1>5 DEF EInv, FilesInv, runvars
<1>11. Passed' = Passed /\ batch' = batch /\ Passed \cap sources \cap Priced \subseteq finalized
  BY <1>1 DEF Passed, batch, EInv, PlaceInv
<1>12. PlaceInv'
  BY <1>1, <1>2, <1>5, <1>11 DEF PlaceInv
<1>13. CoverageTypeOK'
  BY <1>1, <1>2, <1>5 DEF CoverageTypeOK
<1> QED BY <1>1, <1>7, <1>8, <1>9, <1>10, <1>12, <1>13, PaidStutter DEF EInv

\* A started cell ends once: with its source, or because nothing was sent.
LEMMA EndStep ==
  ASSUME EInv, NEW how \in {"source", "zero"}, at = "recover", at' = "loop",
         ledger' = Append(ledger, Ended("terminal", how)),
         UNCHANGED <<reserved, finalized, runvars, admission, item>>,
         how = "source" => file[item] \in Written, item \in sent <=> how = "source"
  PROVE  EInv'
<1> DEFINE x == Ended("terminal", how)
<1>1. /\ batch \in Batches /\ admission \in Admissions /\ batch \in bound_batches \ completed
      /\ item \in Cells(batch) /\ item \in starts \ terminals /\ incidents = {}
  BY AdmissionFacts DEF EInv, PlaceInv
<1>2. /\ x \in EntryRecord /\ x.event = "terminal" /\ x.batch = batch /\ x.cell = item
      /\ x.how = how
  <2> DEFINE n == IF item \in sent THEN 1 ELSE 0
  <2>1. n \in {0, 1} /\ item \in Runs
    BY <1>1 DEF Cells
  <2>2. x = [[Entry("terminal", batch, item) EXCEPT !.how = how] EXCEPT !.requests = n]
    BY DEF Ended, Entry
  <2> HIDE DEF n, x
  <2> QED BY <1>1, <2>1, <2>2 DEF Entry, EntryRecord, EventName
<1>a. x.requests = 0 <=> item \notin sent
  BY DEF Ended, Entry
<1>3. ledger \in Seq(EntryRecord) /\ ledger' = Append(ledger, x)
  BY DEF EInv, CoverageTypeOK
<1> HIDE DEF x
<1>4. /\ ledger' \in Seq(EntryRecord)
      /\ Logged(ledger, "terminal")' = Logged(ledger, "terminal") \cup {x}
      /\ \A e \in {"reserved", "started", "incident"} : Logged(ledger, e)' = Logged(ledger, e)
      /\ starts' = starts /\ terminals' = terminals \cup {item} /\ incidents' = incidents
      /\ completed' = completed /\ bound_batches' = bound_batches
      /\ sources' = sources \cup (IF how = "source" THEN {item} ELSE {})
  <2>1. \A e : Logged(ledger, e)' = Logged(ledger, e) \cup (IF x.event = e THEN {x} ELSE {})
    BY <1>2, <1>3, EntryAdds
  <2>2. Logged(ledger, "terminal")' = Logged(ledger, "terminal") \cup {x}
    BY <1>2, <2>1
  <2>3. \A e : e # "terminal" => Logged(ledger, e)' = Logged(ledger, e)
    BY <1>2, <1>3, <2>1
  <2> QED BY <1>2, <1>3, <2>2, <2>3, EntryAdds
<1>5. accepts(ledger, x)
  BY <1>1, <1>2, <1>a, OpenBatch DEF accepts, starts, terminals
<1>6. LedgerReplays'
  BY <1>2, <1>3, <1>5, AppendReplays DEF EInv
<1>7. OrderInv'
  BY <1>4 DEF EInv, OrderInv, done
<1>8. CellInv'
  <2>1. \A y \in Logged(ledger, "terminal") : y.cell # x.cell
    BY <1>1, <1>2 DEF terminals, CellsOf
  <2>2. \A y, z \in Logged(ledger, "terminal")' : y.cell = z.cell => y = z
    BY <1>4, <2>1 DEF EInv, CellInv
  <2>3. \A e \in {"started", "terminal", "incident"} : \A y \in Logged(ledger, e)' :
          y.cell \in Cells(y.batch) /\ y.batch \in bound_batches'
    BY <1>1, <1>2, <1>4 DEF EInv, CellInv
  <2> QED BY <2>2, <2>3 DEF CellInv
<1>9. FilesInv'
  <2>1. \A b \in completed : item \notin Cells(b)
    BY <1>1 DEF Cells
  <2>2. finalized' \subseteq (sources \cap Priced)'
    BY <1>4 DEF EInv, FilesInv, Priced
  <2>3. \A b \in completed \ Unpriced : Cells(b) \cap sources' \subseteq finalized
    BY <1>4, <2>1 DEF EInv, FilesInv
  <2>4. \A w \in sources' : file[w] \in Written
    BY <1>4 DEF EInv, FilesInv
  <2> QED BY <1>4, <2>2, <2>3, <2>4 DEF EInv, FilesInv, runvars
<1>10. Passed' = Passed /\ batch' = batch /\ item \notin Passed
  BY <1>1, Numbers DEF Passed, batch, Cells
<1>11. Passed' \cap sources' \cap Priced \subseteq finalized
  BY <1>4, <1>10 DEF EInv, PlaceInv
<1>12. PlaceInv'
  BY <1>1, <1>4, <1>10, <1>11 DEF PlaceInv
<1>13. CoverageTypeOK'
  BY <1>1, <1>4 DEF CoverageTypeOK
<1> QED BY <1>6, <1>7, <1>8, <1>9, <1>12, <1>13, PaidStutter DEF EInv

\* A request of unknown fate is an incident, and ends the loop.
LEMMA IncidentStep ==
  ASSUME EInv, recover_incident
  PROVE  EInv'
<1> DEFINE x == Ended("incident", "")
<1>1. /\ at = "recover" /\ ledger' = Append(ledger, x) /\ at' = "close" /\ item \in sent
      /\ UNCHANGED <<reserved, finalized, runvars, admission, item>>
  BY DEF recover_incident, OnLedger, log, move, evidence
<1>2. /\ batch \in Batches /\ admission \in Admissions /\ batch \in bound_batches \ completed
      /\ item \in Cells(batch) /\ item \in starts \ terminals /\ incidents = {}
  BY <1>1, AdmissionFacts DEF EInv, PlaceInv
<1>3. x \in EntryRecord /\ x.event = "incident" /\ x.batch = batch /\ x.cell = item
  BY <1>1, <1>2 DEF Ended, Entry, EntryRecord, EventName, Cells
<1>a. x.requests = 1
  BY <1>1 DEF Ended, Entry
<1>4. ledger \in Seq(EntryRecord) /\ ledger' = Append(ledger, x)
  BY <1>1 DEF EInv, CoverageTypeOK
<1> HIDE DEF x
<1>5. /\ ledger' \in Seq(EntryRecord)
      /\ Logged(ledger, "incident")' = Logged(ledger, "incident") \cup {x}
      /\ \A e \in {"reserved", "started", "terminal"} : Logged(ledger, e)' = Logged(ledger, e)
      /\ starts' = starts /\ terminals' = terminals /\ incidents' = incidents \cup {item}
      /\ completed' = completed /\ bound_batches' = bound_batches
      /\ sources' = sources
  BY <1>3, <1>4, EntryAdds, ZenonT(60)
<1>6. accepts(ledger, x)
  BY <1>2, <1>3, <1>a, OpenBatch DEF accepts, starts, terminals, incidents
<1>7. LedgerReplays'
  BY <1>3, <1>4, <1>6, AppendReplays DEF EInv
<1>8. OrderInv'
  BY <1>5 DEF EInv, OrderInv, done
<1>9. CellInv'
  BY <1>2, <1>3, <1>5 DEF EInv, CellInv
<1>10. FilesInv'
  BY <1>1, <1>5 DEF EInv, FilesInv, runvars
<1>11. batch' = batch
  BY <1>1 DEF batch
<1>12. PlaceInv'
  BY <1>1, <1>2, <1>5, <1>11 DEF PlaceInv
<1>13. CoverageTypeOK'
  BY <1>1, <1>2, <1>5 DEF CoverageTypeOK
<1> QED BY <1>1, <1>7, <1>8, <1>9, <1>10, <1>12, <1>13, PaidStutter DEF EInv

\* A closed batch retains exactly the reservations of its cells without a source.
LEMMA KeptFacts ==
  ASSUME EInv, at = "close", incidents = {}, Cells(batch) \subseteq terminals,
         batch \notin Unpriced
  PROVE  active \cap Cells(batch) =
           {y.cell : y \in {z \in Logged(ledger, "terminal") : z.batch = batch /\ z.how # "source"}}
<1>1. /\ batch \in bound_batches \ completed
      /\ Cells(batch) \cap sources \cap Priced \subseteq finalized
      /\ Cells(batch) \subseteq reserved /\ finalized \subseteq sources
  BY DEF EInv, PlaceInv, FilesInv
<1>2. Cells(batch) \subseteq Priced
  BY DEF Cells, Priced
<1>3. active \cap Cells(batch) = Cells(batch) \ sources
  BY <1>1, <1>2 DEF active
<1>4. ASSUME NEW y \in Logged(ledger, "terminal")
      PROVE  y.cell \in Cells(y.batch) /\ (y.cell \in sources <=> y.how = "source")
  <2>1. y.cell \in terminals
    BY DEF terminals, CellsOf
  <2> QED BY <2>1, CellFacts DEF EInv, CellInv
<1>5. ASSUME NEW w \in Cells(batch) \ sources
      PROVE  \E y \in Logged(ledger, "terminal") : y.batch = batch /\ y.how # "source" /\ y.cell = w
  <2>1. PICK y \in Logged(ledger, "terminal") : y.cell = w
    BY DEF terminals, CellsOf
  <2>2. y.batch = batch
    BY <1>4, <2>1 DEF Cells
  <2> QED BY <1>4, <2>1, <2>2
<1> QED BY <1>3, <1>4, <1>5

\* A batch is completed when each of its cells has ended.
LEMMA CloseStep ==
  ASSUME EInv, close_batch, incidents = {}, Cells(batch) \subseteq terminals
  PROVE  EInv'
<1> DEFINE x == [Entry("closed", batch, 0) EXCEPT !.kept = active \cap Cells(batch)]
<1>1. /\ at = "close" /\ ledger' = Append(ledger, x) /\ at' = "receipt"
      /\ UNCHANGED <<reserved, finalized, runvars, admission, item>>
  BY DEF close_batch, OnLedger, log, move, evidence
<1>2. batch \in Batches /\ admission \in Admissions /\ batch \in bound_batches \ completed
  BY <1>1, AdmissionFacts DEF EInv, PlaceInv
<1>3. /\ x \in EntryRecord /\ x.event = "closed" /\ x.batch = batch
      /\ x.kept = active \cap Cells(batch)
  BY <1>2 DEF Entry, EntryRecord, EventName, Cells
<1>4. ledger \in Seq(EntryRecord) /\ ledger' = Append(ledger, x)
  BY <1>1 DEF EInv, CoverageTypeOK
<1> HIDE DEF x
<1>5. /\ ledger' \in Seq(EntryRecord)
      /\ \A e \in {"reserved", "started", "terminal", "incident"} :
           Logged(ledger, e)' = Logged(ledger, e)
      /\ starts' = starts /\ terminals' = terminals /\ incidents' = incidents
      /\ completed' = completed \cup {batch} /\ bound_batches' = bound_batches
      /\ sources' = sources
  <2>1. \A e : Logged(ledger, e)' = Logged(ledger, e) \cup (IF x.event = e THEN {x} ELSE {})
    BY <1>3, <1>4, EntryAdds
  <2>2. \A e : e # "closed" => Logged(ledger, e)' = Logged(ledger, e)
    BY <1>3, <2>1
  <2> QED BY <1>3, <1>4, <2>2, EntryAdds
<1>6. accepts(ledger, x)
  BY <1>1, <1>2, <1>3, OpenBatch, KeptFacts DEF accepts, terminals
<1>7. LedgerReplays'
  BY <1>3, <1>4, <1>6, AppendReplays DEF EInv
<1>8. OrderInv'
  <2>1. /\ done \in Nat /\ completed = 1..done /\ bound_batches \subseteq 1..(done + 1)
        /\ batch = done + 1
    BY <1>2, OpenBatch DEF EInv, OrderInv
  <2>2. completed' = 1..(done + 1)
    BY <1>5, <2>1
  <2>3. Cardinality(1..(done + 1)) = done + 1
    BY <2>1, FS_Interval
  <2>4. done' = done + 1
    BY <2>2, <2>3 DEF done
  <2>5. completed' = 1..done' /\ done' \in Nat /\ bound_batches' \subseteq 1..(done' + 1)
    BY <1>5, <2>1, <2>2, <2>4
  <2> QED BY <1>2, <1>5, <2>5 DEF EInv, OrderInv
<1>9. CellInv'
  BY <1>5 DEF EInv, CellInv
<1>10. FilesInv'
  <2>1. batch \notin Unpriced => Cells(batch) \cap sources \subseteq finalized
    BY <1>1 DEF EInv, PlaceInv, Cells, Priced
  <2> QED BY <1>1, <1>5, <2>1 DEF EInv, FilesInv, runvars
<1>11. PlaceInv'
  BY <1>1 DEF PlaceInv
<1>12. CoverageTypeOK'
  BY <1>1, <1>2, <1>5 DEF CoverageTypeOK
<1> QED BY <1>1, <1>7, <1>8, <1>9, <1>10, <1>11, <1>12, PaidStutter DEF EInv

-----------------------------------------------------------------------------
(***************************************************************************)
(* The runs.                                                               *)
(***************************************************************************)
\* A step of a run respects EInv when a launch is that of a started cell: a
\* source that is written stays, and so does a run that was not launched.
LEMMA RunStep ==
  ASSUME EInv, NEW r \in Runs, RunStepOf(r), Launch(r) => r \in starts,
         UNCHANGED <<ledger, reserved, finalized>>, CoverageTypeOK', PlaceInv'
  PROVE  EInv'
<1>1. PaidInv /\ PaidInv'
  BY PaidStep DEF EInv
<1>2. OrderInv' /\ CellInv' /\ LedgerReplays'
  BY SameLedger DEF EInv
<1>3. ASSUME NEW v \in Runs
      PROVE  /\ file[v] \in Written => file'[v] = file[v]
             /\ phase'[v] # "none" => v \in starts
  <2>1. file[v] \in Written => file'[v] = file[v]
    BY <1>1, RunIsMonotone
  <2>2. CASE v = r /\ Launch(r)
    BY <2>1, <2>2
  <2>3. CASE v = r /\ ~Launch(r)
    BY <1>1, <2>1, <2>3, RunIsMonotone DEF EInv, FilesInv
  <2>4. CASE v # r
    BY <1>1, <2>1, <2>4, OtherRuns DEF EInv, FilesInv, PaidInv
  <2> QED BY <2>2, <2>3, <2>4
<1>4. sources \subseteq Runs
  BY CellFacts
<1>5. FilesInv'
  BY <1>3, <1>4, SameLedger DEF EInv, FilesInv
<1> QED BY <1>1, <1>2, <1>5 DEF EInv

\* A run is launched for the cell that was started for it.
LEMMA LaunchCellStep ==
  ASSUME EInv, run_live_cell
  PROVE  EInv'
<1>1. /\ at = "launch" /\ at' = "run" /\ Launch(item)
      /\ UNCHANGED <<ledger, reserved, finalized, admission, item>>
  BY DEF run_live_cell, move, books
<1>2. item \in Runs /\ item \in starts /\ RunStepOf(item)
  BY <1>1 DEF EInv, PlaceInv, Cells, RunStepOf
<1>3. CoverageTypeOK'
  BY <1>1 DEF EInv, CoverageTypeOK
<1>4. Passed' = Passed /\ batch' = batch
  BY <1>1 DEF Passed, batch
<1>5. PlaceInv'
  BY <1>1, <1>4, SameLedger DEF EInv, PlaceInv
<1> QED BY <1>1, <1>2, <1>3, <1>5, RunStep

\* The steps of a run and of the provider leave the executor where it is.
LEMMA CellStepInv ==
  ASSUME EInv, NEW w \in Runs, CellStep(w)
  PROVE  EInv'
<1>1. UNCHANGED <<ledger, reserved, finalized, at, admission, item>>
  BY DEF CellStep, books
<1>2. CoverageTypeOK'
  BY <1>1 DEF EInv, CoverageTypeOK
<1>3. Passed' = Passed /\ batch' = batch
  BY <1>1 DEF Passed, batch
<1>4. PlaceInv'
  BY <1>1, <1>3, SameLedger DEF EInv, PlaceInv
<1>5. CASE Send(w)
  BY <1>1, <1>2, <1>4, <1>5, NoWriteStep DEF Send
<1>6. CASE Write(w) \/ Charge(w) \/ Open(w) \/ Exit(w) \/ Die(w)
  <2>1. PaidTypeOK
    BY DEF EInv, PaidInv
  <2>2. ~Launch(w)
    BY <1>6, <2>1 DEF Launch, Write, Charge, Open, Exit, Die, PaidTypeOK
  <2>3. RunStepOf(w)
    BY <1>6 DEF RunStepOf
  <2> QED BY <1>1, <1>2, <1>4, <2>2, <2>3, RunStep
<1> QED BY <1>5, <1>6 DEF CellStep, WriteSource

\* A crash takes the invocation and the running process, and nothing durable.
LEMMA CrashStep ==
  ASSUME EInv, crash
  PROVE  EInv'
<1>1. /\ at' = "idle" /\ UNCHANGED <<ledger, reserved, finalized, spent, file, reported>>
      /\ phase' = [w \in Runs |-> IF phase[w] = "live" THEN "dead" ELSE phase[w]]
  BY DEF crash, leave, books
<1>2. PaidInv'
  <2>1. PaidTypeOK'
    BY <1>1 DEF EInv, PaidInv, PaidTypeOK
  <2>2. ASSUME NEW w \in Runs
        PROVE  RunInv(w)'
    <3>1. RunInv(w) /\ phase'[w] = IF phase[w] = "live" THEN "dead" ELSE phase[w]
      BY <1>1 DEF EInv, PaidInv
    <3> QED BY <1>1, <3>1 DEF RunInv
  <2> QED BY <2>1, <2>2 DEF PaidInv
<1>3. CoverageTypeOK'
  BY <1>1 DEF EInv, CoverageTypeOK
<1>4. OrderInv' /\ CellInv' /\ LedgerReplays'
  BY <1>1, SameLedger DEF EInv
<1>5. \A w \in Runs : phase'[w] # "none" => phase[w] # "none"
  BY <1>1
<1>6. FilesInv'
  BY <1>1, <1>5, SameLedger DEF EInv, FilesInv
<1>7. PlaceInv'
  BY <1>1 DEF PlaceInv
<1> QED BY <1>2, <1>3, <1>4, <1>6, <1>7 DEF EInv

-----------------------------------------------------------------------------
(***************************************************************************)
(* The theorems.                                                           *)
(***************************************************************************)
\* EInv holds at first: nothing is bound and nobody is at work.
LEMMA CoverageInit == Init => EInv
<1> SUFFICES ASSUME Init
             PROVE  EInv
  OBVIOUS
<1>1. PaidInv
  BY PaidInit DEF Init
<1>2. ledger = <<>> /\ Len(ledger) = 0 /\ at = "idle" /\ finalized = {} /\ reserved = {}
  BY DEF Init
<1>3. \A e : Logged(ledger, e) = {}
  BY <1>2 DEF Logged
<1>4. /\ starts = {} /\ terminals = {} /\ completed = {} /\ bound_batches = {} /\ sources = {}
  BY <1>3 DEF starts, terminals, completed, bound_batches, sources, CellsOf, BatchesOf
<1>5. done = 0
  BY <1>4, FS_EmptySet DEF done
<1>6. CoverageTypeOK /\ PlaceInv /\ CellInv
  BY <1>2, <1>3 DEF CoverageTypeOK, PlaceInv, CellInv
<1>7. OrderInv
  BY <1>3, <1>4, <1>5 DEF OrderInv
<1>8. FilesInv
  BY <1>2, <1>4 DEF FilesInv, Init, RunInit
<1>9. LedgerReplays
  BY <1>2 DEF LedgerReplays
<1> QED BY <1>1, <1>6, <1>7, <1>8, <1>9 DEF EInv

\* Every step of the executor, its runs and its environment preserves EInv.
LEMMA CoverageNext == EInv /\ SoundInv /\ [Next]_coveragevars => EInv'
<1> SUFFICES ASSUME EInv, SoundInv, [Next]_coveragevars
             PROVE  EInv'
  OBVIOUS
<1>1. CASE \E a \in Admissions : invoke(a) \/ attestation_expires(a)
  BY <1>1, InvokeStep, ExpiryStep
<1>2. CASE \E w \in Runs : CellStep(w)
  BY <1>2, CellStepInv
<1>3. CASE crash
  BY <1>3, CrashStep
<1>4. CASE resume_batch \/ admit_priced
  BY <1>4, DecideStep
<1>5. CASE reserve_quota \/ bind_batch
  BY <1>5, BindSteps
<1>6. CASE recover_receipt \/ refuse_invocation \/ probe_raises \/ materialize_receipt
  BY <1>6, LeavingSteps
<1>7. CASE resume_item \/ live_cell_ends \/ loop_ends
  BY <1>7, OtherQuietSteps
<1>8. CASE reserve_cell \/ record_global_source
  BY <1>8, ReserveCellStep, RecordStep
<1>9. CASE start_item \/ recover_incident
  BY <1>9, StartStep, IncidentStep
<1>10. CASE run_live_cell
  BY <1>10, LaunchCellStep
<1>11. CASE recover_source
  <2>1. CASE item \in sound
    <3>1. /\ at = "recover" /\ at' = "loop" /\ file[item] \in Written
          /\ ledger' = Append(ledger, Ended("terminal", "source")) /\ item \in sent
          /\ UNCHANGED <<reserved, finalized, runvars, admission, item>>
      BY <1>11, <2>1 DEF SoundInv, recover_source, OnLedger, log, move, evidence
    <3> QED BY <3>1, EndStep
  <2>2. CASE item \notin sound
    BY <1>11, <2>2, LeavingSteps
  <2> QED BY <2>1, <2>2
<1>12. CASE recover_zero_cost
  <2>1. /\ at = "recover" /\ at' = "loop"
        /\ ledger' = Append(ledger, Ended("terminal", "zero")) /\ item \notin sent
        /\ UNCHANGED <<reserved, finalized, runvars, admission, item>>
    BY <1>12 DEF recover_zero_cost, OnLedger, log, move, evidence
  <2> QED BY <2>1, EndStep
<1>13. CASE close_batch
  BY <1>13, CloseStep, LeavingSteps
<1>14. CASE UNCHANGED coveragevars
  <2>1. UNCHANGED <<ledger, reserved, finalized, runvars, at, admission, item>>
    BY <1>14 DEF coveragevars, books, evidence
  <2>2. CoverageTypeOK'
    BY <2>1 DEF EInv, CoverageTypeOK
  <2>3. Passed' = Passed /\ batch' = batch
    BY <2>1 DEF Passed, batch
  <2>4. PlaceInv'
    BY <2>1, <2>3, SameLedger DEF EInv, PlaceInv
  <2> QED BY <2>1, <2>2, <2>4, NoWriteStep
<1> QED BY <1>1, <1>2, <1>3, <1>4, <1>5, <1>6, <1>7, <1>8, <1>9, <1>10, <1>11, <1>12, <1>13,
          <1>14 DEF Next, ExecutorStep

\* Only a run writes a source, and a source without a request is not sound.
LEMMA SoundHolds ==
  /\ Init => SoundInv
  /\ SoundInv /\ [Next]_coveragevars => SoundInv'
<1>1. Init => SoundInv
  BY DEF Init, SoundInv
<1>2. ASSUME SoundInv, [Next]_coveragevars
      PROVE  SoundInv'
  <2>1. CASE \E w \in Runs : CellStep(w)
    BY <1>2, <2>1 DEF CellStep, Send, WriteSource, SoundInv
  <2>2. CASE ~ \E w \in Runs : CellStep(w)
    <3>1. UNCHANGED <<sent, sound>>
      BY <1>2, <2>2 DEF Next, ExecutorStep, coveragevars, invoke, attestation_expires, crash,
           recover_receipt, resume_batch, reserve_quota, admit_priced, refuse_invocation,
           reserve_cell, bind_batch, record_global_source, start_item, resume_item,
           run_live_cell, live_cell_ends, recover_source, recover_incident, recover_zero_cost,
           probe_raises, loop_ends, close_batch, materialize_receipt, evidence
    <3> QED BY <1>2, <3>1 DEF SoundInv
  <2> QED BY <2>1, <2>2
<1> QED BY <1>1, <1>2

\* EInv holds whatever crashes, expires or fails when.
THEOREM EInvHolds == Spec => []EInv
  BY CoverageInit, CoverageNext, SoundHolds, PTL DEF Spec

\* A restart always finds a ledger that loads: batches follow the frozen order
\* one at a time, no cell is started or ended twice, a cell ends without a
\* request exactly when it cost nothing, and a closed batch retains exactly the
\* reservations of its cells without a source.
THEOREM LedgerAlwaysLoads == Spec => []LedgerReplays
<1>1. EInv => LedgerReplays
  BY DEF EInv
<1> QED BY <1>1, EInvHolds, PTL

\* A bound batch has its reservations, and none of them was released before the
\* local terminal with a source that releases it; a completed one has released
\* all that it may.
LEMMA BooksAgree == EInv => LedgersAgree
<1> SUFFICES ASSUME EInv, NEW b \in bound_batches \ Unpriced
             PROVE  rebinds(b) /\ (b \in completed => completed_stands(b))
  BY DEF LedgersAgree, bound_batches
<1>1. Cells(b) \subseteq reserved /\ finalized \subseteq sources
  BY DEF EInv, FilesInv
<1>2. rebinds(b)
  BY <1>1 DEF rebinds
<1>3. b \in completed => Cells(b) \cap sources \subseteq finalized
  BY DEF EInv, FilesInv
<1> QED BY <1>1, <1>2, <1>3 DEF completed_stands

\* The executor's ledger and the canonical ledger never disagree.
THEOREM TwoLedgersAgree == Spec => []LedgersAgree
  BY EInvHolds, BooksAgree, PTL

-----------------------------------------------------------------------------
(***************************************************************************)
(* The budget.                                                             *)
(***************************************************************************)
\* The cells that an admission has passed for and may still be reserving.
pending == IF at = "reserve" THEN Cells(batch) ELSE {}

\* What a cell may come to cost: its allowance while it is reserved or about to
\* be, then what its source is counted at.
committed ==
  [w \in Runs |-> IF w \in active \cup pending THEN Allowance
                  ELSE IF file[w] \in Written THEN claim(w) ELSE 0]

\* What all priced cells may come to cost is admitted, not only what they have
\* cost: a source that is written while its reservation stands changes nothing.
BudgetInv == Baseline + SumFunctionOnSet(committed, Priced) <= Ceiling

\* Priced cells are finitely many, and their commitments and claims are numbers.
LEMMA CommittedFacts ==
  ASSUME EInv
  PROVE  /\ IsFiniteSet(Priced) /\ Priced \subseteq Runs
         /\ \A w \in Runs : committed[w] \in Nat /\ committed[w] <= Allowance
         /\ \A w \in Runs : claim(w) \in Nat /\ claim(w) <= Allowance
<1>1. IsFiniteSet(Priced) /\ Priced \subseteq Runs
  BY CoverageConstants, FS_Subset DEF Priced
<1>2. \A w \in Runs : claim(w) \in Nat /\ claim(w) <= Allowance
  BY ClaimCovers DEF EInv
<1> QED BY <1>1, <1>2, PaidRunConstants DEF committed

\* A priced cell that has no source but may be charged keeps its reservation: it
\* was started, so its batch was bound, and only a source releases it.
LEMMA LiveIsReserved ==
  ASSUME EInv, NEW w \in Priced, phase[w] # "none", file[w] \notin Written
  PROVE  w \in active
<1>1. w \in starts /\ w \in Runs /\ BatchOf[w] \notin Unpriced
  BY DEF EInv, FilesInv, Priced
<1>2. BatchOf[w] \in bound_batches
  BY <1>1, CellFacts
<1>3. w \in reserved
  BY <1>1, <1>2 DEF EInv, FilesInv, Cells
<1>4. w \notin finalized
  BY DEF EInv, FilesInv
<1> QED BY <1>3, <1>4 DEF active

\* What the provider charges for a priced cell is counted, by its source or by
\* its reservation.
LEMMA SpendIsCounted ==
  ASSUME EInv, NEW w \in Priced
  PROVE  /\ spent[w] <= (IF file[w] \in Written THEN claim(w) ELSE 0)
                          + (IF w \in active THEN Allowance ELSE 0)
         /\ spent[w] \in Int /\ spent[w] <= committed[w]
<1>1. w \in Runs
  BY DEF Priced
<1>2. /\ spent[w] \in Nat /\ spent[w] <= Allowance /\ claim(w) \in Nat /\ claim(w) <= Allowance
      /\ file[w] \in Written => spent[w] <= claim(w)
      /\ phase[w] = "none" => spent[w] = 0
  BY <1>1, ClaimCovers DEF EInv
<1>3. w \in active \/ file[w] \in Written \/ phase[w] = "none"
  BY LiveIsReserved
<1> QED BY <1>1, <1>2, <1>3, PaidRunConstants DEF committed

\* A step that reserves only what an admission is pending for, and writes only
\* sources of reserved cells, commits to nothing new.
LEMMA CommitsNoMore ==
  ASSUME EInv, EInv', BudgetInv,
         reserved' \subseteq reserved \cup pending, finalized \subseteq finalized',
         pending' \subseteq pending,
         \A w \in Priced : file'[w] \in Written =>
           \/ file[w] \in Written /\ file'[w] = file[w] /\ reported'[w] = reported[w]
           \/ w \in active
  PROVE  BudgetInv'
<1>1. ASSUME NEW w \in Priced
      PROVE  committed[w] \in Int /\ committed'[w] \in Int /\ committed'[w] <= committed[w]
  <2>1. w \in Runs /\ committed[w] \in Nat /\ claim(w) \in Nat
    BY CommittedFacts
  <2>2. committed'[w] \in Nat /\ committed'[w] <= Allowance
    <3>1. reported'[w] \in 0..Allowance
      BY <2>1 DEF EInv, PaidInv, PaidTypeOK
    <3>2. claim(w)' \in Nat /\ claim(w)' <= Allowance
      BY <3>1, PaidRunConstants DEF claim
    <3> QED BY <2>1, <3>2, PaidRunConstants DEF committed
  <2>3. CASE w \in active \cup pending
    BY <2>1, <2>2, <2>3 DEF committed
  <2>4. CASE w \notin active \cup pending
    <3>1. w \notin active' \cup pending'
      BY <2>4 DEF active
    <3>2. CASE file'[w] \in Written
      <4>1. file[w] \in Written /\ file'[w] = file[w] /\ reported'[w] = reported[w]
        BY <2>4, <3>2
      <4>2. claim(w)' = claim(w)
        BY <4>1 DEF claim
      <4> QED BY <2>1, <2>4, <3>1, <3>2, <4>1, <4>2 DEF committed
    <3>3. CASE file'[w] \notin Written
      BY <2>1, <3>1, <3>3 DEF committed
    <3> QED BY <3>2, <3>3
  <2> QED BY <2>3, <2>4
<1>3. SumFunctionOnSet(committed', Priced) <= SumFunctionOnSet(committed, Priced)
  BY <1>1, CommittedFacts, SumBounded
<1>4. SumFunctionOnSet(committed', Priced) \in Int /\ SumFunctionOnSet(committed, Priced) \in Int
  BY <1>1, CommittedFacts, SumType
<1>5. Baseline \in Nat /\ Ceiling \in Nat
  BY CoverageConstants
<1> QED BY <1>3, <1>4, <1>5 DEF BudgetInv

\* The admission adds up what is counted by sources, by the reservations that
\* stand, and by those that are still to be made: that covers every commitment.
LEMMA AdmissionCovers ==
  ASSUME EInv, admit_priced
  PROVE  BudgetInv'
<1>1. /\ at' = "reserve" /\ UNCHANGED <<reserved, finalized, admission, file, reported>>
      /\ batch \notin Unpriced /\ projected(batch) <= Ceiling
  BY DEF admit_priced, Budgeted, move, books, evidence, runvars
<1> DEFINE counted == [w \in Runs |-> claim(w)]
           written == {w \in Priced : file[w] \in Written}
           U == active \cup Cells(batch)
<1>2. U \subseteq Priced /\ active \subseteq U /\ IsFiniteSet(U) /\ IsFiniteSet(Priced)
  <2>1. active \subseteq Priced
    BY DEF EInv, FilesInv, active
  <2>2. Cells(batch) \subseteq Priced
    BY <1>1 DEF Cells, Priced
  <2> QED BY <2>1, <2>2, CommittedFacts, FS_Subset
<1>3. /\ \A w \in U : committed'[w] = Allowance
      /\ \A w \in Priced \ U : committed'[w] = IF w \in written THEN claim(w) ELSE 0
  <2>1. active' = active /\ pending' = Cells(batch) /\ \A w : claim(w)' = claim(w)
    BY <1>1 DEF active, pending, batch, claim
  <2>2. \A w \in Runs : committed'[w] = IF w \in U THEN Allowance
                                        ELSE IF file[w] \in Written THEN claim(w) ELSE 0
    BY <1>1, <2>1 DEF committed
  <2> QED BY <1>2, <2>2 DEF Priced
<1>4. \A w \in Priced : claim(w) \in Nat /\ counted[w] = claim(w) /\ committed'[w] \in Int
  BY <1>3, CommittedFacts, PaidRunConstants
<1>5. /\ SumFunctionOnSet(committed', Priced) <=
           SumFunctionOnSet(counted, written) + Allowance * Cardinality(U)
      /\ SumFunctionOnSet(committed', Priced) \in Nat
      /\ SumFunctionOnSet(counted, written) \in Nat
  <2>1. CountedAt(committed', Priced, U, Allowance, written, counted)
    BY <1>2, <1>3, <1>4, PaidRunConstants DEF CountedAt
  <2> QED BY <2>1, SumCovered
<1>6. Allowance * Cardinality(U) =
        Allowance * Cardinality(active) + Allowance * Cardinality(Cells(batch) \ active)
  <2>1. IsFiniteSet(active) /\ IsFiniteSet(Cells(batch) \ active)
    BY <1>2, FS_Subset
  <2>2. U = active \cup (Cells(batch) \ active) /\ active \cap (Cells(batch) \ active) = {}
    OBVIOUS
  <2>3. /\ Cardinality(U) = Cardinality(active) + Cardinality(Cells(batch) \ active)
        /\ Cardinality(active) \in Nat /\ Cardinality(Cells(batch) \ active) \in Nat
    <3>1. Cardinality(active \cup (Cells(batch) \ active)) =
            Cardinality(active) + Cardinality(Cells(batch) \ active)
              - Cardinality(active \cap (Cells(batch) \ active))
      BY <2>1, FS_Union
    <3>2. Cardinality(active \cap (Cells(batch) \ active)) = 0
      BY <2>2, FS_EmptySet
    <3>3. Cardinality(active) \in Nat /\ Cardinality(Cells(batch) \ active) \in Nat
      BY <2>1, FS_CardinalityType
    <3>4. Cardinality(U) = Cardinality(active \cup (Cells(batch) \ active))
      BY <2>2
    <3> HIDE DEF U
    <3> QED BY <3>1, <3>2, <3>3, <3>4
  <2> HIDE DEF U
  <2> QED BY <2>3, PaidRunConstants
<1>7. /\ Allowance * Cardinality(active) \in Nat
      /\ Allowance * Cardinality(Cells(batch) \ active) \in Nat
  <2>1. Cardinality(active) \in Nat /\ Cardinality(Cells(batch) \ active) \in Nat
    BY <1>2, FS_Subset, FS_CardinalityType
  <2> QED BY <2>1, PaidRunConstants
<1>8. Baseline + SumFunctionOnSet(counted, written) + Allowance * Cardinality(active)
        + Allowance * Cardinality(Cells(batch) \ active) <= Ceiling
  BY <1>1 DEF projected, later_source_exposure
<1>9. Baseline + SumFunctionOnSet(committed', Priced) <= Ceiling
  <2> HIDE DEF U, counted, written
  <2> QED BY <1>5, <1>6, <1>7, <1>8, CoverageConstants
<1> QED BY <1>9 DEF BudgetInv

\* What the steps do to what is committed: reservations are made only for the
\* batch that was admitted, and an artifact appears only while its run is live.
LEMMA StepCommits ==
  ASSUME EInv, [Next]_coveragevars
  PROVE  \/ admit_priced
         \/ /\ reserved' \subseteq reserved \cup pending /\ finalized \subseteq finalized'
            /\ pending' \subseteq pending
            /\ \A w \in Runs : file'[w] \in Written =>
                 \/ file[w] \in Written /\ file'[w] = file[w] /\ reported'[w] = reported[w]
                 \/ phase[w] # "none" /\ file[w] \notin Written
<1>1. CASE \/ \E a \in Admissions : invoke(a) \/ attestation_expires(a)
           \/ UNCHANGED coveragevars \/ recover_receipt \/ resume_batch \/ reserve_quota
           \/ refuse_invocation \/ bind_batch \/ start_item \/ resume_item \/ live_cell_ends
           \/ recover_source \/ recover_incident \/ recover_zero_cost \/ probe_raises
           \/ loop_ends \/ close_batch \/ materialize_receipt
  <2>1. /\ UNCHANGED <<reserved, finalized, file, reported>>
        /\ at' # "reserve" \/ UNCHANGED <<at, admission>>
    BY <1>1 DEF invoke, attestation_expires, coveragevars, recover_receipt, resume_batch,
         reserve_quota, refuse_invocation, bind_batch, start_item, resume_item, live_cell_ends,
         recover_source, recover_incident, recover_zero_cost, probe_raises, loop_ends,
         close_batch, materialize_receipt, OnLedger, move, leave, books, evidence, runvars
  <2>2. pending' \subseteq pending
    BY <2>1 DEF pending, batch
  <2> QED BY <2>1, <2>2
<1>2. CASE record_global_source
  <2>1. /\ UNCHANGED <<reserved, file, reported>> /\ finalized \subseteq finalized'
        /\ at' # "reserve"
    BY <1>2 DEF record_global_source, InLoop, next_item, leave, evidence, runvars
  <2> QED BY <2>1 DEF pending
<1>3. CASE reserve_cell
  <2>1. /\ at = "reserve" /\ Cells(batch) \ reserved # {}
        /\ reserved' = reserved \cup {Min(Cells(batch) \ reserved)}
        /\ UNCHANGED <<at, admission, finalized, file, reported>>
    BY <1>3 DEF reserve_cell, evidence, runvars
  <2>2. Cells(batch) \ reserved \in SUBSET Nat
    BY Numbers DEF Cells
  <2>3. Min(Cells(batch) \ reserved) \in Cells(batch)
    BY <2>1, <2>2, MinIsLeast
  <2> QED BY <2>1, <2>3 DEF pending, batch
<1>4. CASE run_live_cell \/ crash
  <2>1. UNCHANGED <<reserved, finalized, file, reported>> /\ at' # "reserve"
    BY <1>4 DEF run_live_cell, Launch, crash, move, leave, books
  <2> QED BY <2>1 DEF pending
<1>5. CASE \E w \in Runs : CellStep(w)
  <2>1. PICK w \in Runs : CellStep(w)
    BY <1>5
  <2>2. UNCHANGED <<reserved, finalized, at, admission>> /\ pending' = pending
    BY <2>1 DEF CellStep, books, pending, batch
  <2>3. CASE Send(w)
    BY <2>2, <2>3 DEF Send, runvars
  <2>4. CASE Write(w) \/ Charge(w) \/ Open(w) \/ Exit(w) \/ Die(w)
    <3>1. ASSUME NEW v \in Runs, file'[v] \in Written
          PROVE  \/ file[v] \in Written /\ file'[v] = file[v] /\ reported'[v] = reported[v]
                 \/ phase[v] # "none" /\ file[v] \notin Written
      <4>1. RunStepOf(w) /\ PaidInv
        BY <2>4 DEF RunStepOf, EInv
      <4>2. CASE file[v] \in Written
        BY <4>1, <4>2, RunIsMonotone
      <4>3. CASE file[v] \notin Written
        <5>1. v = w
          BY <3>1, <4>1, <4>3, OtherRuns DEF PaidInv
        <5>2. phase[w] # "none"
          BY <2>4 DEF Write, Charge, Open, Exit, Die
        <5> QED BY <4>3, <5>1, <5>2
      <4> QED BY <4>2, <4>3
    <3> QED BY <2>2, <3>1
  <2> QED BY <2>1, <2>3, <2>4 DEF CellStep, WriteSource
<1> QED BY <1>1, <1>2, <1>3, <1>4, <1>5 DEF Next, ExecutorStep

\* If what other ledgers hold is under the ceiling at all, everything the priced
\* cells may come to cost stays under it too.
LEMMA BudgetNext == EInv /\ SoundInv /\ BudgetInv /\ [Next]_coveragevars => BudgetInv'
<1> SUFFICES ASSUME EInv, SoundInv, BudgetInv, [Next]_coveragevars
             PROVE  BudgetInv'
  OBVIOUS
<1>1. EInv'
  BY CoverageNext
<1>2. CASE admit_priced
  BY <1>2, AdmissionCovers
<1>3. CASE ~admit_priced
  <2>1. /\ reserved' \subseteq reserved \cup pending /\ finalized \subseteq finalized'
        /\ pending' \subseteq pending
        /\ \A w \in Runs : file'[w] \in Written =>
             \/ file[w] \in Written /\ file'[w] = file[w] /\ reported'[w] = reported[w]
             \/ phase[w] # "none" /\ file[w] \notin Written
    BY <1>3, StepCommits
  <2>2. \A w \in Priced : file'[w] \in Written =>
             \/ file[w] \in Written /\ file'[w] = file[w] /\ reported'[w] = reported[w]
             \/ w \in active
    BY <2>1, LiveIsReserved DEF Priced
  <2> QED BY <1>1, <2>1, <2>2, CommitsNoMore
<1> QED BY <1>2, <1>3

\* Nothing is committed at first.
LEMMA BudgetInit == Init /\ Baseline <= Ceiling => BudgetInv
<1> SUFFICES ASSUME Init, Baseline <= Ceiling
             PROVE  BudgetInv
  OBVIOUS
<1>1. IsFiniteSet(Priced) /\ Priced \subseteq Runs
  BY CoverageInit, CommittedFacts
<1>2. \A w \in Priced : committed[w] = 0
  BY <1>1 DEF Init, RunInit, committed, active, pending, Written, Settled
<1>3. SumFunctionOnSet(committed, Priced) = 0 * Cardinality(Priced) /\ Cardinality(Priced) \in Nat
  BY <1>1, <1>2, SumConstant, FS_CardinalityType
<1> QED BY <1>3, CoverageConstants DEF BudgetInv

\* What the priced cells cost is no more than what they may come to cost.
LEMMA SpendIsCommitted == EInv /\ BudgetInv => CoverageSpendIsAdmitted
<1> SUFFICES ASSUME EInv, BudgetInv
             PROVE  CoverageSpendIsAdmitted
  OBVIOUS
<1>1. ASSUME NEW w \in Priced
      PROVE  spent[w] \in Int /\ committed[w] \in Int /\ spent[w] <= committed[w]
  <2>1. w \in Runs /\ committed[w] \in Nat
    BY CommittedFacts
  <2> QED BY <2>1, SpendIsCounted
<1>2. SumFunctionOnSet(spent, Priced) <= SumFunctionOnSet(committed, Priced)
  BY <1>1, CommittedFacts, SumBounded
<1>3. SumFunctionOnSet(spent, Priced) \in Int /\ SumFunctionOnSet(committed, Priced) \in Int
  BY <1>1, CommittedFacts, SumType
<1>4. Baseline + SumFunctionOnSet(spent, Priced) <= Ceiling
  BY <1>2, <1>3, CoverageConstants DEF BudgetInv
<1>5. \A w \in Priced : spent[w] <= (IF file[w] \in Written THEN claim(w) ELSE 0)
                                     + (IF w \in active THEN Allowance ELSE 0)
  BY SpendIsCounted
<1> QED BY <1>4, <1>5 DEF CoverageSpendIsAdmitted

\* What the provider charges for priced cells is counted at every moment, and
\* stays under the admission ceiling together with everything counted before,
\* if that was under the ceiling itself.
THEOREM CoverageStaysUnderCeiling ==
  ASSUME Baseline <= Ceiling
  PROVE  Spec => []CoverageSpendIsAdmitted
<1>1. Init => BudgetInv
  BY BudgetInit
<1> QED BY <1>1, CoverageInit, CoverageNext, SoundHolds, BudgetNext, SpendIsCommitted, PTL
  DEF Spec
=============================================================================
