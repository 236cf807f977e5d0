--------------------------- MODULE SharedBudgetProofs ---------------------------
(***************************************************************************)
(* Proofs about the contract runner, and about both governed runners on    *)
(* one account, for every panel, workload, allowance, price and ceiling    *)
(* and any number of runs.                                                 *)
(*                                                                         *)
(* The first part is about ContractRunner.  CInv ties the ledger to the    *)
(* runs it is about: a run was launched only on a reservation, and each    *)
(* entry that releases the reservation is about a run that has its         *)
(* artifact or that refused.  The second part joins it with the invariant  *)
(* of the dataset runner.                                                  *)
(***************************************************************************)
EXTENDS SharedBudget, PaidRunProofs, SumLemmas

(***************************************************************************)
(* THE CONTRACT RUNNER                                                     *)
(***************************************************************************)
EventName == {"reservation", "timeout", "no_artifact", "artifact", "reconciliation"}
EntryRecord == [event : EventName, run : Nat, candidate : Nat]

ContractTypeOK ==
  /\ at \in {"idle", "initial", "loop", "launch", "wait", "timed_out", "end"}
  /\ position \in Nat
  /\ entries \in Seq(EntryRecord)

\* Reservations number the runs from 1; an invocation that has one under way
\* works on the newest.
NumberInv ==
  /\ current \in Nat /\ ReservedRuns = 1..current
  /\ at \in {"launch", "wait", "timed_out"} => current \in Runs

\* What the ledger says about a run is true of it.
LogInv(r) ==
  /\ phase[r] # "none" => Logged("reservation", r)
  /\ Logged("artifact", r) => file[r] \in Written
  /\ Logged("reconciliation", r) => phase[r] = "refused"

CInv == PaidInv /\ ContractTypeOK /\ NumberInv /\ \A r \in Runs : LogInv(r)

-----------------------------------------------------------------------------
(***************************************************************************)
(* The constants and the ledger.                                           *)
(***************************************************************************)
\* Runs and candidates are numbers.
LEMMA Numbers ==
  /\ Runs \subseteq Nat \ {0} /\ Candidates \subseteq Nat \ {0}
  /\ Cardinality(Runs) \in Nat
  BY ContractConstants, FS_CardinalityType

\* Appending one entry logs that entry and nothing else.
LEMMA AppendLogs ==
  ASSUME entries \in Seq(EntryRecord), NEW x \in EntryRecord, entries' = Append(entries, x),
         NEW e, NEW r
  PROVE  /\ entries' \in Seq(EntryRecord)
         /\ Logged(e, r)' <=> Logged(e, r) \/ \E c \in Candidates : x = Entry(e, r, c)
<1>1. /\ entries' \in Seq(EntryRecord) /\ Len(entries') = Len(entries) + 1
      /\ \A i \in 1..Len(entries) : entries'[i] = entries[i]
      /\ entries'[Len(entries) + 1] = x
      /\ Len(entries) \in Nat
  OBVIOUS
<1>2. ASSUME NEW y
      PROVE  Contains(entries', y) <=> Contains(entries, y) \/ x = y
  BY <1>1 DEF Contains
<1> QED BY <1>1, <1>2 DEF Logged

\* The first n numbers are n.
LEMMA CountTo ==
  ASSUME NEW n \in Nat
  PROVE  Cardinality(1..n) = n
  BY FS_Interval

\* The log says the same while nothing is appended.
LEMMA SameLog ==
  ASSUME UNCHANGED entries
  PROVE  /\ \A e, r : Logged(e, r)' <=> Logged(e, r)
         /\ ReservedRuns' = ReservedRuns /\ current' = current
<1>1. \A e, r : Logged(e, r)' <=> Logged(e, r)
  BY DEF Logged
<1> QED BY <1>1 DEF ReservedRuns, current

\* An entry other than a reservation makes no reservation.
LEMMA SameReservations ==
  ASSUME entries \in Seq(EntryRecord), NEW x \in EntryRecord, entries' = Append(entries, x),
         x.event # "reservation"
  PROVE  /\ \A r : Logged("reservation", r)' <=> Logged("reservation", r)
         /\ ReservedRuns' = ReservedRuns /\ current' = current
<1>1. ASSUME NEW r
      PROVE  Logged("reservation", r)' <=> Logged("reservation", r)
  <2>1. \A c \in Candidates : x # Entry("reservation", r, c)
    BY DEF Entry
  <2> QED BY <2>1, AppendLogs
<1> QED BY <1>1 DEF ReservedRuns, current

-----------------------------------------------------------------------------
(***************************************************************************)
(* Every step preserves CInv.                                              *)
(***************************************************************************)
\* CInv speaks of the contract runner's variables only.
LEMMA CInvStutter == CInv /\ UNCHANGED contractvars => CInv'
<1> SUFFICES ASSUME CInv, UNCHANGED contractvars
             PROVE  CInv'
  OBVIOUS
<1>1. UNCHANGED <<runvars, entries, at, position>>
  BY DEF contractvars
<1> QED BY <1>1, PaidStutter, SameLog DEF CInv, NumberInv, LogInv, ContractTypeOK, runvars

\* The steps of an invocation that neither log nor launch.
LEMMA ScanSteps ==
  ASSUME CInv, UNCHANGED <<runvars, entries>>, ContractTypeOK',
         at' \notin {"launch", "wait", "timed_out"}
  PROVE  CInv'
<1>1. PaidInv'
  BY PaidStutter DEF CInv
<1>2. NumberInv'
  BY SameLog DEF CInv, NumberInv
<1>3. \A r \in Runs : LogInv(r)'
  BY SameLog DEF CInv, LogInv, runvars
<1> QED BY <1>1, <1>2, <1>3 DEF CInv

\* A reservation takes the next number; nobody has launched that run.
LEMMA ReserveStep ==
  ASSUME CInv, reserve
  PROVE  CInv'
<1>1. /\ position \in Candidates /\ ~OutOfRuns /\ at' = "launch"
      /\ entries' = Append(entries, Entry("reservation", current + 1, position))
      /\ UNCHANGED <<runvars, position, lock>>
  BY DEF reserve, move
<1> DEFINE x == Entry("reservation", current + 1, position)
<1>2. current \in Nat /\ x \in EntryRecord /\ entries \in Seq(EntryRecord)
  BY <1>1, Numbers DEF CInv, NumberInv, ContractTypeOK, Entry, EntryRecord, EventName
<1>3. \A r : Logged("reservation", r)' <=> Logged("reservation", r) \/ r = current + 1
  BY <1>1, <1>2, AppendLogs DEF Entry
<1>4. \A e, r : e # "reservation" => (Logged(e, r)' <=> Logged(e, r))
  BY <1>1, <1>2, AppendLogs DEF Entry
<1>5. current + 1 \in Runs
  <2>1. ReservedRuns = 1..current /\ ReservedRuns # Runs /\ ReservedRuns \subseteq Runs
    BY <1>1 DEF CInv, NumberInv, OutOfRuns, ReservedRuns
  <2> QED BY <1>2, <2>1, Numbers, ContractConstants
<1>6. ReservedRuns' = 1..(current + 1)
  <2>1. \A r \in Runs : r \in ReservedRuns' <=> r \in ReservedRuns \/ r = current + 1
    BY <1>3 DEF ReservedRuns
  <2>2. ReservedRuns' \subseteq Runs /\ ReservedRuns \subseteq Runs
    BY DEF ReservedRuns
  <2>3. ReservedRuns = 1..current
    BY DEF CInv, NumberInv
  <2>4. \A n : n \in 1..(current + 1) <=> n \in 1..current \/ n = current + 1
    BY <1>2
  <2> QED BY <1>5, <2>1, <2>2, <2>3, <2>4
<1>7. current' = current + 1
  BY <1>2, <1>6, CountTo DEF current
<1>8. NumberInv'
  BY <1>2, <1>5, <1>6, <1>7 DEF NumberInv
<1>9. ContractTypeOK'
  BY <1>1, <1>2, AppendLogs DEF CInv, ContractTypeOK
<1>10. PaidInv'
  BY <1>1, PaidStutter DEF CInv
<1>11. \A r \in Runs : LogInv(r)'
  BY <1>1, <1>3, <1>4 DEF CInv, LogInv, runvars
<1> QED BY <1>8, <1>9, <1>10, <1>11 DEF CInv

\* An entry about a run says something that is true of it.
LEMMA LogStep ==
  ASSUME CInv, UNCHANGED runvars, NEW r \in Runs, NEW c \in Nat,
         NEW e \in {"timeout", "no_artifact", "artifact", "reconciliation"},
         entries' = Append(entries, Entry(e, r, c)),
         e = "artifact" => file[r] \in Written,
         e = "reconciliation" => phase[r] = "refused",
         at' \in {"idle", "initial", "loop", "launch", "wait", "timed_out", "end"},
         at' \in {"launch", "wait", "timed_out"} => at' = at,
         position' \in Nat
  PROVE  CInv'
<1>1. /\ Entry(e, r, c) \in EntryRecord /\ Entry(e, r, c).event # "reservation"
      /\ entries \in Seq(EntryRecord)
  BY Numbers DEF Entry, EntryRecord, EventName, CInv, ContractTypeOK
<1>2. /\ \A v : Logged("reservation", v)' <=> Logged("reservation", v)
      /\ ReservedRuns' = ReservedRuns /\ current' = current
  BY <1>1, SameReservations
<1>3. ASSUME NEW f, NEW v, Logged(f, v)'
      PROVE  Logged(f, v) \/ (f = e /\ v = r)
  <2>1. Logged(f, v) \/ \E d \in Candidates : Entry(e, r, c) = Entry(f, v, d)
    BY <1>1, <1>3, AppendLogs
  <2> QED BY <2>1 DEF Entry
<1>4. NumberInv'
  BY <1>2 DEF CInv, NumberInv
<1>5. ContractTypeOK'
  BY <1>1, AppendLogs DEF ContractTypeOK
<1>6. PaidInv'
  BY PaidStutter DEF CInv
<1>7. \A v \in Runs : LogInv(v)'
  BY <1>2, <1>3 DEF CInv, LogInv, runvars
<1> QED BY <1>4, <1>5, <1>6, <1>7 DEF CInv

\* A run takes a step: what the ledger says of it stays true.
LEMMA RunStep ==
  ASSUME CInv, NEW r \in Runs, RunStepOf(r), Logged("reservation", r),
         UNCHANGED <<entries, position>>,
         at' \in {"idle", "initial", "loop", "launch", "wait", "timed_out", "end"},
         at' \in {"launch", "wait", "timed_out"} =>
           at' = at \/ at \in {"launch", "wait", "timed_out"}
  PROVE  CInv'
<1>1. PaidInv'
  BY PaidStep DEF CInv
<1>2. NumberInv'
  BY SameLog DEF CInv, NumberInv
<1>3. ContractTypeOK'
  BY DEF CInv, ContractTypeOK
<1>4. ASSUME NEW v \in Runs
      PROVE  LogInv(v)'
  <2>1. LogInv(v) /\ (phase'[v] # "none" => v = r \/ phase[v] # "none")
    BY OtherRuns DEF CInv, PaidInv
  <2>2. /\ phase[v] = "refused" => phase'[v] = "refused"
        /\ file[v] \in Written => file'[v] = file[v]
    BY RunIsMonotone DEF CInv
  <2> QED BY <2>1, <2>2, SameLog DEF LogInv
<1> QED BY <1>1, <1>2, <1>3, <1>4 DEF CInv

\* CInv holds initially.
LEMMA InitCInv == Init => CInv
<1> SUFFICES ASSUME Init
             PROVE  CInv
  OBVIOUS
<1>1. PaidInv
  BY PaidInit DEF Init
<1>2. \A e, r : ~Logged(e, r)
  BY DEF Init, Logged, Contains
<1>3. ReservedRuns = {} /\ 1..0 = {}
  BY <1>2 DEF ReservedRuns
<1>4. current = 0
  BY <1>3, CountTo DEF current
<1>5. ContractTypeOK
  BY DEF Init, ContractTypeOK
<1> QED BY <1>1, <1>2, <1>3, <1>4, <1>5 DEF Init, RunInit, CInv, NumberInv, LogInv

\* Every step preserves CInv.
LEMMA NextCInv == CInv /\ [Next]_<<contractvars, lock>> => CInv'
<1> SUFFICES ASSUME CInv, [Next]_<<contractvars, lock>>
             PROVE  CInv'
  OBVIOUS
<1> USE DEF move, leave
<1>1. CASE UNCHANGED <<contractvars, lock>>
  BY <1>1, CInvStutter
<1>2. CASE start \/ initial_scan \/ skip_candidate \/ loop_ends \/ loop_raises \/ finish \/ killed
  <2>1. /\ UNCHANGED <<runvars, entries>> /\ at' \in {"idle", "initial", "loop", "end"}
        /\ position' \in Nat
    BY <1>2 DEF start, initial_scan, skip_candidate, loop_ends, loop_raises, finish, killed,
      CInv, ContractTypeOK
  <2>2. ContractTypeOK'
    BY <2>1 DEF CInv, ContractTypeOK
  <2> QED BY <2>1, <2>2, ScanSteps
<1>3. CASE reserve
  BY <1>3, ReserveStep
<1>4. CASE start_subprocess \/ timeout
  <2>1. /\ current \in Runs /\ current \in ReservedRuns
    BY <1>4, Numbers DEF start_subprocess, timeout, CInv, NumberInv
  <2>2. RunStepOf(current) /\ Logged("reservation", current)
    BY <1>4, <2>1 DEF start_subprocess, timeout, RunStepOf, ReservedRuns
  <2>3. /\ UNCHANGED <<entries, position>> /\ at \in {"launch", "wait"}
        /\ at' \in {"wait", "timed_out"}
    BY <1>4 DEF start_subprocess, timeout
  <2> QED BY <2>1, <2>2, <2>3, RunStep
<1>5. CASE record_incident
  <2>1. current \in Runs /\ position \in Nat
    BY <1>5 DEF record_incident, CInv, NumberInv, ContractTypeOK
  <2>2. /\ \E e \in {"timeout", "no_artifact"} : entries' = Append(entries, Entry(e, current, position))
        /\ UNCHANGED <<runvars, position>> /\ at' = "end"
    BY <1>5 DEF record_incident, log
  <2> QED BY <2>1, <2>2, LogStep
<1>6. CASE record_artifact
  <2>1. current \in Runs /\ position \in Nat /\ file[current] \in Written
    BY <1>6 DEF record_artifact, CInv, NumberInv, ContractTypeOK, PaidInv, RunInv
  <2>2. CASE scan_loads
    <3>1. /\ entries' = Append(entries, Entry("artifact", current, position))
          /\ UNCHANGED runvars /\ at' = "loop" /\ position' = position + 1
      BY <1>6, <2>2 DEF record_artifact, log
    <3> QED BY <2>1, <3>1, LogStep
  <2>3. CASE ~scan_loads
    <3>1. UNCHANGED <<runvars, entries>> /\ at' = "idle" /\ position' = 1
      BY <1>6, <2>3 DEF record_artifact
    <3>2. ContractTypeOK'
      BY <3>1 DEF CInv, ContractTypeOK
    <3> QED BY <3>1, <3>2, ScanSteps
  <2> QED BY <2>2, <2>3
<1>7. ASSUME NEW r \in Runs, ChildStep(r)
      PROVE  CInv'
  <2>1. UNCHANGED <<entries, position, at>>
    BY <1>7 DEF ChildStep
  <2>2. phase[r] # "none"
    BY <1>7 DEF ChildStep, Charge, Open, Write, Exit, Refuse, Die
  <2>3. RunStepOf(r) /\ Logged("reservation", r)
    BY <1>7, <2>2 DEF ChildStep, RunStepOf, CInv, LogInv
  <2> QED BY <2>1, <2>3, RunStep DEF CInv, ContractTypeOK
<1>8. ASSUME NEW r \in Runs, resolve(r)
      PROVE  CInv'
  <2>1. PICK c \in Candidates : entries' = Append(entries, Entry("reconciliation", r, c))
    BY <1>8 DEF resolve
  <2>2. /\ UNCHANGED <<runvars, at, position>> /\ phase[r] = "refused" /\ c \in Nat
        /\ at \in {"idle", "initial", "loop", "launch", "wait", "timed_out", "end"}
        /\ position \in Nat
    BY <1>8, Numbers DEF resolve, releasable, CInv, ContractTypeOK
  <2> QED BY <2>1, <2>2, LogStep
<1> QED BY <1>1, <1>2, <1>3, <1>4, <1>5, <1>6, <1>7, <1>8 DEF Next, RunnerStep

\* The inductive invariant.
LEMMA CInvHolds == Spec => []CInv
  BY InitCInv, NextCInv, PTL DEF Spec

\* Whatever the provider charges for a contract run, at any time, is counted by
\* its artifact, by its reservation, or by both: an incident keeps the
\* reservation, and only a run that refused has it released.
THEOREM ContractIsCovered == Spec => []ContractCoversSpend
<1>1. CInv => ContractCoversSpend
  <2> SUFFICES ASSUME CInv, NEW r \in Runs
               PROVE  spent[r] <= (IF r \in artifacts THEN claim(r) ELSE 0)
                                  + (IF r \in active_ledger_reservations THEN Allowance ELSE 0)
    BY DEF ContractCoversSpend
  <2>1. /\ spent[r] \in Nat /\ spent[r] <= Allowance /\ claim(r) \in Nat /\ Allowance \in Nat
        /\ file[r] \in Written => spent[r] <= claim(r)
        /\ phase[r] \in {"none", "refused"} => spent[r] = 0
    BY ClaimCovers, PaidRunConstants DEF CInv
  <2>2. CASE file[r] \in Written
    BY <2>1, <2>2 DEF artifacts
  <2>3. CASE phase[r] \in {"none", "refused"}
    BY <2>1, <2>3 DEF artifacts
  <2>4. CASE file[r] \notin Written /\ phase[r] \notin {"none", "refused"}
    <3>1. r \in active_ledger_reservations
      BY <2>4 DEF CInv, LogInv, active_ledger_reservations, ReservedRuns
    <3> QED BY <2>1, <3>1 DEF artifacts
  <2> QED BY <2>2, <2>3, <2>4
<1> QED BY <1>1, CInvHolds, PTL

-----------------------------------------------------------------------------
(***************************************************************************)
(* The ceiling.                                                            *)
(***************************************************************************)
\* What a run may come to cost: its allowance while its reservation stands, then
\* what its artifact is counted at.
committed ==
  [r \in Runs |-> IF r \in active_ledger_reservations THEN Allowance
                  ELSE IF r \in artifacts THEN claim(r) ELSE 0]

\* What all runs may come to cost was admitted.
TotalCommitted == SumFunctionOnSet(committed, Runs)
CommitInv == TotalCommitted <= Ceiling

\* Commitments and claims are numbers within the allowance.
LEMMA CommittedFacts ==
  ASSUME PaidInv
  PROVE  \A r \in Runs : /\ committed[r] \in Nat /\ committed[r] <= Allowance
                         /\ claim(r) \in Nat /\ claim(r) <= Allowance
<1>1. \A r \in Runs : claim(r) \in Nat /\ claim(r) <= Allowance
  BY ClaimCovers
<1>2. ASSUME NEW r \in Runs
      PROVE  committed[r] \in Nat /\ committed[r] <= Allowance
  <2>1. claim(r) \in Nat /\ claim(r) <= Allowance
    BY <1>1
  <2> QED BY <2>1, PaidRunConstants DEF committed
<1> QED BY <1>1, <1>2

\* A run that may still be charged, or may still write its artifact, keeps its
\* reservation.
LEMMA LiveIsReserved ==
  ASSUME CInv, NEW r \in Runs, phase[r] \notin {"none", "refused"}, file[r] \notin Written
  PROVE  r \in active_ledger_reservations
  BY DEF CInv, LogInv, active_ledger_reservations, ReservedRuns

\* A run costs no more than what it is committed for.
LEMMA SpendIsCommitted ==
  ASSUME CInv, NEW r \in Runs
  PROVE  spent[r] \in Nat /\ spent[r] <= committed[r]
<1>1. /\ spent[r] \in Nat /\ spent[r] <= Allowance /\ claim(r) \in Nat
      /\ file[r] \in Written => spent[r] <= claim(r)
      /\ phase[r] \in {"none", "refused"} => spent[r] = 0
  BY ClaimCovers DEF CInv
<1>2. \/ r \in active_ledger_reservations \/ file[r] \in Written
      \/ phase[r] \in {"none", "refused"}
  BY LiveIsReserved
<1> QED BY <1>1, <1>2, PaidRunConstants DEF committed, artifacts

\* A step that reserves nothing, and writes only artifacts of reserved runs,
\* commits to nothing new.
LEMMA CommitsNoMore ==
  ASSUME CInv, CInv', active_ledger_reservations' \subseteq active_ledger_reservations,
         \A r \in Runs : file'[r] \in Written =>
           \/ file[r] \in Written /\ file'[r] = file[r] /\ reported'[r] = reported[r]
           \/ r \in active_ledger_reservations
  PROVE  TotalCommitted' <= TotalCommitted /\ TotalCommitted' \in Int
<1>1. ASSUME NEW r \in Runs
      PROVE  committed[r] \in Int /\ committed'[r] \in Int /\ committed'[r] <= committed[r]
  <2>1. committed[r] \in Nat /\ claim(r) \in Nat
    BY CommittedFacts DEF CInv
  <2>2. committed'[r] \in Nat /\ committed'[r] <= Allowance
    <3>1. reported'[r] \in 0..Allowance
      BY DEF CInv, PaidInv, PaidTypeOK
    <3>2. claim(r)' \in Nat /\ claim(r)' <= Allowance
      BY <3>1, PaidRunConstants DEF claim
    <3> QED BY <3>2, PaidRunConstants DEF committed
  <2>3. CASE r \in active_ledger_reservations
    BY <2>1, <2>2, <2>3 DEF committed
  <2>4. CASE r \notin active_ledger_reservations
    <3>1. r \notin active_ledger_reservations'
      BY <2>4
    <3>2. CASE file'[r] \in Written
      <4>1. file[r] \in Written /\ file'[r] = file[r] /\ reported'[r] = reported[r]
        BY <2>4, <3>2
      <4>2. claim(r)' = claim(r)
        BY <4>1 DEF claim
      <4> QED BY <2>1, <2>4, <3>1, <3>2, <4>1, <4>2 DEF committed, artifacts
    <3>3. CASE file'[r] \notin Written
      BY <2>1, <3>1, <3>3 DEF committed, artifacts
    <3> QED BY <3>2, <3>3
  <2> QED BY <2>1, <2>2, <2>3, <2>4
<1>2. SumFunctionOnSet(committed', Runs) <= SumFunctionOnSet(committed, Runs)
  BY <1>1, ContractConstants, SumBounded
<1>3. SumFunctionOnSet(committed', Runs) \in Int /\ SumFunctionOnSet(committed, Runs) \in Int
  BY <1>1, ContractConstants, SumType
<1> QED BY <1>2, <1>3 DEF TotalCommitted

\* A reservation is admitted against what the artifacts and the reservations
\* that stand add up to, and its own allowance.
LEMMA AdmissionCovers ==
  ASSUME CInv, reserve
  PROVE  CommitInv'
<1>1. /\ contract_exposure + Allowance <= Ceiling /\ UNCHANGED <<file, reported>>
      /\ entries' = Append(entries, Entry("reservation", current + 1, position))
      /\ position \in Candidates
  BY DEF reserve, runvars
<1> DEFINE counted == [r \in Runs |-> claim(r)]
           U == active_ledger_reservations'
           old == active_ledger_reservations
<1>2. U \subseteq old \cup {current + 1} /\ U \subseteq Runs /\ old \subseteq Runs
  <2>1. /\ current \in Nat /\ entries \in Seq(EntryRecord)
        /\ Entry("reservation", current + 1, position) \in EntryRecord
    BY <1>1, Numbers DEF CInv, NumberInv, ContractTypeOK, Entry, EntryRecord, EventName
  <2>2. \A r : Logged("reservation", r)' => Logged("reservation", r) \/ r = current + 1
    BY <1>1, <2>1, AppendLogs DEF Entry
  <2>3. \A r : \A e \in {"artifact", "reconciliation"} : Logged(e, r) => Logged(e, r)'
    BY <1>1, <2>1, AppendLogs
  <2> QED BY <2>2, <2>3 DEF active_ledger_reservations, ReservedRuns
<1>3. /\ \A r \in Runs : counted[r] \in Nat
      /\ \A r \in U : committed'[r] = Allowance
      /\ \A r \in Runs \ U : committed'[r] = IF r \in artifacts THEN counted[r] ELSE 0
  <2>1. artifacts' = artifacts /\ \A r : claim(r)' = claim(r)
    BY <1>1 DEF artifacts, claim
  <2> QED BY <1>2, <2>1, CommittedFacts DEF CInv, committed
<1>4. IsFiniteSet(Runs) /\ artifacts \subseteq Runs
  BY ContractConstants DEF artifacts
<1>5. /\ SumFunctionOnSet(committed', Runs) <=
           SumFunctionOnSet(counted, artifacts) + Allowance * Cardinality(U)
      /\ SumFunctionOnSet(committed', Runs) \in Nat
      /\ SumFunctionOnSet(counted, artifacts) \in Nat
  <2>1. CountedAt(committed', Runs, U, Allowance, artifacts, counted)
    BY <1>2, <1>3, <1>4, PaidRunConstants DEF CountedAt
  <2> QED BY <2>1, SumCovered
<1>6. /\ Cardinality(U) <= Cardinality(old) + 1
      /\ Cardinality(U) \in Nat /\ Cardinality(old) \in Nat
  <2>1. IsFiniteSet(old) /\ IsFiniteSet(U) /\ IsFiniteSet(old \cup {current + 1})
    BY <1>2, <1>4, FS_Subset, FS_AddElement
  <2>2. Cardinality(U) <= Cardinality(old \cup {current + 1})
    BY <1>2, <2>1, FS_Subset
  <2>3. Cardinality(old \cup {current + 1}) <= Cardinality(old) + 1
    BY <2>1, FS_AddElement, FS_CardinalityType
  <2>4. /\ Cardinality(U) \in Nat /\ Cardinality(old) \in Nat
        /\ Cardinality(old \cup {current + 1}) \in Nat
    BY <2>1, FS_CardinalityType
  <2> QED BY <2>2, <2>3, <2>4
<1>7. Allowance * Cardinality(U) <= Allowance * Cardinality(old) + Allowance
      /\ Allowance * Cardinality(U) \in Nat /\ Allowance * Cardinality(old) \in Nat
  <2>1. \A a, m, n \in Nat : m <= n + 1 => a * m <= a * n + a
    OBVIOUS
  <2> HIDE DEF U, old
  <2> QED BY <1>6, <2>1, PaidRunConstants
<1>8. SumFunctionOnSet(counted, artifacts) + Allowance * Cardinality(old) + Allowance <= Ceiling
  BY <1>1 DEF contract_exposure, Exposure
<1>9. SumFunctionOnSet(committed', Runs) <= Ceiling
  <2> HIDE DEF U, old, counted
  <2> QED BY <1>5, <1>7, <1>8, PaidRunConstants, ContractConstants
<1> QED BY <1>9 DEF CommitInv, TotalCommitted

\* What the steps do to what is committed: nobody but reserve makes a
\* reservation, and an artifact appears only while its run is live.
LEMMA StepCommits ==
  ASSUME CInv, [Next]_<<contractvars, lock>>
  PROVE  \/ reserve
         \/ /\ active_ledger_reservations' \subseteq active_ledger_reservations
            /\ \A r \in Runs : file'[r] \in Written =>
                 \/ file[r] \in Written /\ file'[r] = file[r] /\ reported'[r] = reported[r]
                 \/ phase[r] \notin {"none", "refused"} /\ file[r] \notin Written
<1> USE DEF move, leave
<1>1. ASSUME UNCHANGED entries
      PROVE  active_ledger_reservations' = active_ledger_reservations
  <2>1. \A e, r : Logged(e, r)' <=> Logged(e, r)
    BY <1>1, SameLog
  <2> QED BY <1>1, <2>1, SameLog DEF active_ledger_reservations
<1>2. ASSUME NEW e \in EventName \ {"reservation"}, NEW r \in Nat, NEW c \in Nat,
             entries' = Append(entries, Entry(e, r, c))
      PROVE  active_ledger_reservations' \subseteq active_ledger_reservations
  <2>1. /\ entries \in Seq(EntryRecord) /\ Entry(e, r, c) \in EntryRecord
        /\ Entry(e, r, c).event # "reservation"
    BY DEF CInv, ContractTypeOK, Entry, EntryRecord
  <2>2. ReservedRuns' = ReservedRuns
    BY <1>2, <2>1, SameReservations
  <2>3. \A f, v : Logged(f, v) => Logged(f, v)'
    BY <1>2, <2>1, AppendLogs
  <2> QED BY <2>2, <2>3 DEF active_ledger_reservations
<1>3. CASE \/ UNCHANGED <<contractvars, lock>> \/ start \/ initial_scan \/ skip_candidate
           \/ loop_ends \/ loop_raises \/ finish \/ killed
  <2>1. UNCHANGED <<entries, file, reported>>
    BY <1>3 DEF contractvars, start, initial_scan, skip_candidate, loop_ends, loop_raises,
      finish, killed, runvars
  <2> QED BY <1>1, <2>1
<1>4. CASE start_subprocess \/ timeout
  <2>1. UNCHANGED <<entries, file, reported>>
    BY <1>4 DEF start_subprocess, timeout, Launch, Die
  <2> QED BY <1>1, <2>1
<1>5. CASE record_incident \/ record_artifact
  <2>1. UNCHANGED <<file, reported>> /\ current \in Nat /\ position \in Nat
    BY <1>5 DEF record_incident, record_artifact, runvars, CInv, NumberInv, ContractTypeOK
  <2>2. \/ UNCHANGED entries
        \/ \E e \in EventName \ {"reservation"} :
             entries' = Append(entries, Entry(e, current, position))
    BY <1>5 DEF record_incident, record_artifact, log, EventName
  <2> QED BY <1>1, <1>2, <2>1, <2>2
<1>6. ASSUME NEW r \in Runs, resolve(r)
      PROVE  /\ active_ledger_reservations' \subseteq active_ledger_reservations
             /\ UNCHANGED <<file, reported>>
  <2>1. PICK c \in Candidates : entries' = Append(entries, Entry("reconciliation", r, c))
    BY <1>6 DEF resolve
  <2>2. UNCHANGED <<file, reported>> /\ c \in Nat /\ r \in Nat
    BY <1>6, Numbers DEF resolve, runvars
  <2> QED BY <1>2, <2>1, <2>2 DEF EventName
<1>7. ASSUME NEW w \in Runs, ChildStep(w)
      PROVE  /\ active_ledger_reservations' \subseteq active_ledger_reservations
             /\ \A r \in Runs : file'[r] \in Written =>
                  \/ file[r] \in Written /\ file'[r] = file[r] /\ reported'[r] = reported[r]
                  \/ phase[r] \notin {"none", "refused"} /\ file[r] \notin Written
  <2>1. UNCHANGED entries /\ RunStepOf(w) /\ PaidInv
    BY <1>7 DEF ChildStep, RunStepOf, CInv
  <2>2. phase[w] \notin {"none", "refused"}
    BY <1>7 DEF ChildStep, Charge, Open, Write, Exit, Refuse, Die
  <2>3. ASSUME NEW v \in Runs, file'[v] \in Written
        PROVE  \/ file[v] \in Written /\ file'[v] = file[v] /\ reported'[v] = reported[v]
               \/ phase[v] \notin {"none", "refused"} /\ file[v] \notin Written
    <3>1. CASE file[v] \in Written
      BY <2>1, <3>1, RunIsMonotone
    <3>2. CASE file[v] \notin Written
      <4>1. v = w
        BY <2>1, <2>3, <3>2, OtherRuns DEF PaidInv
      <4> QED BY <2>2, <3>2, <4>1
    <3> QED BY <3>1, <3>2
  <2> QED BY <1>1, <2>1, <2>3
<1>8. CASE \E r \in Runs : ChildStep(r) \/ resolve(r)
  BY <1>6, <1>7, <1>8
<1> QED BY <1>3, <1>4, <1>5, <1>8 DEF Next, RunnerStep

\* Only a reservation commits to more.
LEMMA OnlyReserveCommits ==
  ASSUME CInv, [Next]_<<contractvars, lock>>, ~reserve
  PROVE  TotalCommitted' <= TotalCommitted /\ TotalCommitted' \in Int
<1>1. CInv'
  BY NextCInv
<1>2. /\ active_ledger_reservations' \subseteq active_ledger_reservations
      /\ \A r \in Runs : file'[r] \in Written =>
           \/ file[r] \in Written /\ file'[r] = file[r] /\ reported'[r] = reported[r]
           \/ phase[r] \notin {"none", "refused"} /\ file[r] \notin Written
  BY StepCommits
<1>3. \A r \in Runs : file'[r] \in Written =>
        \/ file[r] \in Written /\ file'[r] = file[r] /\ reported'[r] = reported[r]
        \/ r \in active_ledger_reservations
  BY <1>2, LiveIsReserved
<1> QED BY <1>1, <1>2, <1>3, CommitsNoMore

\* What the runs cost is no more than what they are committed for.
LEMMA SpendUnderCommitted ==
  ASSUME CInv
  PROVE  /\ ContractSpend <= TotalCommitted
         /\ ContractSpend \in Int /\ TotalCommitted \in Int
<1>1. ASSUME NEW r \in Runs
      PROVE  spent[r] \in Int /\ committed[r] \in Int /\ spent[r] <= committed[r]
  BY SpendIsCommitted, CommittedFacts DEF CInv
<1>2. SumFunctionOnSet(spent, Runs) <= SumFunctionOnSet(committed, Runs)
  BY <1>1, ContractConstants, SumBounded
<1>3. SumFunctionOnSet(spent, Runs) \in Int /\ SumFunctionOnSet(committed, Runs) \in Int
  BY <1>1, ContractConstants, SumType
<1> QED BY <1>2, <1>3 DEF ContractSpend, TotalCommitted

\* Every step keeps what all runs may come to cost under the ceiling.
LEMMA CommitNext == CInv /\ CommitInv /\ [Next]_<<contractvars, lock>> => CommitInv'
<1> SUFFICES ASSUME CInv, CommitInv, [Next]_<<contractvars, lock>>
             PROVE  CommitInv'
  OBVIOUS
<1>1. CASE reserve
  BY <1>1, AdmissionCovers
<1>2. CASE ~reserve
  BY <1>2, OnlyReserveCommits, SpendUnderCommitted, ContractConstants DEF CommitInv
<1> QED BY <1>1, <1>2

\* Nothing is committed at first.
LEMMA CommitInit == Init => CommitInv
<1> SUFFICES ASSUME Init
             PROVE  CommitInv
  OBVIOUS
<1>1. \A r \in Runs : file[r] = "absent" /\ ~Logged("reservation", r)
  <2>1. \A e, r : ~Logged(e, r)
    BY DEF Init, Logged, Contains
  <2> QED BY <2>1 DEF Init, RunInit
<1>2. \A r \in Runs : committed[r] = 0
  BY <1>1 DEF committed, active_ledger_reservations, ReservedRuns, artifacts, Written, Settled
<1>3. SumFunctionOnSet(committed, Runs) = 0 * Cardinality(Runs)
  BY <1>2, ContractConstants, SumConstant
<1> QED BY <1>3, Numbers, ContractConstants DEF CommitInv, TotalCommitted

\* Repeated candidates, lost runs, late charges and released reservations never
\* bring the money spent over the admission ceiling.
THEOREM ContractStaysUnderCeiling == Spec => []ContractSpendUnderCeiling
<1>1. CInv /\ CommitInv => ContractSpendUnderCeiling
  BY SpendUnderCommitted, ContractConstants
     DEF ContractSpendUnderCeiling, ContractSpend, CommitInv
<1> QED BY <1>1, InitCInv, CommitInit, NextCInv, CommitNext, PTL DEF Spec

-----------------------------------------------------------------------------
(***************************************************************************)
(* BOTH RUNNERS                                                            *)
(***************************************************************************)
\* The proofs about the dataset runner, for the prior that this module gives it.
P == INSTANCE DatasetRunnerProofs WITH Runs <- Items, Priors <- {KnownPrior}

\* What the dataset runner assumes of its constants holds here.
LEMMA OutcomesKnown == Outcomes \subseteq DOMAIN P!OutcomeEvent
  BY SharedConstants DEF P!OutcomeEvent, D!OutcomeEvent

\* D and P are the same program: definition by definition.
LEMMA SameBooksAsProved ==
  /\ D!total_exposure_usd = P!total_exposure_usd
  /\ \A w : D!Billed(w) = P!Billed(w)
<1>1. D!total_exposure_usd = P!total_exposure_usd
  BY DEF
    P!AccountedSource, D!AccountedSource, P!ActualCost, D!ActualCost, P!Arms, D!Arms,
    P!DatasetExposure, D!DatasetExposure, P!Has, D!Has, P!Reserved, D!Reserved,
    P!Resolved, D!Resolved, P!Source, D!Source, P!UnsafeTerminals, D!UnsafeTerminals,
    P!basis, D!basis, P!complete, D!complete, P!exposure, D!exposure, P!fully_accounted,
    D!fully_accounted, P!total_exposure_usd, D!total_exposure_usd, P!Cost, D!Cost,
    P!SumFunctionOnSet, D!SumFunctionOnSet, P!FoldFunctionOnSet, D!FoldFunctionOnSet,
    P!MapThenFoldSet, D!MapThenFoldSet, P!Cardinality, D!Cardinality
<1>2. \A w : D!Billed(w) = P!Billed(w)
  BY DEF
    P!Billed, D!Billed, P!Cost, D!Cost, P!SumFunctionOnSet, D!SumFunctionOnSet,
    P!FoldFunctionOnSet, D!FoldFunctionOnSet, P!MapThenFoldSet, D!MapThenFoldSet,
    P!Cardinality, D!Cardinality
<1> QED BY <1>1, <1>2

\* And they take the same steps from the same states.
LEMMA SameProgram == (D!Init <=> P!Init) /\ (D!Next <=> P!Next)
<1>1. D!Init <=> P!Init
  BY DEF
    P!AccountedSource, D!AccountedSource, P!Arms, D!Arms, P!Attempts, D!Attempts, P!Has,
    D!Has, P!Init, D!Init, P!Resolved, D!Resolved, P!SmokeInit, D!SmokeInit,
    P!UnsafeTerminals, D!UnsafeTerminals, P!basis, D!basis, P!complete, D!complete,
    P!fully_accounted, D!fully_accounted, P!Cost, D!Cost, P!SumFunctionOnSet,
    D!SumFunctionOnSet, P!FoldFunctionOnSet, D!FoldFunctionOnSet, P!MapThenFoldSet,
    D!MapThenFoldSet, P!Cardinality, D!Cardinality
<1>2. D!Next <=> P!Next
  BY DEF
    P!AccountedSource, D!AccountedSource, P!ActualCost, D!ActualCost, P!Arms, D!Arms,
    P!Attempts, D!Attempts, P!Charged, D!Charged, P!ChildStep, D!ChildStep,
    P!DatasetExposure, D!DatasetExposure, P!FilesLoad, D!FilesLoad, P!Has, D!Has,
    P!Incomplete, D!Incomplete, P!JournalLoads, D!JournalLoads, P!Live, D!Live, P!Next,
    D!Next, P!OnlyResolver, D!OnlyResolver, P!OnlyRunner, D!OnlyRunner, P!OutcomeEvent,
    D!OutcomeEvent, P!Received, D!Received, P!Refused, D!Refused, P!Results, D!Results, P!Reserved,
    D!Reserved, P!Resolved, D!Resolved, P!RunStep, D!RunStep, P!RunnerStep,
    D!RunnerStep, P!SafeTerminals, D!SafeTerminals, P!SmokeStep, D!SmokeStep, P!Source,
    D!Source, P!StateLoads, D!StateLoads, P!Unreadable, D!Unreadable, P!Unresolved,
    D!Unresolved, P!UnsafeTerminals, D!UnsafeTerminals, P!append, D!append, P!basis,
    D!basis, P!complete, D!complete, P!create_journal, D!create_journal, P!dies, D!dies,
    P!exit, D!exit, P!exposure, D!exposure, P!files, D!files, P!finalize_journal,
    D!finalize_journal, P!finalize_source, D!finalize_source, P!finish, D!finish,
    P!fully_accounted, D!fully_accounted, P!gather, D!gather, P!generation_cost,
    D!generation_cost, P!goto, D!goto, P!invoke, D!invoke, P!journal_event,
    D!journal_event, P!launch, D!launch, P!leave, D!leave, P!lock_ledger, D!lock_ledger,
    P!loop_raises, D!loop_raises, P!loop_stops, D!loop_stops, P!next_item, D!next_item,
    P!no_artifact, D!no_artifact, P!normalizable, D!normalizable, P!open_artifact,
    D!open_artifact, P!open_session, D!open_session, P!plan, D!plan, P!plan_blocked,
    D!plan_blocked, P!postflight, D!postflight, P!preflight_fails, D!preflight_fails,
    P!preflight_passes, D!preflight_passes, P!provider_bills, D!provider_bills,
    P!record_incident, D!record_incident, P!record_resolution, D!record_resolution,
    P!record_timeout, D!record_timeout, P!recover_source, D!recover_source,
    P!rejected_accounting, D!rejected_accounting, P!remaining_block, D!remaining_block,
    P!request_ends, D!request_ends, P!reserve, D!reserve, P!resolvable, D!resolvable,
    P!resolve, D!resolve, P!resolver_crashes, D!resolver_crashes, P!run_started,
    D!run_started, P!runner, D!runner, P!runner_crashes, D!runner_crashes,
    P!send_request, D!send_request, P!session_fails, D!session_fails, P!skip_item,
    D!skip_item, P!smokevars, D!smokevars, P!start_subprocess, D!start_subprocess,
    P!stop, D!stop, P!timeout, D!timeout, P!total_exposure_usd, D!total_exposure_usd,
    P!uncertain, D!uncertain, P!write_artifact, D!write_artifact, P!write_response,
    D!write_response, P!Cost, D!Cost, P!SumFunctionOnSet, D!SumFunctionOnSet,
    P!FoldFunctionOnSet, D!FoldFunctionOnSet, P!MapThenFoldSet, D!MapThenFoldSet,
    P!Cardinality, D!Cardinality
<1> QED BY <1>1, <1>2

\* Sums over the work items are the sums of this module.
LEMMA SameSum ==
  ASSUME NEW f, NEW S
  PROVE  P!SumFunctionOnSet(f, S) = SumFunctionOnSet(f, S)
  BY DEF P!SumFunctionOnSet, P!FoldFunctionOnSet, P!MapThenFoldSet,
         SumFunctionOnSet, FoldFunctionOnSet, MapThenFoldSet

-----------------------------------------------------------------------------
(***************************************************************************)
(* What the dataset runner reads of the contract runner.                   *)
(***************************************************************************)
\* It changes with the contract runner's files and ledger only.
LEMMA SameContract ==
  ASSUME UNCHANGED contractvars
  PROVE  prior' = prior /\ TotalCommitted' = TotalCommitted /\ at' = at
<1>1. /\ UNCHANGED <<file, reported, entries>> /\ at' = at
      /\ \A e, r : Logged(e, r)' <=> Logged(e, r)
      /\ ReservedRuns' = ReservedRuns
  BY SameLog DEF contractvars, runvars
<1>2. /\ active_ledger_reservations' = active_ledger_reservations
      /\ artifacts' = artifacts /\ (scan_loads' <=> scan_loads)
      /\ \A r : claim(r)' = claim(r)
  BY <1>1 DEF active_ledger_reservations, artifacts, scan_loads, claim
<1>3. TotalCommitted' = TotalCommitted
  BY <1>2 DEF TotalCommitted, committed
<1>4. prior_exposure' = prior_exposure
  BY <1>2 DEF prior_exposure, Exposure
<1> QED BY <1>1, <1>2, <1>3, <1>4 DEF prior

\* The greater of two numbers.
LEMMA MaxOfTwo ==
  ASSUME NEW m \in Nat, NEW n \in Nat
  PROVE  Max({m, n}) \in Nat /\ m <= Max({m, n})
<1>1. \E x \in {m, n} : \A y \in {m, n} : x >= y
  OBVIOUS
<1> QED BY <1>1 DEF Max

\* prior_exposure is at least what the contract runs are committed for: an
\* artifact and a reservation that still stands are both counted.
LEMMA PriorCovers ==
  CInv => prior_exposure \in Nat /\ TotalCommitted <= prior_exposure
<1> SUFFICES ASSUME CInv
             PROVE  prior_exposure \in Nat /\ TotalCommitted <= prior_exposure
  OBVIOUS
<1> DEFINE counted == [r \in Runs |-> claim(r)]
           U == active_ledger_reservations
<1>1. /\ IsFiniteSet(Runs) /\ artifacts \subseteq Runs /\ U \subseteq Runs
  BY ContractConstants DEF artifacts, active_ledger_reservations, ReservedRuns
<1>2. /\ \A r \in Runs : counted[r] \in Nat
      /\ \A r \in U : committed[r] = Allowance
      /\ \A r \in Runs \ U : committed[r] = IF r \in artifacts THEN counted[r] ELSE 0
  BY <1>1, CommittedFacts DEF CInv, committed
<1>3. CountedAt(committed, Runs, U, Allowance, artifacts, counted)
  BY <1>1, <1>2, PaidRunConstants DEF CountedAt
<1>4. /\ TotalCommitted \in Nat /\ Exposure(artifacts) \in Nat
      /\ Allowance * Cardinality(U) \in Nat
      /\ TotalCommitted <= Exposure(artifacts) + Allowance * Cardinality(U)
  BY <1>3, SumCovered DEF TotalCommitted, Exposure
<1>5. /\ Max({Exposure(artifacts), KnownPrior}) \in Nat
      /\ Exposure(artifacts) <= Max({Exposure(artifacts), KnownPrior})
  BY <1>4, MaxOfTwo, ContractConstants
<1>6. prior_exposure = Max({Exposure(artifacts), KnownPrior}) + Allowance * Cardinality(U)
  BY DEF prior_exposure
<1> HIDE DEF U
<1> QED BY <1>4, <1>5, <1>6

\* So prior is a number, or -1 while some file of the contract runner is torn.
LEMMA PriorType == CInv => prior \in Nat \cup {P!Unreadable}
  BY PriorCovers DEF prior, P!Unreadable

-----------------------------------------------------------------------------
(***************************************************************************)
(* The joint invariant.  It is needed because prior moves between the      *)
(* admission and the end of the subprocess: contract runs that were        *)
(* started earlier go on being charged and write their artifacts.  What    *)
(* does not grow meanwhile is what they are committed for, since a new     *)
(* reservation takes the lock that the dataset runner holds.               *)
(***************************************************************************)
ContractHolds == at # "idle" <=> lock = "contract"

\* What both are committed for, while an item is admitted and not yet decided.
AdmittedInv ==
  pc \in {"launch", "wait"} => TotalCommitted + P!DatasetExposure <= Ceiling

JointInv == CInv /\ P!IInv /\ P!HeldInv /\ ContractHolds /\ AdmittedInv

\* The contract runner, too, runs while it holds the lock, and takes it from nobody.
LEMMA ContractLock ==
  ASSUME CInv, ContractHolds, lock \in {"free", "dataset", "contract"}, Next
  PROVE  /\ ContractHolds' /\ lock' \in {"free", "dataset", "contract"}
         /\ lock' = "dataset" <=> lock = "dataset"
         /\ reserve => lock = "contract"
<1> USE DEF ContractHolds
<1>1. CASE start \/ RunnerStep \/ timeout \/ killed
  BY <1>1 DEF start, RunnerStep, timeout, killed, initial_scan, skip_candidate, loop_ends,
    loop_raises, reserve, start_subprocess, record_incident, record_artifact, finish,
    move, leave
<1>2. CASE \E r \in Runs : ChildStep(r) \/ resolve(r)
  BY <1>2 DEF ChildStep, resolve, reserve, move
<1> QED BY <1>1, <1>2 DEF Next

\* A step of the dataset runner, its subprocesses or its resolver.
LEMMA DatasetPart ==
  ASSUME JointInv, UNCHANGED contractvars, [P!Next]_(P!vars)
  PROVE  JointInv'
<1>1. CInv'
  BY CInvStutter DEF JointInv
<1>2. P!IInv'
  BY SharedConstants, ContractConstants, OutcomesKnown, P!NextIInv DEF JointInv
<1>3. P!HeldInv' /\ (lock' = "contract" <=> lock = "contract")
  BY SharedConstants, ContractConstants, OutcomesKnown, P!NextHeld DEF JointInv
<1>4. ContractHolds'
  BY <1>3, SameContract DEF JointInv, ContractHolds
<1>5. AdmittedInv'
  <2> SUFFICES ASSUME pc' \in {"launch", "wait"}
               PROVE  TotalCommitted' + P!DatasetExposure' <= Ceiling
    BY DEF AdmittedInv
  <2>1. /\ \/ prior \in Nat /\ prior' = prior /\ prior + P!DatasetExposure' <= Ceiling
           \/ pc \in {"launch", "wait"} /\ P!DatasetExposure' <= P!DatasetExposure
        /\ P!DatasetExposure \in Int /\ P!DatasetExposure' \in Int
    BY <1>2, SharedConstants, ContractConstants, OutcomesKnown, P!AdmissionHeld DEF JointInv
  <2>2. TotalCommitted' = TotalCommitted /\ TotalCommitted \in Int
    BY SameContract, SpendUnderCommitted DEF JointInv
  <2>3. prior \in Nat => TotalCommitted <= prior
    BY PriorCovers DEF JointInv, prior
  <2>4. Ceiling \in Int /\ (pc \in {"launch", "wait"} => TotalCommitted + P!DatasetExposure <= Ceiling)
    BY ContractConstants DEF JointInv, AdmittedInv
  <2>5. \A t, p, x, y, c \in Int :
          /\ t <= p /\ p + y <= c => t + y <= c
          /\ t + x <= c /\ y <= x => t + y <= c
    OBVIOUS
  <2>6. CASE prior \in Nat /\ prior + P!DatasetExposure' <= Ceiling
    <3>1. prior \in Int /\ TotalCommitted <= prior
      BY <2>3, <2>6
    <3> QED BY <2>1, <2>2, <2>4, <2>5, <2>6, <3>1
  <2>7. CASE pc \in {"launch", "wait"} /\ P!DatasetExposure' <= P!DatasetExposure
    BY <2>1, <2>2, <2>4, <2>5, <2>7
  <2> QED BY <2>1, <2>6, <2>7
<1> QED BY <1>1, <1>2, <1>3, <1>4, <1>5 DEF JointInv

\* A step of the contract runner, its subprocesses or an operator.
LEMMA ContractPart ==
  ASSUME JointInv, ContractSteps
  PROVE  JointInv'
<1>1. Next /\ UNCHANGED datasetvars
  BY DEF ContractSteps
<1>2. CInv'
  BY <1>1, NextCInv DEF JointInv
<1>3. lock \in {"free", "dataset", "contract"}
  BY DEF JointInv, P!IInv, P!TypeOK
<1>4. /\ ContractHolds' /\ lock' \in {"free", "dataset", "contract"}
      /\ lock' = "dataset" <=> lock = "dataset"
      /\ reserve => lock = "contract"
  BY <1>1, <1>3, ContractLock DEF JointInv
<1>5. P!HeldInv' /\ pc' = pc
  BY <1>1, <1>4 DEF JointInv, P!HeldInv, datasetvars
<1>6. prior' \in Nat \cup {P!Unreadable}
  <2>1. CInv' => (prior \in Nat \cup {P!Unreadable})'
    BY PriorType, PTL
  <2> QED BY <1>2, <2>1 DEF P!Unreadable
<1>7. P!IInv' /\ P!DatasetExposure' = P!DatasetExposure
  <2>1. /\ UNCHANGED <<P!smokevars, P!files, llock, pc, mode, item, started, resolver,
                       launches, crashes>>
    BY <1>1 DEF datasetvars, P!smokevars, P!files
  <2> QED BY <1>4, <1>6, <2>1, SharedConstants, ContractConstants, OutcomesKnown, P!OutsideStep
          DEF JointInv
<1>8. AdmittedInv'
  <2> SUFFICES ASSUME pc' \in {"launch", "wait"}
               PROVE  TotalCommitted' + P!DatasetExposure' <= Ceiling
    BY DEF AdmittedInv
  <2>1. lock = "dataset" /\ pc \in {"launch", "wait"}
    BY <1>5 DEF JointInv, P!HeldInv
  <2>2. TotalCommitted' <= TotalCommitted /\ TotalCommitted' \in Int
    BY <1>1, <1>4, <2>1, OnlyReserveCommits DEF JointInv
  <2>3. TotalCommitted \in Int /\ P!DatasetExposure \in Int
    BY SpendUnderCommitted, SharedConstants, ContractConstants, OutcomesKnown,
       P!SpendUnderExposure DEF JointInv
  <2>4. Ceiling \in Int /\ (pc \in {"launch", "wait"} => TotalCommitted + P!DatasetExposure <= Ceiling)
    BY ContractConstants DEF JointInv, AdmittedInv
  <2>5. \A t, u, x, c \in Int : u + x <= c /\ t <= u => t + x <= c
    OBVIOUS
  <2> QED BY <1>7, <2>1, <2>2, <2>3, <2>4, <2>5
<1> QED BY <1>2, <1>4, <1>5, <1>7, <1>8 DEF JointInv

\* It holds before either runner was started.
LEMMA JointInitInv == JointInit => JointInv
<1> SUFFICES ASSUME JointInit
             PROVE  JointInv
  OBVIOUS
<1>1. Init /\ P!Init
  BY SameProgram DEF JointInit
<1>2. CInv
  BY <1>1, InitCInv
<1>3. P!IInv
  BY <1>1, SharedConstants, ContractConstants, OutcomesKnown, P!InitIInv
<1>4. at = "idle" /\ lock = "free" /\ pc = "idle"
  BY <1>1 DEF Init, P!Init
<1> QED BY <1>2, <1>3, <1>4 DEF JointInv, P!HeldInv, ContractHolds, AdmittedInv

\* Every step of either runner preserves it.
LEMMA JointNextInv == JointInv /\ [JointNext]_jointvars => JointInv'
<1> SUFFICES ASSUME JointInv, [JointNext]_jointvars
             PROVE  JointInv'
  OBVIOUS
<1>1. CASE ContractSteps
  BY <1>1, ContractPart
<1>2. CASE DatasetSteps
  <2>1. P!Next /\ UNCHANGED contractvars
    BY <1>2, SameProgram DEF DatasetSteps
  <2> QED BY <2>1, DatasetPart
<1>3. CASE UNCHANGED jointvars
  <2>1. UNCHANGED <<contractvars, datasetvars, lock>> /\ prior' = prior
    BY <1>3, SameContract DEF jointvars
  <2>2. UNCHANGED P!vars
    BY <2>1 DEF P!vars, P!smokevars, datasetvars
  <2> QED BY <2>1, <2>2, DatasetPart
<1> QED BY <1>1, <1>2, <1>3 DEF JointNext

\* The joint invariant holds.
LEMMA JointInvHolds == JointSpec => []JointInv
  BY JointInitInv, JointNextInv, PTL DEF JointSpec

\* What both have spent is no more than what they are committed or counted for.
LEMMA JointSpend ==
  ASSUME JointInv
  PROVE  /\ ContractSpend <= TotalCommitted /\ DatasetSpend <= P!DatasetExposure
         /\ ContractSpend \in Int /\ TotalCommitted \in Int
         /\ DatasetSpend \in Int /\ P!DatasetExposure \in Int
<1>1. DatasetSpend = P!SumFunctionOnSet([w \in Items |-> P!Billed(w)], Items)
  <2>1. [w \in Items |-> D!Billed(w)] = [w \in Items |-> P!Billed(w)]
    BY SameBooksAsProved
  <2> QED BY <2>1, SameSum DEF DatasetSpend
<1>2. /\ DatasetSpend <= P!DatasetExposure
      /\ DatasetSpend \in Int /\ P!DatasetExposure \in Int
  BY <1>1, SharedConstants, ContractConstants, OutcomesKnown, P!SpendUnderExposure DEF JointInv
<1> QED BY <1>2, SpendUnderCommitted DEF JointInv

\* Whenever the dataset runner can read the account's books (_load_state scans
\* the contract runner's artifacts and reservations), they cover what both
\* runners have spent.
THEOREM BooksCover == JointSpec => []BooksCoverBoth
<1>1. JointInv => BooksCoverBoth
  <2> SUFFICES ASSUME JointInv, prior >= 0
               PROVE  ContractSpend + DatasetSpend <= D!total_exposure_usd
    BY DEF BooksCoverBoth
  <2>1. D!total_exposure_usd = prior + P!DatasetExposure
    BY SameBooksAsProved DEF P!total_exposure_usd
  <2>2. prior = prior_exposure
    BY DEF prior
  <2>3. prior_exposure \in Nat /\ TotalCommitted <= prior_exposure
    BY PriorCovers DEF JointInv
  <2> QED BY <2>1, <2>2, <2>3, JointSpend
<1> QED BY <1>1, JointInvHolds, PTL

\* From the admission of a work item until its subprocess has ended, the money
\* spent by both runners stays under the ceiling: the lock keeps the contract
\* runner from committing to more, whatever its older subprocesses still do.
THEOREM AdmissionIsJoint == JointSpec => []DatasetAdmitsJointly
<1>1. JointInv => DatasetAdmitsJointly
  BY JointSpend, ContractConstants DEF JointInv, AdmittedInv, DatasetAdmitsJointly
<1> QED BY <1>1, JointInvHolds, PTL
=============================================================================
