----------------------------- MODULE PaidRunProofs -----------------------------
(***************************************************************************)
(* Proofs about PaidRun for every set of runs and allowance: what a parent *)
(* may conclude from the phase and the artifact of a run.                  *)
(***************************************************************************)
EXTENDS PaidRun, TLAPS

\* A run that was not launched or that refused costs nothing; one that has named
\* its artifact has written it; and a settled artifact reports what is charged.
RunInv(r) ==
  /\ phase[r] \in {"none", "refused"} => spent[r] = 0 /\ file[r] = "absent"
  /\ phase[r] = "exited" => file[r] \in Written
  /\ file[r] \in Settled => reported[r] = spent[r]

PaidTypeOK ==
  /\ phase \in [Runs -> {"none", "live", "exited", "dead", "refused"}]
  /\ spent \in [Runs -> 0..Allowance]
  /\ file \in [Runs -> Written \cup {"absent", "torn"}]
  /\ reported \in [Runs -> 0..Allowance]

PaidInv == PaidTypeOK /\ \A r \in Runs : RunInv(r)

RunStepOf(r) ==
  Launch(r) \/ Charge(r) \/ Open(r) \/ Write(r) \/ Exit(r) \/ Refuse(r) \/ Die(r)

-----------------------------------------------------------------------------
\* No run has been launched at first.
LEMMA PaidInit == RunInit => PaidInv
  BY PaidRunConstants DEF RunInit, PaidInv, PaidTypeOK, RunInv, Written, Settled

\* PaidInv speaks of the runs only.
LEMMA PaidStutter == PaidInv /\ UNCHANGED runvars => PaidInv'
  BY DEF runvars, PaidInv, PaidTypeOK, RunInv

\* A step of one run leaves the others alone.
LEMMA OtherRuns ==
  ASSUME PaidTypeOK, NEW r \in Runs, RunStepOf(r), NEW v \in Runs, v # r
  PROVE  /\ phase'[v] = phase[v] /\ spent'[v] = spent[v]
         /\ file'[v] = file[v] /\ reported'[v] = reported[v]
  BY DEF PaidTypeOK, RunStepOf, Launch, Charge, Open, Write, Exit, Refuse, Die

\* Every step of a run preserves PaidInv.
LEMMA PaidStep ==
  ASSUME PaidInv, NEW r \in Runs, RunStepOf(r)
  PROVE  PaidInv'
<1> USE DEF PaidInv
<1>1. ASSUME NEW v \in Runs, v # r
      PROVE  RunInv(v)'
  BY <1>1, OtherRuns DEF RunInv
<1>2. CASE Launch(r) \/ Exit(r) \/ Refuse(r) \/ Die(r) \/ Open(r)
  BY <1>1, <1>2 DEF Launch, Exit, Refuse, Die, Open, PaidTypeOK, RunInv, Written, Settled
<1>3. CASE Charge(r)
  <2>1. PICK amount \in (spent[r] + 1)..Allowance : spent' = [spent EXCEPT ![r] = amount]
    BY <1>3 DEF Charge
  <2>2. amount \in 0..Allowance
    BY PaidRunConstants, <2>1 DEF PaidTypeOK
  <2>3. PaidTypeOK'
    BY <1>3, <2>1, <2>2 DEF Charge, PaidTypeOK
  <2>4. RunInv(r)'
    BY <1>3 DEF Charge, RunInv
  <2> QED BY <1>1, <2>3, <2>4
<1>4. CASE Write(r)
  <2>1. PaidTypeOK'
    BY <1>4 DEF Write, PaidTypeOK, Written
  <2>2. RunInv(r)'
    BY <1>4 DEF Write, PaidTypeOK, RunInv, Written, Settled
  <2> QED BY <1>1, <2>1, <2>2
<1> QED BY <1>2, <1>3, <1>4 DEF RunStepOf

\* PaidInv is an invariant of the specification by itself.
THEOREM PaidRunsKeepBooks == RunSpec => []PaidInv
<1>1. PaidInv /\ [RunNext]_runvars => PaidInv'
  BY PaidStep, PaidStutter DEF RunNext, RunStepOf
<1> QED BY PaidInit, <1>1, PTL DEF RunSpec

-----------------------------------------------------------------------------
\* What a written artifact is counted at covers what was charged, and a charge
\* never exceeds the allowance.
LEMMA ClaimCovers ==
  ASSUME PaidInv, NEW r \in Runs
  PROVE  /\ spent[r] \in Nat /\ spent[r] <= Allowance
         /\ claim(r) \in Nat /\ claim(r) <= Allowance
         /\ file[r] \in Written => spent[r] <= claim(r)
         /\ phase[r] \in {"none", "refused"} => spent[r] = 0
  BY PaidRunConstants DEF PaidInv, PaidTypeOK, RunInv, claim

\* A launched run never becomes unlaunched, a refusal and an exit are final, and
\* so is an artifact.
LEMMA RunIsMonotone ==
  ASSUME PaidInv, NEW r \in Runs, RunStepOf(r), NEW v \in Runs
  PROVE  /\ phase'[v] = "none" => phase[v] = "none"
         /\ phase[v] = "none" /\ ~Launch(r) => phase'[v] = "none"
         /\ phase[v] = "refused" => phase'[v] = "refused"
         /\ file[v] \in Written => file'[v] = file[v] /\ reported'[v] = reported[v]
<1>1. CASE v # r
  BY <1>1, OtherRuns DEF PaidInv
<1>2. CASE v = r
  BY <1>2 DEF PaidInv, PaidTypeOK, RunInv, RunStepOf, Launch, Charge, Open, Write, Exit,
              Refuse, Die, Written, Settled
<1> QED BY <1>1, <1>2
=============================================================================
