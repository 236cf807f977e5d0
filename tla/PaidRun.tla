------------------------------- MODULE PaidRun -------------------------------
(***************************************************************************)
(* What a governed runner relies on when it pays for a subprocess: the     *)
(* abstract specification of live_smoke.py as its parents see it, through  *)
(* its exit, its stdout and the artifact it leaves.                        *)
(*                                                                         *)
(* The promise is in the guards.  A run is charged only after its launch   *)
(* and within its allowance; never once its artifact says what it cost;    *)
(* never if it refused in its preflight.  It may be charged long after its *)
(* process is gone.                                                        *)
(***************************************************************************)
EXTENDS Integers

CONSTANTS
  Runs,       \* the runs that may be launched
  Allowance   \* the admitted worst case of one run

ASSUME PaidRunConstants == Allowance \in Nat

VARIABLES
  phase,     \* none, live, exited (named its artifact), dead, or refused
  spent,     \* what the provider charges for the run
  file,      \* the artifact: absent, torn, or how it accounts for its cost
  reported   \* the cost a settled artifact reports

runvars == <<phase, spent, file, reported>>

\* scan_live_smoke_artifacts: a "complete" or an "accounted" artifact counts at
\* its reported cost, an "unsettled" one at the whole allowance.
Settled == {"complete", "accounted"}
Written == Settled \cup {"unsettled"}

claim(r) == IF file[r] \in Settled THEN reported[r] ELSE Allowance

RunInit ==
  /\ phase = [r \in Runs |-> "none"]
  /\ spent = [r \in Runs |-> 0]
  /\ file = [r \in Runs |-> "absent"]
  /\ reported = [r \in Runs |-> 0]

Launch(r) ==
  /\ phase[r] = "none"
  /\ phase' = [phase EXCEPT ![r] = "live"]
  /\ UNCHANGED <<spent, file, reported>>

Charge(r) ==
  /\ phase[r] \notin {"none", "refused"} /\ file[r] \notin Settled
  /\ \E amount \in (spent[r] + 1)..Allowance : spent' = [spent EXCEPT ![r] = amount]
  /\ UNCHANGED <<phase, file, reported>>

\* Creating the artifact and filling it are two steps.
Open(r) ==
  /\ phase[r] = "live" /\ file[r] = "absent"
  /\ file' = [file EXCEPT ![r] = "torn"]
  /\ UNCHANGED <<phase, spent, reported>>

Write(r) ==
  /\ phase[r] = "live" /\ file[r] = "torn"
  /\ \/ \E how \in Settled : /\ file' = [file EXCEPT ![r] = how]
                             /\ reported' = [reported EXCEPT ![r] = spent[r]]
     \/ file' = [file EXCEPT ![r] = "unsettled"] /\ UNCHANGED reported
  /\ UNCHANGED <<phase, spent>>

Exit(r) ==
  /\ phase[r] = "live" /\ file[r] \in Written
  /\ phase' = [phase EXCEPT ![r] = "exited"]
  /\ UNCHANGED <<spent, file, reported>>

Refuse(r) ==
  /\ phase[r] = "live" /\ spent[r] = 0 /\ file[r] = "absent"
  /\ phase' = [phase EXCEPT ![r] = "refused"]
  /\ UNCHANGED <<spent, file, reported>>

Die(r) ==
  /\ phase[r] = "live"
  /\ phase' = [phase EXCEPT ![r] = "dead"]
  /\ UNCHANGED <<spent, file, reported>>

RunNext ==
  \E r \in Runs : \/ Launch(r) \/ Charge(r) \/ Open(r) \/ Write(r)
                  \/ Exit(r) \/ Refuse(r) \/ Die(r)

RunSpec == RunInit /\ [][RunNext]_runvars
=============================================================================
