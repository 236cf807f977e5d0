--------------------------- MODULE GenerationJobs ---------------------------
(***************************************************************************)
(* The durable generation jobs of the worker (engine.py, worker.py): the   *)
(* lease on a job, the attempt journal written around every external       *)
(* request, the two concurrent response arms of a battle, the recovery of  *)
(* stale claims, and the settlement of the battle's budget reservation,    *)
(* including the settlement rules of the PostgreSQL budget authority       *)
(* (alembic 0016) and the season-wide integrity audit.                     *)
(*                                                                         *)
(* One action is one database transaction, or one network outcome together *)
(* with the transaction that journals it.  The execution mode is "live"    *)
(* on PostgreSQL; all battles belong to one season.                        *)
(***************************************************************************)
EXTENDS Integers, FiniteSets

CONSTANTS
  Battles,              \* battles, each with exactly one generation job
  Controlled,           \* the battles that belong to the controlled run
  Workers,              \* worker processes, each with a fixed worker id
  Arms,                 \* the sides of a battle
  EpicureArms,          \* the arms whose condition gives them MCP tools
  MaxClaims,            \* Job.max_attempts
  MaxRequests,          \* bound: external requests of one arm in one claim
  MaxProviderAttempts,  \* Settings.max_provider_attempts
  UnpricedUsage,        \* may a backend report usage it has no rate for?
  NoWorker,             \* Job.claimed_by is NULL
  NoBattle              \* an idle worker has no lease

ASSUME ConstantsOK ==
  /\ Controlled \subseteq Battles
  /\ Arms # {} /\ EpicureArms \subseteq Arms
  /\ MaxClaims \in Nat \ {0}
  /\ MaxRequests \in Nat \ {0}
  /\ MaxProviderAttempts \in Nat \ {0}
  /\ UnpricedUsage \in BOOLEAN
  /\ NoWorker \notin Workers
  /\ NoBattle \notin Battles

VARIABLES
  run,       \* ControlledRun.status ("revoking": active, its row locked)
  season,    \* Season.status
  jstatus,   \* Job.status ("absent" before create_battle)
  attempts,  \* Job.attempts, the fencing token of a claim
  owner,     \* Job.claimed_by
  stale,     \* Job.claimed_at lies before the recovery cutoff
  bstatus,   \* Battle.status
  arm,       \* ResponseArm with its cost receipts
  settled,   \* the battle owns its release/reconcile cost events
  journal,   \* latest GenerationAttempt event of every attempt
  pc,        \* where each worker is in process_generation_job
  wjob,      \* the battle of the lease it was given
  wclaim,    \* the claim_attempt of that lease
  task       \* one _generate_arm coroutine per arm

authority == <<run, season>>
jobvars == <<jstatus, attempts, owner, stale>>
evidence == <<bstatus, arm, settled>>
workers == <<pc, wjob, wclaim>>
vars == <<run, season, jstatus, attempts, owner, stale, bstatus, arm,
          settled, journal, pc, wjob, wclaim, task>>

Claims == 1..MaxClaims
Requests == 1..MaxRequests

(***************************************************************************)
(* Event types of the attempt journal.  "accounting_unreconciled" is an    *)
(* accounting_reconciled event whose metadata says reconciled = False.     *)
(* "mcp" stands for every event of an MCP attempt; none of them is paid.   *)
(***************************************************************************)
SafeNoCost == {"pre_send_failure", "request_rejected", "retry_scheduled"}
Accounting == {"accounting_reconciled", "accounting_unreconciled"}
Unresolved == {"request_started", "response_received", "invalid_response",
               "uncertain_delivery"}
Events == {"none", "mcp"} \cup SafeNoCost \cup Accounting \cup Unresolved

\* Fault: an unusable response is taken for one that costs nothing.
Mutant_Exposed == Unresolved \ {"invalid_response"}

\* The latest events that leave the cost of an attempt open.
Exposed == Unresolved

JobStatus == {"absent", "queued", "running", "complete", "failed", "uncertain"}
Terminal == {"complete", "failed", "uncertain"}

ArmRecord == [status : {"queued", "running", "complete", "failed", "uncertain"},
              reconciled : BOOLEAN,                  \* cost_reconciled
              generation : BOOLEAN,                  \* generation_id is set
              actual : {"none", "true", "false"},    \* 'actual' receipt, reconciled?
              manual : BOOLEAN]                      \* 'actual_settlement' receipt

NewArm == [status |-> "queued", reconciled |-> FALSE, generation |-> FALSE,
           actual |-> "none", manual |-> FALSE]

TaskRecord == [pc : {"init", "ready", "sent", "mcp", "rejected", "received",
                     "accounting", "failing", "reconciling", "done"},
               n : 1..(MaxRequests + 1),    \* the current external request
               try : 0..MaxProviderAttempts,
               ids : SUBSET Requests,       \* accepted, with a generation id
               todo : SUBSET Requests,      \* ids still to be accounted for
               reconciled : BOOLEAN,        \* cost_reconciled so far
               identified : BOOLEAN,        \* no accounting record lacks identity
               out : {"none", "result", "failure", "error", "uncertain"}]

NewTask == [pc |-> "init", n |-> 1, try |-> 0, ids |-> {}, todo |-> {},
            reconciled |-> TRUE, identified |-> TRUE, out |-> "none"]

-----------------------------------------------------------------------------
(***************************************************************************)
(* What the journal of one arm says about its cost.  J is journal[b][a].   *)
(***************************************************************************)
HasEvent(J, S) == \E c \in Claims, n \in Requests : J[c][n] \in S

\* The worker's reading: a latest paid event that is neither safe nor accounted.
has_unresolved_paid_attempt(J) == HasEvent(J, Exposed)

\* The reading of the settlement function and of the audit, which do not
\* count retry_scheduled among the events that close an attempt.
unresolved_evidence(J) == HasEvent(J, Exposed \cup {"retry_scheduled"})

(***************************************************************************)
(* flavourbench_settle_battle_budget: both arms terminal and reconciled,   *)
(* one valid receipt each, and no unresolved attempt without a manual      *)
(* settlement.                                                             *)
(***************************************************************************)
valid_receipt(x, J) ==
  IF x.manual
  THEN \/ x.actual = "false"
       \/ x.actual = "none" /\ unresolved_evidence(J)
  ELSE x.actual = "true"

settle_battle_budget_accepts(b, arms) ==
  \A a \in Arms :
    /\ arms[a].status \in {"complete", "failed"}
    /\ arms[a].reconciled
    /\ valid_receipt(arms[a], journal[b][a])
    /\ arms[a].manual \/ ~unresolved_evidence(journal[b][a])

(***************************************************************************)
(* assert_budget_integrity, the part that depends on arms and receipts:    *)
(* it looks at every arm of the season, whichever battle is being settled. *)
(***************************************************************************)
endpoint_receipt_valid(x, J) ==
  IF x.actual = "none" /\ ~x.manual
  THEN x.status \in {"queued", "running"} /\ ~x.reconciled
  ELSE /\ x.status \notin {"queued", "running"}
       /\ x.reconciled
       /\ IF x.manual THEN unresolved_evidence(J) \/ x.actual = "false"
                      ELSE x.actual = "true"

BudgetIntegrity(A) ==
  \A b \in Battles, a \in Arms :
    bstatus[b] # "absent" => endpoint_receipt_valid(A[b][a], journal[b][a])

\* reconcile_battle_cost(b), after the arms of the battles have become A.
reconcile_battle_cost_accepts(b, A) ==
  /\ settle_battle_budget_accepts(b, A[b])
  /\ BudgetIntegrity(A)

\* Settling a charged arm may exceed the frozen reservation or a cap.
SeasonAfterSettling(S, A) ==
  IF \E b \in S, a \in Arms : A[b][a].generation \/ A[b][a].manual
  THEN {season, "cost_halted"}
  ELSE {season}

\* _record_known_zero_cost on a failed arm.
known_zero_cost(x) ==
  IF x.reconciled THEN x ELSE [x EXCEPT !.reconciled = TRUE, !.actual = "true"]

failed_at_zero_cost(x) ==
  IF x.status = "complete" THEN x ELSE known_zero_cost([x EXCEPT !.status = "failed"])

ArmsFailedAtZeroCost(b) == [a \in Arms |-> failed_at_zero_cost(arm[b][a])]

-----------------------------------------------------------------------------
current_job_lease(w) ==
  /\ jstatus[wjob[w]] = "running"
  /\ owner[wjob[w]] = w
  /\ attempts[wjob[w]] = wclaim[w]

\* The state of the run in which a battle may be admitted or spend money, and
\* the one in which the worker goes on with a battle it has claimed.
RunPermits(b) == b \in Controlled => run = "active"

RunOpen(b) == b \in Controlled => run \in {"active", "revoking", "collection_complete"}

(***************************************************************************)
(* The row guards of alembic 0014 (repeated as listeners in models.py).  A *)
(* controlled battle changes its status only under an active run; an arm   *)
(* ends complete or failed only with a reconciled cost, uncertain only     *)
(* without one, and a terminal arm changes only from uncertain to failed.  *)
(***************************************************************************)
battle_link_guard(b, status) == status # bstatus[b] => RunPermits(b)

arm_guard(x, y) ==
  CASE x.status \in {"complete", "failed"} -> y = x
    [] x.status = "uncertain" -> y = x \/ (y.status = "failed" /\ y.manual)
    [] OTHER -> /\ y.status \in {"complete", "failed"} => y.reconciled
                /\ y.status = "uncertain" => ~y.reconciled

guards_accept(b, status, arms) ==
  battle_link_guard(b, status) /\ \A a \in Arms : arm_guard(arm[b][a], arms[a])

\* The checks of _persist_provider_attempt before a paid request, apart from
\* the account authority, whose refusals are RefuseRequest.
PaidRequestAuthorized(b) ==
  /\ RunPermits(b)
  /\ season = "active"
  /\ ~settled[b]
  /\ BudgetIntegrity(arm)

Release(w) ==
  /\ pc' = [pc EXCEPT ![w] = "idle"]
  /\ wjob' = [wjob EXCEPT ![w] = NoBattle]
  /\ wclaim' = [wclaim EXCEPT ![w] = 0]
  /\ task' = [task EXCEPT ![w] = [a \in Arms |-> NewTask]]

GoTo(w, label) ==
  /\ pc' = [pc EXCEPT ![w] = label]
  /\ UNCHANGED <<wjob, wclaim, task>>

-----------------------------------------------------------------------------
(***************************************************************************)
(* Admission and claims.                                                   *)
(***************************************************************************)
create_battle(b) ==
  /\ jstatus[b] = "absent"
  /\ RunPermits(b)
  /\ season = "active"
  /\ BudgetIntegrity(arm)
  /\ jstatus' = [jstatus EXCEPT ![b] = "queued"]
  /\ bstatus' = [bstatus EXCEPT ![b] = "queued"]
  /\ UNCHANGED <<authority, attempts, owner, stale, arm, settled, journal,
                 workers, task>>

claim_job(w, b) ==
  /\ pc[w] = "idle"
  /\ jstatus[b] = "queued"
  /\ attempts[b] < MaxClaims
  /\ jstatus' = [jstatus EXCEPT ![b] = "running"]
  /\ attempts' = [attempts EXCEPT ![b] = @ + 1]
  /\ owner' = [owner EXCEPT ![b] = w]
  /\ stale' = [stale EXCEPT ![b] = FALSE]
  /\ pc' = [pc EXCEPT ![w] = "claimed"]
  /\ wjob' = [wjob EXCEPT ![w] = b]
  /\ wclaim' = [wclaim EXCEPT ![w] = attempts[b] + 1]
  /\ UNCHANGED <<authority, evidence, journal, task>>

\* The claim grows older than worker_claim_timeout_seconds.
LeaseExpires(b) ==
  /\ jstatus[b] = "running"
  /\ ~stale[b]
  /\ stale' = [stale EXCEPT ![b] = TRUE]
  /\ UNCHANGED <<authority, jstatus, attempts, owner, evidence, journal,
                 workers, task>>

\* _heartbeat_generation_job runs beside provider.generate.
heartbeat_generation_job(w, a) ==
  /\ pc[w] = "gather"
  /\ task[w][a].pc \notin {"init", "done"}
  /\ current_job_lease(w)
  /\ stale[wjob[w]]
  /\ stale' = [stale EXCEPT ![wjob[w]] = FALSE]
  /\ UNCHANGED <<authority, jstatus, attempts, owner, evidence, journal,
                 workers, task>>

\* A worker dies; the coroutines and their network requests die with it.  Its
\* supervisor restarts it under the same worker id.
WorkerCrashes(w) ==
  /\ pc[w] # "idle"
  /\ Release(w)
  /\ UNCHANGED <<authority, jobvars, evidence, journal>>

-----------------------------------------------------------------------------
(***************************************************************************)
(* process_generation_job up to the dispatch of its arms.                  *)
(***************************************************************************)
\* A transaction whose lease check fails changes nothing and ends the job.
LeaseLost(w) ==
  /\ pc[w] \in {"claimed", "preflight", "attesting", "recheck"}
  /\ ~current_job_lease(w)
  /\ Release(w)
  /\ UNCHANGED <<authority, jobvars, evidence, journal>>

\* The transaction that fails every arm at a known zero cost, seals the battle
\* and settles it.  If a guard or the settlement raises, it is rolled back and
\* the exception ends the worker process.
FailBeforeDispatch(w) ==
  LET b == wjob[w]
      A == [arm EXCEPT ![b] = ArmsFailedAtZeroCost(b)]
  IN /\ IF guards_accept(b, "failed", A[b]) /\ reconcile_battle_cost_accepts(b, A)
        THEN /\ jstatus' = [jstatus EXCEPT ![b] = "failed"]
             /\ bstatus' = [bstatus EXCEPT ![b] = "failed"]
             /\ arm' = A
             /\ settled' = [settled EXCEPT ![b] = TRUE]
             /\ season' \in SeasonAfterSettling({b}, A)
        ELSE UNCHANGED <<jstatus, bstatus, arm, settled, season>>
     /\ Release(w)
     /\ UNCHANGED <<run, attempts, owner, stale, journal>>

\* Fault: the first transaction does not check the lease.
Mutant_BeginGeneration(w) ==
  /\ pc[w] = "claimed"
  /\ RunOpen(wjob[w])
  /\ battle_link_guard(wjob[w], "running")
  /\ bstatus' = [bstatus EXCEPT ![wjob[w]] = "running"]
  /\ GoTo(w, "preflight")
  /\ UNCHANGED <<authority, jobvars, arm, settled, journal>>

\* First transaction: the run is still open and the hard budget stop (decided
\* by the ledger, so either answer is possible here) is not reached.
BeginGeneration(w) ==
  /\ pc[w] = "claimed"
  /\ current_job_lease(w)
  /\ RunOpen(wjob[w])
  /\ battle_link_guard(wjob[w], "running")
  /\ bstatus' = [bstatus EXCEPT ![wjob[w]] = "running"]
  /\ GoTo(w, "preflight")
  /\ UNCHANGED <<authority, jobvars, arm, settled, journal>>

\* The run was revoked, or the season or the run has used up its budget.
RefuseGeneration(w) ==
  /\ pc[w] = "claimed"
  /\ current_job_lease(w)
  /\ FailBeforeDispatch(w)

Preflight(w) ==
  /\ pc[w] = "preflight"
  /\ current_job_lease(w)
  /\ GoTo(w, "attesting")
  /\ UNCHANGED <<authority, jobvars, evidence, journal>>

\* The Epicure runtime attested its identity ...
EpicureAttested(w) ==
  /\ pc[w] = "attesting"
  /\ current_job_lease(w)
  /\ GoTo(w, "recheck")
  /\ UNCHANGED <<authority, jobvars, evidence, journal>>

\* ... or it did not, or the frozen task evidence did not verify.
PreflightFails(w) ==
  /\ pc[w] = "attesting"
  /\ current_job_lease(w)
  /\ FailBeforeDispatch(w)

\* The run is looked at once more after the attestation.
Dispatch(w) ==
  /\ pc[w] = "recheck"
  /\ current_job_lease(w)
  /\ IF RunOpen(wjob[w])
     THEN GoTo(w, "gather") /\ UNCHANGED <<authority, jobvars, evidence, journal>>
     ELSE FailBeforeDispatch(w)

-----------------------------------------------------------------------------
(***************************************************************************)
(* _generate_arm, one coroutine per arm.                                   *)
(***************************************************************************)
At(w, a, label) == pc[w] = "gather" /\ task[w][a].pc = label

SetTask(w, a, t) ==
  /\ task' = [task EXCEPT ![w][a] = t]
  /\ UNCHANGED workers

\* _persist_provider_attempt for the current request of the task.
Persist(w, a, n, event) ==
  journal' = [journal EXCEPT ![wjob[w]][a][wclaim[w]][n] = event]

TaskOnly == UNCHANGED <<authority, jobvars, evidence>>

\* Fault: the arm is marked as running without a look at the lease.
Mutant_GenerateArm(w, a) ==
  /\ At(w, a, "init")
  /\ arm' = [arm EXCEPT ![wjob[w]][a].status = "running"]
  /\ SetTask(w, a, [task[w][a] EXCEPT !.pc = "ready"])
  /\ UNCHANGED <<authority, jobvars, bstatus, settled, journal>>

GenerateArm(w, a) ==
  LET t == task[w][a]
      b == wjob[w]
  IN /\ At(w, a, "init")
     /\ IF current_job_lease(w)
        THEN /\ arm' = [arm EXCEPT ![b][a].status = "running"]
             /\ SetTask(w, a, [t EXCEPT !.pc = "ready"])
        ELSE /\ SetTask(w, a, [t EXCEPT !.pc = "done", !.out = "error"])
             /\ UNCHANGED arm
     /\ UNCHANGED <<authority, jobvars, bstatus, settled, journal>>

\* Faults: a paid request without a lease; one beyond the cap on requests.
Mutant_StartRequest_lease(w, a) ==
  LET t == task[w][a]
  IN /\ At(w, a, "ready")
     /\ t.n \in Requests
     /\ PaidRequestAuthorized(wjob[w])
     /\ Persist(w, a, t.n, "request_started")
     /\ SetTask(w, a, [t EXCEPT !.pc = "sent"])
     /\ TaskOnly

Mutant_StartRequest_cap(w, a) ==
  LET t == task[w][a]
  IN /\ At(w, a, "ready")
     /\ PaidRequestAuthorized(wjob[w])
     /\ current_job_lease(w)
     /\ Persist(w, a, t.n, "request_started")
     /\ SetTask(w, a, [t EXCEPT !.pc = "sent"])
     /\ TaskOnly

StartRequest(w, a) ==
  LET t == task[w][a]
  IN /\ At(w, a, "ready")
     /\ t.n \in Requests
     /\ PaidRequestAuthorized(wjob[w])
     /\ current_job_lease(w)
     /\ Persist(w, a, t.n, "request_started")
     /\ SetTask(w, a, [t EXCEPT !.pc = "sent"])
     /\ TaskOnly

\* The sink refuses a start event: the lease is lost, the run or the season is
\* closed, the audit or the account authority fails; or the arm has reached
\* its cap on external requests.
RefuseRequest(w, a) ==
  /\ At(w, a, "ready")
  /\ SetTask(w, a, [task[w][a] EXCEPT !.pc = "failing", !.out = "error"])
  /\ UNCHANGED journal
  /\ TaskOnly

\* An MCP session or tool call needs the lease and the run, but no budget.
StartMcp(w, a) ==
  LET t == task[w][a]
  IN /\ a \in EpicureArms
     /\ At(w, a, "ready")
     /\ t.n \in Requests
     /\ RunPermits(wjob[w])
     /\ current_job_lease(w)
     /\ Persist(w, a, t.n, "mcp")
     /\ SetTask(w, a, [t EXCEPT !.pc = "mcp"])
     /\ TaskOnly

\* It succeeds; a tool call fails or its trace is refused because the lease is
\* lost; or the session fails with an exception that is not a ProviderError.
EndMcp(w, a) ==
  LET t == task[w][a]
  IN /\ At(w, a, "mcp")
     /\ \/ SetTask(w, a, [t EXCEPT !.pc = "ready", !.n = @ + 1, !.try = 0])
        \/ SetTask(w, a, [t EXCEPT !.pc = "failing", !.out = "error"])
        \/ SetTask(w, a, [t EXCEPT !.pc = "done", !.out = "error"])
     /\ UNCHANGED journal
     /\ TaskOnly

\* A chat completion arrives, with or without a generation id.  The event is
\* journalled even by a worker that has lost its lease.
ResponseReceived(w, a) ==
  LET t == task[w][a]
  IN /\ At(w, a, "sent")
     /\ Persist(w, a, t.n, "response_received")
     /\ \E ids \in {t.ids, t.ids \cup {t.n}} :
          SetTask(w, a, [t EXCEPT !.pc = "received", !.ids = ids])
     /\ TaskOnly

RequestNotAccepted(w, a) ==
  LET t == task[w][a]
  IN /\ At(w, a, "sent")
     /\ \E event \in {"request_rejected", "pre_send_failure"} :
          Persist(w, a, t.n, event)
     /\ SetTask(w, a, [t EXCEPT !.pc = "rejected"])
     /\ TaskOnly

\* A governed retry of the same request, or the failure of the arm.
AfterRejection(w, a) ==
  LET t == task[w][a]
      last == t.try + 1 >= MaxProviderAttempts
  IN /\ At(w, a, "rejected")
     /\ \/ /\ ~last
           /\ Persist(w, a, t.n, "retry_scheduled")
           /\ SetTask(w, a, [t EXCEPT !.pc = "ready", !.n = @ + 1, !.try = @ + 1])
        \/ /\ last \/ journal[wjob[w]][a][wclaim[w]][t.n] = "request_rejected"
           /\ SetTask(w, a, [t EXCEPT !.pc = "failing", !.out = "error"])
           /\ UNCHANGED journal
     /\ TaskOnly

\* A timeout or gateway error after possible acceptance, an unusable response,
\* or a transport error that no handler journals.
RequestFails(w, a) ==
  LET t == task[w][a]
  IN /\ At(w, a, "sent")
     /\ \/ /\ Persist(w, a, t.n, "uncertain_delivery")
           /\ SetTask(w, a, [t EXCEPT !.pc = "failing", !.out = "uncertain"])
        \/ /\ Persist(w, a, t.n, "invalid_response")
           /\ SetTask(w, a, [t EXCEPT !.pc = "failing", !.out = "error"])
        \/ /\ SetTask(w, a, [t EXCEPT !.pc = "done", !.out = "error"])
           /\ UNCHANGED journal
     /\ TaskOnly

\* Another round, the end of the rounds, a cached answer, an answer that does
\* not parse, or an exception that is not a ProviderError.
AfterResponse(w, a) ==
  LET t == task[w][a]
      complete == \A n \in Requests :
        journal[wjob[w]][a][wclaim[w]][n] = "response_received" => n \in t.ids
  IN /\ At(w, a, "received")
     /\ \/ /\ SetTask(w, a, [t EXCEPT !.pc = "ready", !.n = @ + 1, !.try = 0])
           /\ UNCHANGED journal
        \/ /\ complete
           /\ SetTask(w, a, [t EXCEPT !.pc = "accounting", !.todo = t.ids])
           /\ UNCHANGED journal
        \/ /\ Persist(w, a, t.n, "invalid_response")
           /\ SetTask(w, a, [t EXCEPT !.pc = "failing", !.out = "error"])
        \/ /\ SetTask(w, a, [t EXCEPT !.pc = "failing", !.out = "error"])
           /\ UNCHANGED journal
        \/ /\ SetTask(w, a, [t EXCEPT !.pc = "done", !.out = "error"])
           /\ UNCHANGED journal
     /\ TaskOnly

\* _generation_cost for the next generation id: the record is complete and is
\* journalled; the backend has no rate for the usage; the cost is known but
\* not the identity, so nothing is journalled; or there is no record.
GenerationCost(w, a) ==
  LET t == task[w][a]
  IN /\ pc[w] = "gather"
     /\ t.pc \in {"accounting", "reconciling"}
     /\ \E n \in t.todo :
          /\ \A m \in t.todo : n <= m
          /\ LET rest == [t EXCEPT !.todo = @ \ {n}] IN
             \/ /\ Persist(w, a, n, "accounting_reconciled")
                /\ SetTask(w, a, rest)
             \/ /\ UnpricedUsage
                /\ Persist(w, a, n, "accounting_unreconciled")
                /\ SetTask(w, a, [rest EXCEPT !.reconciled = FALSE])
             \/ /\ SetTask(w, a, [rest EXCEPT !.identified = FALSE])
                /\ UNCHANGED journal
             \/ /\ SetTask(w, a, [rest EXCEPT !.reconciled = FALSE])
                /\ UNCHANGED journal
     /\ TaskOnly

\* The identity of every generation verifies, or generate raises.
AfterAccounting(w, a) ==
  LET t == task[w][a]
  IN /\ At(w, a, "accounting")
     /\ t.todo = {}
     /\ \/ /\ t.identified
           /\ t.ids # {}
           /\ SetTask(w, a, [t EXCEPT !.pc = "done", !.out = "result"])
        \/ SetTask(w, a, [t EXCEPT !.pc = "failing", !.out = "error"])
     /\ UNCHANGED journal
     /\ TaskOnly

\* The exception handler of _generate_arm: reconcile_failure accounts for every
\* accepted request of the arm, or raises.
HandleProviderError(w, a) ==
  LET t == task[w][a]
  IN /\ At(w, a, "failing")
     /\ \/ /\ t.ids = {}
           /\ SetTask(w, a, [t EXCEPT !.pc = "done"])
        \/ /\ t.ids # {}
           /\ SetTask(w, a, [t EXCEPT !.pc = "reconciling", !.todo = t.ids,
                                      !.reconciled = TRUE, !.identified = TRUE])
        \/ /\ t.ids # {}
           /\ SetTask(w, a, [t EXCEPT !.pc = "done", !.out = "uncertain"])
     /\ UNCHANGED journal
     /\ TaskOnly

FailureReconciled(w, a) ==
  LET t == task[w][a]
  IN /\ At(w, a, "reconciling")
     /\ t.todo = {}
     /\ SetTask(w, a, [t EXCEPT !.pc = "done", !.out = "failure"])
     /\ UNCHANGED journal
     /\ TaskOnly

-----------------------------------------------------------------------------
(***************************************************************************)
(* The final transaction of process_generation_job.                        *)
(***************************************************************************)
\* _record_result, _record_failure_result and the branch for exceptions.  An
\* answer is accepted only if its cost is reconciled.
record_outcome(x, t, accepted) ==
  CASE t.out \in {"result", "failure"} ->
         [x EXCEPT !.status = IF ~t.reconciled THEN "uncertain"
                              ELSE IF t.out = "result" /\ accepted
                                   THEN "complete" ELSE "failed",
                   !.reconciled = t.reconciled,
                   !.generation = TRUE,
                   !.actual = IF t.reconciled THEN "true" ELSE "false"]
    [] t.out = "uncertain" -> [x EXCEPT !.status = "uncertain"]
    [] OTHER -> [x EXCEPT !.status = "failed"]

\* A failed arm without a generation whose attempts all ended at no cost.
close_unbilled(x, J) ==
  IF /\ x.status = "failed" /\ ~x.generation
     /\ ~HasEvent(J, Exposed \cup Accounting)
  THEN known_zero_cost(x)
  ELSE x

unreconciled_exposure(b, arms) ==
  \E a \in Arms : \/ arms[a].status = "uncertain"
                  \/ arms[a].generation /\ ~arms[a].reconciled
                  \/ has_unresolved_paid_attempt(journal[b][a])

ArmsAfterGeneration(w, accepted) ==
  LET b == wjob[w]
  IN [a \in Arms |-> close_unbilled(record_outcome(arm[b][a], task[w][a], accepted[a]),
                                    journal[b][a])]

BothComplete(arms) == \A a \in Arms : arms[a].status = "complete"

SealedStatus(arms) == IF BothComplete(arms) THEN "complete" ELSE "failed"

\* The row guards accept the sealed record and, if nothing is exposed, the
\* reservation can be reconciled.
SealAccepted(b, arms) ==
  /\ guards_accept(b, SealedStatus(arms), arms)
  /\ unreconciled_exposure(b, arms) \/
       reconcile_battle_cost_accepts(b, [arm EXCEPT ![b] = arms])

Seal(b, arms) ==
  LET exposed == unreconciled_exposure(b, arms)
  IN /\ arm' = [arm EXCEPT ![b] = arms]
     /\ bstatus' = [bstatus EXCEPT ![b] = SealedStatus(arms)]
     /\ jstatus' = [jstatus EXCEPT ![b] = IF BothComplete(arms) THEN "complete"
                                          ELSE IF exposed THEN "uncertain"
                                          ELSE "failed"]
     /\ settled' = [settled EXCEPT ![b] = ~exposed]
     /\ season' \in IF exposed THEN {season}
                     ELSE SeasonAfterSettling({b}, [arm EXCEPT ![b] = arms])

\* A worker that has lost its lease records an incident and nothing else; if a
\* guard or the settlement raises, the transaction is rolled back.
FinalizeGeneration(w) ==
  /\ pc[w] = "gather"
  /\ \A a \in Arms : task[w][a].pc = "done"
  /\ \E accepted \in [Arms -> BOOLEAN] :
       LET arms == ArmsAfterGeneration(w, accepted)
       IN IF current_job_lease(w) /\ SealAccepted(wjob[w], arms)
          THEN Seal(wjob[w], arms)
          ELSE UNCHANGED <<jstatus, bstatus, arm, settled, season>>
  /\ Release(w)
  /\ UNCHANGED <<run, attempts, owner, stale, journal>>

-----------------------------------------------------------------------------
(***************************************************************************)
(* recover_stale_jobs: one transaction over the stale jobs S.              *)
(***************************************************************************)
\* Fault: an arm that never sent a request is left as it was.
Mutant_recovered_arm(x, J) ==
  CASE x.status = "complete" -> x
    [] x.status # "complete" /\ has_unresolved_paid_attempt(J) ->
         [x EXCEPT !.status = "uncertain"]
    [] x.status # "complete" /\ ~has_unresolved_paid_attempt(J)
                             /\ HasEvent(J, Accounting) ->
         LET priced == ~HasEvent(J, {"accounting_unreconciled"})
         IN [x EXCEPT !.status = IF priced THEN "failed" ELSE "uncertain",
                      !.reconciled = priced,
                      !.generation = TRUE,
                      !.actual = IF priced THEN "true" ELSE "false"]
    [] OTHER -> x

recovered_arm(x, J) ==
  CASE x.status = "complete" -> x
    [] x.status # "complete" /\ has_unresolved_paid_attempt(J) ->
         [x EXCEPT !.status = "uncertain"]
    [] x.status # "complete" /\ ~has_unresolved_paid_attempt(J)
                             /\ HasEvent(J, Accounting) ->
         LET priced == ~HasEvent(J, {"accounting_unreconciled"})
         IN [x EXCEPT !.status = IF priced THEN "failed" ELSE "uncertain",
                      !.reconciled = priced,
                      !.generation = TRUE,
                      !.actual = IF priced THEN "true" ELSE "false"]
    [] OTHER -> failed_at_zero_cost(x)

RecoveryUncertain(b) == \E a \in Arms : has_unresolved_paid_attempt(journal[b][a])

\* Fault: paid work that was accounted for does not block the replay.
Mutant_ReplayBlocked(b) == RecoveryUncertain(b)

ReplayBlocked(b) ==
  RecoveryUncertain(b) \/ \E a \in Arms : HasEvent(journal[b][a], Accounting)

\* Fault: off by one in the limit on claims.
Mutant_RecoveryTerminal(b) == ReplayBlocked(b) \/ attempts[b] > MaxClaims

\* Replay is blocked, or the job has no claim left.
RecoveryTerminal(b) == ReplayBlocked(b) \/ attempts[b] >= MaxClaims

\* Fault: the branch for an exhausted job does not settle the battle.
Mutant_RecoverySettles(b) == ReplayBlocked(b) /\ ~RecoveryUncertain(b)

RecoverySettles(b) == RecoveryTerminal(b) /\ ~RecoveryUncertain(b)

ArmsAfterRecovery(S) ==
  [b \in Battles |->
     IF b \in S /\ RecoveryTerminal(b)
     THEN [a \in Arms |-> recovered_arm(arm[b][a], journal[b][a])]
     ELSE arm[b]]

\* The jobs are handled one after the other, in no particular order.  Some
\* order commits iff the one that settles first what it can settle does.
RecoveryCommits(S) ==
  LET settling == {b \in S : RecoverySettles(b)}
      A == ArmsAfterRecovery(settling)
  IN /\ \A b \in settling : reconcile_battle_cost_accepts(b, A)
     /\ \A b \in S : RecoveryTerminal(b) =>
          guards_accept(b, "failed", ArmsAfterRecovery(S)[b])

StaleJobs == {b \in Battles : jstatus[b] = "running" /\ stale[b]}

\* FOR UPDATE SKIP LOCKED: S may miss jobs that another transaction holds.  The
\* worker loop runs it between two jobs.  If one settlement or guard raises, the
\* transaction of all of S is rolled back.
recover_stale_jobs(S) ==
  /\ S # {}
  /\ S \subseteq StaleJobs
  /\ \E w \in Workers : pc[w] = "idle"
  /\ RecoveryCommits(S)
  /\ jstatus' = [b \in Battles |->
                   IF b \notin S THEN jstatus[b]
                   ELSE IF RecoveryUncertain(b) THEN "uncertain"
                   ELSE IF RecoveryTerminal(b) THEN "failed"
                   ELSE "queued"]
  /\ owner' = [b \in Battles |-> IF b \in S THEN NoWorker ELSE owner[b]]
  /\ stale' = [b \in Battles |-> IF b \in S THEN FALSE ELSE stale[b]]
  /\ arm' = ArmsAfterRecovery(S)
  /\ bstatus' = [b \in Battles |-> IF b \in S /\ RecoveryTerminal(b)
                                   THEN "failed" ELSE bstatus[b]]
  /\ settled' = [b \in Battles |-> settled[b] \/ (b \in S /\ RecoverySettles(b))]
  /\ season' \in SeasonAfterSettling({b \in S : RecoverySettles(b)}, ArmsAfterRecovery(S))
  /\ UNCHANGED <<run, attempts, journal, workers, task>>

-----------------------------------------------------------------------------
(***************************************************************************)
(* The controlled-run endpoints that touch generation jobs.                *)
(***************************************************************************)
\* The revocation of the run holds the run and its battles, but not its jobs.
\* First it looks for running jobs.  Until it ends, claims and requeues go on,
\* and whatever needs the run or changes a battle waits.
revoke_finds_no_running_job ==
  /\ run = "active"
  /\ \A b \in Controlled : jstatus[b] # "running"
  /\ run' = "revoking"
  /\ UNCHANGED <<season, jobvars, evidence, journal, workers, task>>

Cancelled == {b \in Controlled : bstatus[b] = "queued" /\ jstatus[b] = "queued"}

\* Then it cancels what was not started (cancel_unstarted_controlled_jobs) and
\* commits ...
revoke_controlled_run ==
  LET A == [b \in Battles |-> IF b \in Cancelled THEN ArmsFailedAtZeroCost(b) ELSE arm[b]]
  IN /\ run = "revoking"
     /\ \A b \in Cancelled, a \in Arms : arm_guard(arm[b][a], A[b][a])
     /\ \A b \in Cancelled : reconcile_battle_cost_accepts(b, A)
     /\ run' = "revoked"
     /\ jstatus' = [b \in Battles |-> IF b \in Cancelled THEN "failed" ELSE jstatus[b]]
     /\ bstatus' = [b \in Battles |-> IF b \in Cancelled THEN "failed" ELSE bstatus[b]]
     /\ arm' = A
     /\ settled' = [b \in Battles |-> settled[b] \/ b \in Cancelled]
     /\ UNCHANGED <<season, attempts, owner, stale, journal, workers, task>>

\* ... or a settlement raises, or the request is lost.
revoke_rolled_back ==
  /\ run = "revoking"
  /\ run' = "active"
  /\ UNCHANGED <<season, jobvars, evidence, journal, workers, task>>

\* A run that has collected all its battles has nothing left to cancel.
revoke_collected_run ==
  /\ run \in {"collection_complete", "closed"}
  /\ run' = "revoked"
  /\ UNCHANGED <<season, jobvars, evidence, journal, workers, task>>

\* verify_controlled_run_bijection with require_terminal, and the same check in
\* the row guard of the run.
CollectionTerminal ==
  /\ Controlled # {}
  /\ \A b \in Controlled : /\ bstatus[b] \in {"complete", "failed"}
                            /\ \A a \in Arms : /\ arm[b][a].status \in {"complete", "failed"}
                                               /\ arm[b][a].reconciled

complete_collection ==
  /\ run = "active"
  /\ CollectionTerminal
  /\ run' = "collection_complete"
  /\ UNCHANGED <<season, jobvars, evidence, journal, workers, task>>

close_controlled_run ==
  /\ run = "collection_complete"
  /\ BudgetIntegrity(arm)
  /\ CollectionTerminal
  /\ \A b \in Controlled : settled[b] /\ jstatus[b] \in {"complete", "failed"}
  /\ run' = "closed"
  /\ UNCHANGED <<season, jobvars, evidence, journal, workers, task>>

\* The arms admin_settle_uncertain_cost must cover, and what it makes of them.
UnsafeArms(b) ==
  {a \in Arms : \/ has_unresolved_paid_attempt(journal[b][a])
                \/ arm[b][a].status = "uncertain"
                \/ arm[b][a].generation /\ ~arm[b][a].reconciled}

ArmsAfterManualSettlement(b) ==
  [arm EXCEPT ![b] =
     [a \in Arms |-> IF a \in UnsafeArms(b)
                     THEN [arm[b][a] EXCEPT !.status = "failed",
                                            !.reconciled = TRUE,
                                            !.manual = TRUE]
                     ELSE arm[b][a]]]

admin_settle_uncertain_cost(b) ==
  LET A == ArmsAfterManualSettlement(b)
  IN /\ b \in Controlled
     /\ jstatus[b] = "uncertain"
     /\ UnsafeArms(b) # {}
     /\ \A a \in Arms : arm_guard(arm[b][a], A[b][a])
     /\ reconcile_battle_cost_accepts(b, A)
     /\ jstatus' = [jstatus EXCEPT ![b] = "failed"]
     /\ arm' = A
     /\ settled' = [settled EXCEPT ![b] = TRUE]
     /\ season' \in SeasonAfterSettling({b}, A)
     /\ UNCHANGED <<run, attempts, owner, stale, bstatus, journal, workers, task>>

-----------------------------------------------------------------------------
Init ==
  /\ run = "active"
  /\ season = "active"
  /\ jstatus = [b \in Battles |-> "absent"]
  /\ attempts = [b \in Battles |-> 0]
  /\ owner = [b \in Battles |-> NoWorker]
  /\ stale = [b \in Battles |-> FALSE]
  /\ bstatus = [b \in Battles |-> "absent"]
  /\ arm = [b \in Battles |-> [a \in Arms |-> NewArm]]
  /\ settled = [b \in Battles |-> FALSE]
  /\ journal = [b \in Battles |-> [a \in Arms |-> [c \in Claims |->
                 [n \in Requests |-> "none"]]]]
  /\ pc = [w \in Workers |-> "idle"]
  /\ wjob = [w \in Workers |-> NoBattle]
  /\ wclaim = [w \in Workers |-> 0]
  /\ task = [w \in Workers |-> [a \in Arms |-> NewTask]]

GenerateStep(w, a) ==
  \/ GenerateArm(w, a)
  \/ StartRequest(w, a)
  \/ RefuseRequest(w, a)
  \/ StartMcp(w, a)
  \/ EndMcp(w, a)
  \/ ResponseReceived(w, a)
  \/ RequestNotAccepted(w, a)
  \/ AfterRejection(w, a)
  \/ RequestFails(w, a)
  \/ AfterResponse(w, a)
  \/ GenerationCost(w, a)
  \/ AfterAccounting(w, a)
  \/ HandleProviderError(w, a)
  \/ FailureReconciled(w, a)

process_generation_job(w) ==
  \/ LeaseLost(w)
  \/ BeginGeneration(w)
  \/ RefuseGeneration(w)
  \/ Preflight(w)
  \/ EpicureAttested(w)
  \/ PreflightFails(w)
  \/ Dispatch(w)
  \/ \E a \in Arms : GenerateStep(w, a)
  \/ FinalizeGeneration(w)

Next ==
  \/ \E b \in Battles : create_battle(b)
  \/ \E w \in Workers, b \in Battles : claim_job(w, b)
  \/ \E w \in Workers : process_generation_job(w)
  \/ \E w \in Workers, a \in Arms : heartbeat_generation_job(w, a)
  \/ \E w \in Workers : WorkerCrashes(w)
  \/ \E b \in Battles : LeaseExpires(b)
  \/ \E S \in SUBSET Battles : recover_stale_jobs(S)
  \/ revoke_finds_no_running_job
  \/ revoke_controlled_run
  \/ revoke_rolled_back
  \/ revoke_collected_run
  \/ complete_collection
  \/ close_controlled_run
  \/ \E b \in Battles : admin_settle_uncertain_cost(b)

Spec == Init /\ [][Next]_vars

-----------------------------------------------------------------------------
(***************************************************************************)
(* Properties.                                                             *)
(***************************************************************************)
\* Every variable keeps its type.
TypeOK ==
  /\ run \in {"active", "revoking", "collection_complete", "closed", "revoked"}
  /\ season \in {"active", "cost_halted"}
  /\ jstatus \in [Battles -> JobStatus]
  /\ attempts \in [Battles -> 0..MaxClaims]
  /\ owner \in [Battles -> Workers \cup {NoWorker}]
  /\ stale \in [Battles -> BOOLEAN]
  /\ bstatus \in [Battles -> {"absent", "queued", "running", "complete", "failed"}]
  /\ arm \in [Battles -> [Arms -> ArmRecord]]
  /\ settled \in [Battles -> BOOLEAN]
  /\ journal \in [Battles -> [Arms -> [Claims -> [Requests -> Events]]]]
  /\ pc \in [Workers -> {"idle", "claimed", "preflight", "attesting", "recheck", "gather"}]
  /\ wjob \in [Workers -> Battles \cup {NoBattle}]
  /\ wclaim \in [Workers -> 0..MaxClaims]
  /\ task \in [Workers -> [Arms -> TaskRecord]]

Billable == Unresolved \cup Accounting

\* No replay: once a claim has journalled an attempt that may have been billed,
\* its job never runs under a later claim, although the attempt may still be
\* journalled on by the superseded worker (recover_stale_jobs, "automatic
\* replay refused").
NoReplayOfBillableWork ==
  \A b \in Battles, c \in Claims :
    (\E a \in Arms, n \in Requests : journal[b][a][c][n] \in Billable)
      => attempts[b] = c /\ jstatus[b] # "queued"

InFlight(w) ==
  \E a \in Arms : task[w][a].pc \in {"sent", "received", "accounting", "reconciling"}

\* Two workers never have paid requests of the same battle in flight, whatever
\* leases expired, were recovered and claimed again in between
\* (_persist_provider_attempt commits a start event only under the lease).
OnePayingWorker ==
  \A v, w \in Workers :
    v # w /\ InFlight(v) /\ InFlight(w) => wjob[v] # wjob[w]

\* Budget is released only on evidence: a settled battle has two terminal,
\* reconciled arms, and an attempt that is still unresolved belongs to an arm
\* an administrator has settled by hand (reconcile_battle_cost).
SettledOnEvidence ==
  \A b \in Battles : settled[b] =>
    \A a \in Arms :
      /\ arm[b][a].status \in {"complete", "failed"}
      /\ arm[b][a].reconciled
      /\ arm[b][a].manual \/ ~HasEvent(journal[b][a], Unresolved)

\* No reservation leaks and none is released early: the reservation of a
\* battle is released exactly when its job is complete or failed, and then the
\* cost of every arm is known; a queued, running or uncertain job holds it.
ReservationFollowsJob ==
  \A b \in Battles :
    /\ settled[b] <=> jstatus[b] \in {"complete", "failed"}
    /\ settled[b] => \A a \in Arms : /\ arm[b][a].status \in {"complete", "failed"}
                                     /\ arm[b][a].reconciled

\* The battle the public sees agrees with its job and its arms: it is sealed
\* exactly when the job is terminal, and complete only with two complete arms
\* (_terminalize_battle_after_arms).
BattleFollowsJob ==
  \A b \in Battles :
    /\ bstatus[b] \in {"complete", "failed"} <=> jstatus[b] \in Terminal
    /\ bstatus[b] = "complete" <=> jstatus[b] = "complete"
    /\ bstatus[b] = "complete" <=> \A a \in Arms : arm[b][a].status = "complete"

\* A sealed record is final: no late worker, no recovery and no administrator
\* changes a battle whose job is complete or failed, and the settlement of an
\* uncertain one changes its uncertain arms only ("scientific and operational
\* state was not mutated", process_generation_job).
SealedIsFinal ==
  [][\A b \in Battles :
       /\ jstatus[b] \in {"complete", "failed"} =>
            /\ jstatus'[b] = jstatus[b]
            /\ bstatus'[b] = bstatus[b]
            /\ arm'[b] = arm[b]
            /\ settled'[b] = settled[b]
       /\ jstatus[b] = "uncertain" =>
            /\ jstatus'[b] \in {"uncertain", "failed"}
            /\ bstatus'[b] = bstatus[b]
            /\ \A a \in Arms : arm[b][a].status # "uncertain" => arm'[b][a] = arm[b][a]
    ]_vars

\* Evidence on which the recovery of a battle settles it and the settlement
\* raises, so that the recovery is rolled back on every pass.  No cost is open,
\* and paid work or the limit on claims ends the job; but the settlement function
\* takes a retry_scheduled for an open attempt, where the worker closes the arm at
\* a known zero cost, and refuses a cost that the worker has called unpriced.
SettlementRaises(b) ==
  /\ \A a \in Arms : ~HasEvent(journal[b][a], Unresolved)
  /\ attempts[b] >= MaxClaims \/ \E a \in Arms : HasEvent(journal[b][a], Accounting)
  /\ \E a \in Arms :
       HasEvent(journal[b][a], {"retry_scheduled", "accounting_unreconciled"})

\* "Reserved budget remains held pending reconciliation" (recover_stale_jobs):
\* at whatever step a worker dies, and whatever a superseded worker has added
\* since, the recovery of its job holds the reservation or settles it, and
\* commits; except on SettlementRaises, or while the audit of the season fails
\* because of some other battle.
StaleJobCanBeRecovered ==
  \A b \in Battles :
    (/\ jstatus[b] = "running" /\ RunPermits(b)
     /\ BudgetIntegrity(arm) /\ ~SettlementRaises(b)) => RecoveryCommits({b})

-----------------------------------------------------------------------------
(***************************************************************************)
(* Liveness.  The worker process is restarted by its supervisor and keeps  *)
(* running its loop: a claimed job is worked on, a queued job is claimed,  *)
(* claims that nobody renews grow old, maintenance runs between jobs, and  *)
(* the transaction of a revocation ends.                                   *)
(* Crashes, heartbeats, admission and administration are not fair.         *)
(***************************************************************************)
Fairness ==
  /\ \A w \in Workers : WF_vars(process_generation_job(w))
  /\ \A w \in Workers : WF_vars(\E b \in Battles : claim_job(w, b))
  /\ \A b \in Battles : WF_vars(LeaseExpires(b))
  /\ WF_vars(recover_stale_jobs(StaleJobs))
  /\ WF_vars(revoke_controlled_run \/ revoke_rolled_back)

FairSpec == Spec /\ Fairness

\* Every admitted battle reaches a terminal job, whatever crashes, however often
\* its lease is lost and whoever still works under an old one, unless its run is
\* revoked or its settlement raises for good (the worker loop with
\* recover_stale_jobs).
JobsEnd ==
  \A b \in Battles :
    jstatus[b] = "queued" ~>
      (jstatus[b] \in Terminal \/ run = "revoked" \/ []SettlementRaises(b))
=============================================================================
