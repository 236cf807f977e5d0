---------------------------- MODULE Leaderboards ----------------------------
(***************************************************************************)
(* Leaderboard snapshots of one season: how a snapshot is computed by a    *)
(* job, sealed as a draft, published, served and withdrawn, while votes,   *)
(* task retirements, billing cross-checks and audits keep arriving and the *)
(* authority to publish may go away.                                       *)
(*                                                                         *)
(* Transactions are PostgreSQL's.  A draft, a publication and a request    *)
(* for a leaderboard read one REPEATABLE READ view, fixed by their first   *)
(* statement; a row they then lock and that was updated since the view     *)
(* raises a serialization failure.  Every other operation is READ          *)
(* COMMITTED.  Statuses only move forward, so "updated since" is "differs  *)
(* from the view".  There is no clock: a snapshot's cutoff is the set of   *)
(* evidence rows stamped when it was taken, committed or not.              *)
(***************************************************************************)
EXTENDS Naturals, FiniteSets

CONSTANTS
    Scopes,       \* (track, cohort, category, stratum) combinations
    Controlled,   \* the scopes of the controlled run; the others are public
    MaxSnapshots, \* leaderboard_snapshots rows inserted; a bound
    MaxJobs,      \* leaderboard_snapshot jobs inserted; a bound
    Sessions,     \* API requests in progress at once; a bound
    Worker,       \* the worker process
    Votes, Retirements, Crosschecks, Audits,   \* evidence that may arrive
    None          \* no scope, no snapshot, no job

Evidence == Votes \cup Retirements \cup Crosschecks \cup Audits
Snapshots == 1..MaxSnapshots
Jobs == 1..MaxJobs

ASSUME BoundsAssumption == MaxSnapshots \in Nat /\ MaxJobs \in Nat
ASSUME ScopesAssumption == Controlled \subseteq Scopes
ASSUME NamesAssumption == /\ None \notin Nat \cup Scopes
                          /\ None \notin {"draft", "published", "withdrawn",
                                          "queued", "running", "complete", "failed"}
                          /\ Worker \notin Sessions

VARIABLES
    season,   \* Season.status of an official season: "active" or "cost_halted"
    run,      \* ControlledRun.status: "closed" or "revoked"; "none": no run
    released, \* ControlledRun.release_authorized
    order,    \* EvaluationOrder.publication_status; "none": no order
    item,     \* each evidence row: "none", "stamped", "committed" or "lost"
    held,     \* published rows a retirement in progress has locked
    snap,     \* leaderboard_snapshots
    job,      \* leaderboard_snapshot jobs
    tx        \* what each session, and the worker, is doing

authority == <<season, run, released, order>>
vars == <<authority, item, held, snap, job, tx>>

(* Rows **********************************************************************)

\* Public battles have no task and no controlled run.
Feeds(k) == IF k \in Controlled THEN Evidence ELSE Votes \cup Crosschecks

Stamped == {e \in Evidence : item[e] \in {"stamped", "committed"}}
Committed == {e \in Evidence : item[e] = "committed"}
Published == {s \in Snapshots : snap[s].status = "published"}
Head(k) == {s \in Published : snap[s].scope = k}

\* A vote, a cross-check and an audit lock the season row until they commit;
\* the adjudication of a task challenge locks the task only.
SeasonFree == \A e \in Evidence \ Retirements : item[e] # "stamped"
RowsFree(S) == \A r \in Retirements : held[r] \cap S = {}

\* _active_controlled_release_authorization, of a run whose order, if it has
\* one, keeps its publication acceptance.
ReleaseActive(v) ==
    /\ v.released
    /\ v.order \in {"none", "authorized", "published"}

\* What a transaction about scope k reads: only a controlled scope involves
\* the run.
OfRun == [run |-> run, released |-> released, order |-> order]
Rows(k) == {s \in Snapshots : snap[s].scope = k}
View(k) == [season |-> season,
            ofrun |-> IF k \in Controlled THEN OfRun ELSE None,
            status |-> [s \in Rows(k) |-> snap[s].status],
            seen |-> Committed \cap Feeds(k)]

\* What a session or the worker is doing; a REPEATABLE READ transaction also
\* carries the view its first statement fixed.
Idle == [op |-> "idle"]
Doing(op, k, on, j) == [op |-> op, scope |-> k, on |-> on, job |-> j]
Begun(op, k, on, j) ==
    [op |-> op, scope |-> k, on |-> on, job |-> j, view |-> View(k)]

ViewHead(c) == {s \in DOMAIN tx[c].view.status : tx[c].view.status[s] = "published"}

Withdrawn(S) ==
    [s \in Snapshots |-> IF s \in S THEN [snap[s] EXCEPT !.status = "withdrawn"]
                                    ELSE snap[s]]

ReadOnly == UNCHANGED <<authority, item, held, snap, job>>

(* Evidence arrives **********************************************************)

\* _record_vote stamps the vote under the season lock.
record_vote(e) ==
    /\ e \in Votes /\ item[e] = "none"
    /\ SeasonFree
    /\ item' = [item EXCEPT ![e] = "stamped"]
    /\ UNCHANGED <<authority, held, snap, job, tx>>

vote_commits(e) ==
    /\ e \in Votes /\ item[e] = "stamped"
    /\ item' = [item EXCEPT ![e] = "committed"]
    /\ UNCHANGED <<authority, held, snap, job, tx>>

\* adjudicate_task_challenge stamps the retirement, then selects and locks the
\* rows that are published at that moment.
retire_task(e) ==
    /\ e \in Retirements /\ item[e] = "none"
    /\ RowsFree(Published)
    /\ item' = [item EXCEPT ![e] = "stamped"]
    /\ held' = [held EXCEPT ![e] = Published]
    /\ UNCHANGED <<authority, snap, job, tx>>

retirement_commits(e) ==
    /\ e \in Retirements /\ item[e] = "stamped"
    /\ item' = [item EXCEPT ![e] = "committed"]
    /\ snap' = Withdrawn(held[e])
    /\ held' = [held EXCEPT ![e] = {}]
    /\ UNCHANGED <<authority, job, tx>>

register_crosscheck(e) ==
    /\ e \in Crosschecks /\ item[e] = "none"
    /\ SeasonFree
    /\ item' = [item EXCEPT ![e] = "stamped"]
    /\ UNCHANGED <<authority, held, snap, job, tx>>

\* A discrepant cross-check halts the season; any cross-check withdraws every
\* published snapshot of it.
crosscheck_commits(e) ==
    /\ e \in Crosschecks /\ item[e] = "stamped"
    /\ RowsFree(Published)
    /\ item' = [item EXCEPT ![e] = "committed"]
    /\ season' \in {season, "cost_halted"}
    /\ snap' = Withdrawn(Published)
    /\ UNCHANGED <<run, released, order, held, job, tx>>

\* A post-collection item audit or a method validation of the closed run.
register_audit(e) ==
    /\ e \in Audits /\ item[e] = "none"
    /\ SeasonFree
    /\ run = "closed"
    /\ item' = [item EXCEPT ![e] = "stamped"]
    /\ UNCHANGED <<authority, held, snap, job, tx>>

audit_commits(e) ==
    /\ e \in Audits /\ item[e] = "stamped"
    /\ LET S == {s \in Published : snap[s].scope \in Controlled}
       IN  RowsFree(S) /\ snap' = Withdrawn(S)
    /\ item' = [item EXCEPT ![e] = "committed"]
    /\ UNCHANGED <<authority, held, job, tx>>

\* Any of these transactions may fail after the stamp.
evidence_rolls_back(e) ==
    /\ item[e] = "stamped"
    /\ item' = [item EXCEPT ![e] = "lost"]
    /\ held' = IF e \in Retirements THEN [held EXCEPT ![e] = {}] ELSE held
    /\ UNCHANGED <<authority, snap, job, tx>>

(* Authority is granted and taken away ***************************************)

authorize_release ==
    /\ run # "none"
    /\ SeasonFree
    /\ ~released
    /\ order \in {"none", "private"}
    /\ released' = TRUE
    /\ order' = IF order = "private" THEN "authorized" ELSE order
    /\ UNCHANGED <<season, run, item, held, snap, job, tx>>

\* Mutant: a status the order does not have.
Mutant_OrderWithdrawn == IF order \in {"authorized", "published"} THEN "revoked" ELSE order
OrderWithdrawn == IF order \in {"authorized", "published"} THEN "withdrawn" ELSE order
RunHeads == {s \in Published : snap[s].scope \in Controlled}

revoke_release ==
    /\ SeasonFree /\ RowsFree(RunHeads)
    /\ released
    /\ released' = FALSE
    /\ order' = OrderWithdrawn
    /\ snap' = Withdrawn(RunHeads)
    /\ UNCHANGED <<season, run, item, held, job, tx>>

revoke_run ==
    /\ SeasonFree /\ RowsFree(RunHeads)
    /\ run = "closed"
    /\ run' = "revoked"
    /\ released' = FALSE
    /\ snap' = Withdrawn(RunHeads)
    /\ UNCHANGED <<season, order, item, held, job, tx>>

\* A settlement over a cap halts the season (reconcile_battle_cost).
cost_halt ==
    /\ SeasonFree /\ RowsFree(Published)
    /\ season = "active"
    /\ season' = "cost_halted"
    /\ snap' = Withdrawn(Published)
    /\ UNCHANGED <<run, released, order, item, held, job, tx>>

admin_withdraw(s) ==
    /\ SeasonFree /\ RowsFree({s})
    /\ s \in Published
    /\ snap' = Withdrawn({s})
    /\ order' = IF snap[s].scope \in Controlled THEN OrderWithdrawn ELSE order
    /\ UNCHANGED <<season, run, released, item, held, job, tx>>

(* Snapshots are computed ****************************************************)

\* admin_snapshot_job looks for a queued or running job of the same request
\* without a lock, and inserts its own in the same READ COMMITTED transaction.
admin_snapshot_job(c, k) ==
    /\ tx[c] = Idle
    /\ \A j \in Jobs : job[j].scope = k => job[j].status \notin {"queued", "running"}
    /\ tx' = [tx EXCEPT ![c] = Doing("enqueue", k, None, None)]
    /\ ReadOnly

enqueue(c, j) ==
    /\ tx[c].op = "enqueue"
    /\ j = Cardinality({i \in Jobs : job[i].status # None}) + 1
    /\ job' = [job EXCEPT ![j] = [@ EXCEPT !.status = "queued", !.scope = tx[c].scope]]
    /\ tx' = [tx EXCEPT ![c] = Idle]
    /\ UNCHANGED <<authority, item, held, snap>>

claim_job(j) ==
    /\ tx[Worker] = Idle
    /\ job[j].status = "queued"
    /\ job' = [job EXCEPT ![j].status = "running"]
    /\ tx' = [tx EXCEPT ![Worker] = Doing("claimed", job[j].scope, None, j)]
    /\ UNCHANGED <<authority, item, held, snap>>

\* _create_leaderboard_snapshot fixes its view with its first statement.
SnapshotAllowed(k) == /\ season = "active"
                      /\ k \in Controlled => run = "closed"

admin_snapshot(c, k) ==
    /\ tx[c] = Idle
    /\ SnapshotAllowed(k)
    /\ tx' = [tx EXCEPT ![c] = Begun("draft", k, None, None)]
    /\ ReadOnly

\* The worker reads its lease and, if it still holds it, computes.
process_snapshot_job ==
    /\ tx[Worker].op = "claimed"
    /\ tx' = [tx EXCEPT ![Worker] =
                 IF job[@.job].status # "running" THEN Idle
                 ELSE IF SnapshotAllowed(@.scope)
                      THEN Begun("draft", @.scope, None, @.job)
                      ELSE Doing("report", @.scope, None, @.job)]
    /\ ReadOnly

\* The cutoff is taken after the view; the draft names the head of the view.
seal_draft(c, s) ==
    /\ tx[c].op = "draft"
    /\ s = Cardinality({p \in Snapshots : snap[p].status # None}) + 1
    /\ LET k == tx[c].scope
           v == tx[c].view
       IN  snap' = [snap EXCEPT ![s] =
                      [status |-> "draft", scope |-> k, job |-> tx[c].job,
                       cut |-> Stamped \cap Feeds(k), evidence |-> v.seen,
                       supersedes |-> ViewHead(c)]]
    /\ tx' = [tx EXCEPT ![c] = IF c = Worker
                               THEN Doing("report", @.scope, s, @.job)
                               ELSE Idle]
    /\ UNCHANGED <<authority, item, held, job>>

\* The analysis raises: the worker reports a failure.
analysis_fails ==
    /\ tx[Worker].op = "draft"
    /\ tx' = [tx EXCEPT ![Worker] = Doing("report", @.scope, None, @.job)]
    /\ ReadOnly

\* The job ends only if its lease is still held; a draft that was sealed stays.
report_job ==
    /\ tx[Worker].op = "report"
    /\ LET j == tx[Worker].job
           s == tx[Worker].on
       IN  job' = IF job[j].status # "running" THEN job
                  ELSE [job EXCEPT ![j].status = IF s = None THEN "failed" ELSE "complete",
                                   ![j].snapshot = s]
    /\ tx' = [tx EXCEPT ![Worker] = Idle]
    /\ UNCHANGED <<authority, item, held, snap>>

\* Mutant: the attempt limit is forgotten and the job is requeued.
Mutant_recover_stale_job(j) ==
    /\ job[j].status = "running"
    /\ job' = [job EXCEPT ![j].status = "queued"]
    /\ UNCHANGED <<authority, item, held, snap, tx>>

\* recover_stale_jobs: no heartbeat renews the claim and max_attempts is 1.
recover_stale_job(j) ==
    /\ job[j].status = "running"
    /\ job' = [job EXCEPT ![j].status = "failed"]
    /\ UNCHANGED <<authority, item, held, snap, tx>>

(* Publication ***************************************************************)

admin_publish(c, s) ==
    /\ tx[c] = Idle
    /\ snap[s].status # None
    /\ tx' = [tx EXCEPT ![c] = Begun("publish", snap[s].scope, s, None)]
    /\ ReadOnly

\* Mutant: the season and the run are read without a lock.
Mutant_NoSerializationFailure(c, S) ==
    \A s \in S : snap[s].status = tx[c].view.status[s]

\* The rows a publication or a request locks are as its view shows them.
NoSerializationFailure(c, S) ==
    LET v == tx[c].view
    IN  /\ season = v.season
        /\ tx[c].scope \in Controlled => OfRun = v.ofrun
        /\ \A s \in S : snap[s].status = v.status[s]

\* _verified_current_snapshot_payload: the evidence up to the cutoff, as this
\* transaction sees it, is the evidence the snapshot was sealed with.
Verified(c, s) ==
    tx[c].view.seen \cap snap[s].cut = snap[s].evidence

MayPublish(c) ==
    LET v == tx[c].view
    IN  /\ v.season = "active"
        /\ tx[c].scope \in Controlled => v.ofrun.run = "closed" /\ ReleaseActive(v.ofrun)

\* The lock on the season, the run and the draft is held to the commit.
PublishLocked(c) ==
    /\ tx[c].op = "publish"
    /\ SeasonFree
    /\ RowsFree({tx[c].on})
    /\ NoSerializationFailure(c, {tx[c].on})
    /\ MayPublish(c)
    /\ tx[c].view.status[tx[c].on] = "draft"

publish_rejects(c) ==
    /\ PublishLocked(c)
    /\ ~Verified(c, tx[c].on)
    /\ snap' = Withdrawn({tx[c].on})
    /\ tx' = [tx EXCEPT ![c] = Idle]
    /\ UNCHANGED <<authority, item, held, job>>

\* Mutant: the head is not compared with the one the draft was sealed against.
Mutant_publish_commits_head(c) ==
    LET s == tx[c].on
        k == tx[c].scope
    IN  /\ PublishLocked(c)
        /\ Verified(c, s)
        /\ RowsFree(ViewHead(c)) /\ NoSerializationFailure(c, ViewHead(c))
        /\ Head(k) \subseteq ViewHead(c)
        /\ k \in Controlled => order \in {"none", "authorized"}
        /\ snap' = [Withdrawn(ViewHead(c)) EXCEPT ![s].status = "published"]
        /\ order' = IF k \in Controlled /\ order = "authorized" THEN "published" ELSE order
        /\ tx' = [tx EXCEPT ![c] = Idle]
        /\ UNCHANGED <<season, run, released, item, held, job>>

\* _withdraw_published_scope_predecessors compares the head of the view with
\* the one the draft was sealed against; the unique index refuses a second
\* head that the view does not show.
publish_commits(c) ==
    LET s == tx[c].on
        k == tx[c].scope
    IN  /\ PublishLocked(c)
        /\ Verified(c, s)
        /\ RowsFree(ViewHead(c)) /\ NoSerializationFailure(c, ViewHead(c))
        /\ ViewHead(c) = snap[s].supersedes
        /\ Head(k) \subseteq ViewHead(c)
        /\ k \in Controlled => order \in {"none", "authorized"}
        /\ snap' = [Withdrawn(ViewHead(c)) EXCEPT ![s].status = "published"]
        /\ order' = IF k \in Controlled /\ order = "authorized" THEN "published" ELSE order
        /\ tx' = [tx EXCEPT ![c] = Idle]
        /\ UNCHANGED <<season, run, released, item, held, job>>

(* Leaderboards are served ***************************************************)

get_leaderboard(c, k) ==
    /\ tx[c] = Idle
    /\ tx' = [tx EXCEPT ![c] = Begun("serve", k, None, None)]
    /\ ReadOnly

\* Mutant: the request locks nothing.
Mutant_ServeLocked(c) ==
    /\ tx[c].op = "serve"
    /\ MayPublish(c)

ServeLocked(c) ==
    /\ tx[c].op = "serve"
    /\ SeasonFree
    /\ RowsFree(ViewHead(c))
    /\ NoSerializationFailure(c, ViewHead(c))
    /\ MayPublish(c)

serve(c) ==
    /\ ServeLocked(c)
    /\ \E s \in ViewHead(c) : Verified(c, s)
    /\ tx' = [tx EXCEPT ![c] = Idle]
    /\ ReadOnly

\* Mutant: the withdrawal is not committed before the 503.
Mutant_serve_withdraws(c) ==
    /\ ServeLocked(c)
    /\ \E s \in ViewHead(c) : ~Verified(c, s)
    /\ tx' = [tx EXCEPT ![c] = Idle]
    /\ ReadOnly

\* 503: the snapshot is withdrawn by the request that finds it stale.
serve_withdraws(c) ==
    /\ ServeLocked(c)
    /\ \E s \in ViewHead(c) :
          /\ ~Verified(c, s)
          /\ snap' = Withdrawn({s})
    /\ tx' = [tx EXCEPT ![c] = Idle]
    /\ UNCHANGED <<authority, item, held, job>>

\* A refusal (401, 404, 409, 422), a serialization failure, a violation of
\* the unique index, a lost connection; of the worker, the process's death.
roll_back(c) ==
    /\ tx[c] # Idle
    /\ tx' = [tx EXCEPT ![c] = Idle]
    /\ ReadOnly

-----------------------------------------------------------------------------
Init ==
    /\ season = "active" /\ released = FALSE
    /\ run = IF Controlled = {} THEN "none" ELSE "closed"
    /\ order \in IF Controlled = {} THEN {"none"} ELSE {"none", "private"}
    /\ item = [e \in Evidence |-> "none"]
    /\ held = [r \in Retirements |-> {}]
    /\ snap = [s \in Snapshots |-> [status |-> None, scope |-> None, job |-> None,
                                    cut |-> {}, evidence |-> {}, supersedes |-> {}]]
    /\ job = [j \in Jobs |-> [status |-> None, scope |-> None, snapshot |-> None]]
    /\ tx = [c \in Sessions \cup {Worker} |-> Idle]

EvidenceStep(e) ==
    \/ record_vote(e) \/ vote_commits(e)
    \/ retire_task(e) \/ retirement_commits(e)
    \/ register_crosscheck(e) \/ crosscheck_commits(e)
    \/ register_audit(e) \/ audit_commits(e)
    \/ evidence_rolls_back(e)

AuthorityStep ==
    \/ authorize_release \/ revoke_release \/ revoke_run
    \/ cost_halt
    \/ \E s \in Snapshots : admin_withdraw(s)

JobStep ==
    \/ \E j \in Jobs : claim_job(j) \/ recover_stale_job(j)
    \/ process_snapshot_job \/ analysis_fails \/ report_job
    \/ \E s \in Snapshots : seal_draft(Worker, s)
    \/ roll_back(Worker)

SessionStep(c) ==
    \/ \E k \in Scopes : admin_snapshot_job(c, k) \/ admin_snapshot(c, k)
                         \/ get_leaderboard(c, k)
    \/ \E j \in Jobs : enqueue(c, j)
    \/ \E s \in Snapshots : seal_draft(c, s) \/ admin_publish(c, s)
    \/ publish_rejects(c) \/ publish_commits(c)
    \/ serve(c) \/ serve_withdraws(c)
    \/ roll_back(c)

Next ==
    \/ \E e \in Evidence : EvidenceStep(e)
    \/ AuthorityStep
    \/ JobStep
    \/ \E c \in Sessions : SessionStep(c)

Spec == Init /\ [][Next]_vars

\* Requests and evidence transactions end, the worker works, maintenance
\* recovers stale claims, and readers keep asking for every leaderboard.
EvidenceEnds(e) == item[e] = "stamped" /\ EvidenceStep(e)
RequestEnds(c) == tx[c] # Idle /\ SessionStep(c)
ReadersAsk(k) == \E c \in Sessions : get_leaderboard(c, k)
ReadersGetAnswers(k) ==
    \E c \in Sessions : /\ tx[c].op = "serve" /\ tx[c].scope = k
                        /\ serve(c) \/ serve_withdraws(c)
WorkerWorks == \/ process_snapshot_job \/ analysis_fails \/ report_job
               \/ \E s \in Snapshots : seal_draft(Worker, s)

FairSpec ==
    /\ Spec
    /\ \A e \in Evidence : WF_vars(EvidenceEnds(e))
    /\ \A c \in Sessions : WF_vars(RequestEnds(c))
    /\ \A k \in Scopes : SF_vars(ReadersAsk(k)) /\ SF_vars(ReadersGetAnswers(k))
    /\ WF_vars(WorkerWorks)
    /\ \A j \in Jobs : SF_vars(claim_job(j)) /\ WF_vars(recover_stale_job(j))

-----------------------------------------------------------------------------
(* Properties                                                               *)

\* The statuses are the ones the tables' check constraints list.
TypeOK ==
    /\ season \in {"active", "cost_halted"}
    /\ run \in {"none", "closed", "revoked"}
    /\ released \in BOOLEAN
    /\ order \in {"none", "private", "authorized", "published", "withdrawn"}
    /\ item \in [Evidence -> {"none", "stamped", "committed", "lost"}]
    /\ held \in [Retirements -> SUBSET Snapshots]
    /\ DOMAIN snap = Snapshots
    /\ \A s \in Snapshots :
          /\ snap[s].status \in {None, "draft", "published", "withdrawn"}
          /\ snap[s].status # None => snap[s].scope \in Scopes
          /\ snap[s].evidence \subseteq Evidence /\ snap[s].cut \subseteq Evidence
          /\ snap[s].supersedes \subseteq Snapshots
    /\ \A j \in Jobs : job[j].status \in {None, "queued", "running", "complete", "failed"}
    /\ DOMAIN tx = Sessions \cup {Worker}

\* No snapshot stays published once the authority to publish it is gone: a
\* halted season has no published snapshot, and a revoked or unreleased run,
\* or one whose order was withdrawn, has none of its own.
NoHeadWithoutAuthority ==
    /\ season = "cost_halted" => Published = {}
    /\ \A s \in RunHeads :
          run = "closed" /\ released /\ order \in {"none", "published"}

\* A publication replaces the head its draft was sealed against and no other,
\* also when another publication slipped in after the draft or after its view:
\* a scope that starts without a head therefore never has two.
HeadIsReplacedKnowingly ==
    [][\A s, p \in Snapshots :
          /\ snap[s].status = "draft" /\ snap'[s].status = "published"
          /\ snap[p].status = "published" /\ snap[p].scope = snap[s].scope
          => p \in snap[s].supersedes /\ snap'[p].status = "withdrawn"]_vars

\* What a request is answered with is, at the moment of the answer and not
\* only in the request's older view, the head of its scope in an active
\* season and, for a controlled scope, of a closed and released run; it holds
\* all evidence up to its cutoff that was committed when the request began.
ServedIsCurrent ==
    [][\A c \in Sessions : serve(c) =>
          \E s \in Head(tx[c].scope) :
             /\ season = "active"
             /\ s \in RunHeads => run = "closed" /\ released
             /\ tx[c].view.seen \cap snap[s].cut = snap[s].evidence]_vars

\* Evidence that commits late, below the cutoff of a snapshot that does not
\* contain it, gets that snapshot withdrawn.
Drifted(s) == Committed \cap snap[s].cut # snap[s].evidence
DriftIsWithdrawn ==
    \A s \in Snapshots : s \in Published /\ Drifted(s) ~> s \notin Published

\* Every snapshot job ends, also when its worker dies.
SnapshotJobsEnd ==
    \A j \in Jobs : job[j].status = "queued" ~> job[j].status \in {"complete", "failed"}

\* "A confirmed defect retires the item, excludes its battles from ranking,
\* and requires leaderboard snapshots to be recomputed."
RetirementIsHonoured ==
    \A s \in Snapshots, r \in Retirements :
        s \in RunHeads /\ item[r] = "committed" /\ r \notin snap[s].evidence
            ~> s \notin RunHeads
=============================================================================
