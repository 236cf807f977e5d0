-------------------------- MODULE LeaderboardsProofs --------------------------
(***************************************************************************)
(* Proofs about Leaderboards for every set of scopes, sessions and pieces  *)
(* of evidence and every bound on snapshots and jobs.                      *)
(*                                                                         *)
(* A request decides on the rows of its own, older view.  TxInv says how   *)
(* such a view relates to the rows as they are now: the rows it shows      *)
(* exist and are of the request's scope, whatever happened to their status *)
(* since.  With the locks taken at the end (NoSerializationFailure) that   *)
(* is enough.  OneHead is what the unique index on published rows and the  *)
(* acceptance of an order keep: one head per scope, one head per order.    *)
(***************************************************************************)
EXTENDS Leaderboards, FiniteSetTheorems, TLAPS

Clients == Sessions \cup {Worker}
Viewing == {"draft", "publish", "serve"}
Ops == Viewing \cup {"idle", "enqueue", "claimed", "report"}

SnapshotRows ==
  [status : {None, "draft", "published", "withdrawn"}, scope : Scopes \cup {None},
   job : Jobs \cup {None}, cut : SUBSET Evidence, evidence : SUBSET Evidence,
   supersedes : SUBSET Snapshots]
JobRows ==
  [status : {None, "queued", "running", "complete", "failed"},
   scope : Scopes \cup {None}, snapshot : Snapshots \cup {None}]

Exists(s) == snap[s].status # None

BaseInv ==
  /\ season \in {"active", "cost_halted"}
  /\ run \in {"none", "closed", "revoked"}
  /\ released \in BOOLEAN
  /\ order \in {"none", "private", "authorized", "published", "withdrawn"}
  /\ item \in [Evidence -> {"none", "stamped", "committed", "lost"}]
  /\ held \in [Retirements -> SUBSET Snapshots]
  /\ DOMAIN tx = Clients

\* Rows are inserted one after the other; a row that exists has a scope, and a
\* retirement only locks rows that exist.
RowInv ==
  /\ snap \in [Snapshots -> SnapshotRows]
  /\ \A s \in Snapshots : Exists(s) <=> snap[s].scope # None
  /\ \E n \in 0..MaxSnapshots : \A s \in Snapshots : Exists(s) <=> s <= n
  /\ \A r \in Retirements : \A s \in held[r] : Exists(s)

JobInv ==
  /\ job \in [Jobs -> JobRows]
  /\ \A j \in Jobs : job[j].status # None => job[j].scope # None

\* What a request carries from its first statement to its last.
TxOf(c) ==
  /\ tx[c].op \in Ops
  /\ tx[c].op # "idle" => tx[c].scope \in Scopes
  /\ tx[c].op \in {"claimed", "report"} => c = Worker
  /\ c = Worker /\ tx[c].op # "idle" => tx[c].job \in Jobs
  /\ tx[c].op \in {"enqueue", "draft"} /\ c # Worker => tx[c].job = None
  /\ tx[c].op = "report" => tx[c].on \in Snapshots \cup {None}
  /\ tx[c].op \in Viewing => tx[c].view.seen \subseteq Evidence
  /\ tx[c].op = "publish" => tx[c].on \in DOMAIN tx[c].view.status

ViewOf(c) ==
  tx[c].op \in Viewing =>
    \A s \in DOMAIN tx[c].view.status : s \in Snapshots /\ snap[s].scope = tx[c].scope

TxInv == \A c \in Clients : TxOf(c) /\ ViewOf(c)

OneHead ==
  /\ \A s, p \in Published : snap[s].scope = snap[p].scope => s = p
  /\ order # "none" => \A s, p \in RunHeads : s = p

IInv == BaseInv /\ RowInv /\ JobInv /\ TxInv /\ OneHead /\ NoHeadWithoutAuthority

-----------------------------------------------------------------------------
(***************************************************************************)
(* Views and rows.                                                         *)
(***************************************************************************)
\* A row keeps its scope.
RowsStay == \A s \in Snapshots : snap[s].scope # None => snap'[s].scope = snap[s].scope

\* Only the request or worker c moves.
OnlyMoves(c) ==
  /\ DOMAIN tx' = Clients
  /\ \A d \in Clients \ {c} : tx'[d] = tx[d]

\* What the others carry stays right while rows keep their scope.
LEMMA OthersCarry ==
  ASSUME TxInv, RowsStay, NEW c \in Clients, OnlyMoves(c), TxOf(c)', ViewOf(c)'
  PROVE  TxInv'
<1> SUFFICES ASSUME NEW d \in Clients, d # c
             PROVE  TxOf(d)' /\ ViewOf(d)'
  BY DEF TxInv
<1>1. tx'[d] = tx[d] /\ TxOf(d) /\ ViewOf(d)
  BY DEF OnlyMoves, TxInv
<1>2. TxOf(d)'
  BY <1>1 DEF TxOf
<1>3. ViewOf(d)'
  <2> SUFFICES ASSUME tx[d].op \in Viewing, NEW s \in DOMAIN tx[d].view.status
               PROVE  s \in Snapshots /\ snap'[s].scope = tx[d].scope
    BY <1>1 DEF ViewOf
  <2>1. s \in Snapshots /\ snap[s].scope = tx[d].scope
    BY <1>1 DEF ViewOf
  <2>2. tx[d].scope # None
    BY <1>1, NamesAssumption DEF TxOf, Viewing
  <2> QED BY <2>1, <2>2 DEF RowsStay
<1> QED BY <1>2, <1>3

\* And while nobody moves.
LEMMA AllCarry ==
  ASSUME TxInv, RowsStay, tx' = tx
  PROVE  TxInv'
<1> SUFFICES ASSUME NEW d \in Clients
             PROVE  TxOf(d)' /\ ViewOf(d)'
  BY DEF TxInv
<1>1. TxOf(d) /\ ViewOf(d)
  BY DEF TxInv
<1>2. TxOf(d)'
  BY <1>1 DEF TxOf
<1>3. ViewOf(d)'
  <2> SUFFICES ASSUME tx[d].op \in Viewing, NEW s \in DOMAIN tx[d].view.status
               PROVE  s \in Snapshots /\ snap'[s].scope = tx[d].scope
    BY DEF ViewOf
  <2>1. s \in Snapshots /\ snap[s].scope = tx[d].scope
    BY <1>1 DEF ViewOf
  <2>2. tx[d].scope # None
    BY <1>1, NamesAssumption DEF TxOf, Viewing
  <2> QED BY <2>1, <2>2 DEF RowsStay
<1> QED BY <1>2, <1>3

\* A request that fixes its view sees rows of its scope.
LEMMA Begins ==
  ASSUME IInv, NEW c \in Clients, NEW op \in Viewing, NEW k \in Scopes, NEW on, NEW j,
         tx' = [tx EXCEPT ![c] = Begun(op, k, on, j)], RowsStay,
         op = "publish" => on \in Snapshots /\ snap[on].scope = k,
         IF c = Worker THEN j \in Jobs ELSE j = None
  PROVE  TxInv' /\ DOMAIN tx' = Clients
<1>1. DOMAIN tx = Clients
  BY DEF IInv, BaseInv
<1>2. OnlyMoves(c) /\ tx'[c] = Begun(op, k, on, j)
  BY <1>1 DEF OnlyMoves
<1>3. /\ tx'[c].op = op /\ tx'[c].scope = k /\ tx'[c].on = on /\ tx'[c].job = j
      /\ tx'[c].view.status = [s \in Rows(k) |-> snap[s].status]
      /\ tx'[c].view.seen = Committed \cap Feeds(k)
  BY <1>2 DEF Begun, View
<1>4. TxOf(c)'
  BY <1>3 DEF TxOf, Ops, Viewing, Rows, Committed
<1>5. ViewOf(c)'
  BY <1>3, NamesAssumption DEF ViewOf, Rows, RowsStay
<1> QED BY <1>1, <1>2, <1>4, <1>5, OthersCarry DEF IInv

\* A request or the worker ends, or goes on without a view.
LEMMA Continues ==
  ASSUME IInv, NEW c \in Clients, NEW t, tx' = [tx EXCEPT ![c] = t], RowsStay,
         \/ t = Idle
         \/ /\ t.op = "enqueue" /\ c # Worker /\ t.scope \in Scopes /\ t.job = None
         \/ /\ t.op \in {"claimed", "report"} /\ c = Worker /\ t.scope \in Scopes
            /\ t.job \in Jobs /\ t.on \in Snapshots \cup {None}
  PROVE  TxInv' /\ DOMAIN tx' = Clients
<1>1. DOMAIN tx = Clients
  BY DEF IInv, BaseInv
<1>2. OnlyMoves(c) /\ tx'[c] = t
  BY <1>1 DEF OnlyMoves
<1>3. TxOf(c)' /\ ViewOf(c)'
  BY <1>2 DEF TxOf, ViewOf, Ops, Viewing, Idle
<1> QED BY <1>1, <1>2, <1>3, OthersCarry DEF IInv

\* Withdrawing rows that exist changes their status and nothing else.
LEMMA WithdrawnRows ==
  ASSUME RowInv, NEW S, \A s \in S \cap Snapshots : Exists(s), snap' = Withdrawn(S)
  PROVE  /\ snap' \in [Snapshots -> SnapshotRows]
         /\ \A s \in Snapshots :
              /\ snap'[s] = [snap[s] EXCEPT !.status = IF s \in S THEN "withdrawn" ELSE @]
              /\ snap'[s].status = IF s \in S THEN "withdrawn" ELSE snap[s].status
              /\ snap'[s].scope = snap[s].scope
              /\ snap'[s].evidence = snap[s].evidence /\ snap'[s].cut = snap[s].cut
              /\ snap'[s].supersedes = snap[s].supersedes
              /\ Exists(s)' <=> Exists(s)
         /\ Published' = Published \ S /\ RunHeads' = RunHeads \ S
         /\ RowsStay
<1>1. ASSUME NEW s \in Snapshots
      PROVE  /\ snap'[s] \in SnapshotRows
             /\ snap'[s] = [snap[s] EXCEPT !.status = IF s \in S THEN "withdrawn" ELSE @]
             /\ snap'[s].status = IF s \in S THEN "withdrawn" ELSE snap[s].status
             /\ snap'[s].scope = snap[s].scope
             /\ snap'[s].evidence = snap[s].evidence /\ snap'[s].cut = snap[s].cut
             /\ snap'[s].supersedes = snap[s].supersedes
  BY DEF RowInv, Withdrawn, SnapshotRows
<1>2. snap' \in [Snapshots -> SnapshotRows]
  BY <1>1 DEF Withdrawn
<1>3. ASSUME NEW s \in Snapshots
      PROVE  Exists(s)' <=> Exists(s)
  BY <1>1, NamesAssumption DEF Exists
<1>4. Published' = Published \ S
  BY <1>1 DEF Published
<1>5. RunHeads' = RunHeads \ S
  BY <1>1, <1>4 DEF RunHeads, Published
<1> QED BY <1>1, <1>2, <1>3, <1>4, <1>5 DEF RowsStay

\* TypeOK is a part of what the invariant says.
LEMMA TypeFollows == IInv => TypeOK
<1> SUFFICES ASSUME IInv
             PROVE  TypeOK
  OBVIOUS
<1>1. ASSUME NEW s \in Snapshots
      PROVE  /\ snap[s].status \in {None, "draft", "published", "withdrawn"}
             /\ snap[s].status # None => snap[s].scope \in Scopes
             /\ snap[s].evidence \subseteq Evidence /\ snap[s].cut \subseteq Evidence
             /\ snap[s].supersedes \subseteq Snapshots
  <2>1. snap[s] \in SnapshotRows /\ (Exists(s) <=> snap[s].scope # None)
    BY DEF IInv, RowInv
  <2> QED BY <2>1 DEF SnapshotRows, Exists
<1>2. ASSUME NEW j \in Jobs
      PROVE  job[j].status \in {None, "queued", "running", "complete", "failed"}
  BY DEF IInv, JobInv, JobRows
<1>3. DOMAIN snap = Snapshots
  BY DEF IInv, RowInv
<1> QED BY <1>1, <1>2, <1>3 DEF IInv, BaseInv, TypeOK, Clients

-----------------------------------------------------------------------------
(***************************************************************************)
(* Steps that change no row.                                               *)
(***************************************************************************)
\* Evidence is stamped, committed or lost; a retirement locks what is published.
LEMMA EvidenceArrives ==
  ASSUME IInv, NEW e \in Evidence,
         record_vote(e) \/ vote_commits(e) \/ retire_task(e) \/ register_crosscheck(e)
           \/ register_audit(e) \/ evidence_rolls_back(e)
  PROVE  IInv'
<1>1. UNCHANGED <<authority, snap, job, tx>>
  BY DEF record_vote, vote_commits, retire_task, register_crosscheck, register_audit,
         evidence_rolls_back
<1>2. /\ \E st \in {"stamped", "committed", "lost"} : item' = [item EXCEPT ![e] = st]
      /\ \/ held' = held
         \/ held' = [held EXCEPT ![e] = {}]
         \/ held' = [held EXCEPT ![e] = Published]
  BY DEF record_vote, vote_commits, retire_task, register_crosscheck, register_audit,
         evidence_rolls_back
<1>3. BaseInv'
  <2>1. item' \in [Evidence -> {"none", "stamped", "committed", "lost"}]
    BY <1>2 DEF IInv, BaseInv
  <2>2. held' \in [Retirements -> SUBSET Snapshots]
    BY <1>2 DEF IInv, BaseInv, Published
  <2> QED BY <1>1, <2>1, <2>2 DEF IInv, BaseInv, authority
<1>4. RowInv'
  <2>1. ASSUME NEW r \in Retirements, NEW s \in held'[r]
        PROVE  Exists(s)
    <3>1. s \in held[r] \/ s \in Published
      BY <1>2 DEF IInv, BaseInv
    <3> QED BY <3>1, NamesAssumption DEF IInv, RowInv, Published, Exists
  <2> QED BY <1>1, <2>1 DEF IInv, RowInv, Exists
<1>5. JobInv' /\ OneHead' /\ NoHeadWithoutAuthority'
  BY <1>1 DEF IInv, JobInv, OneHead, NoHeadWithoutAuthority, Published, RunHeads, authority
<1>6. TxInv'
  BY <1>1, AllCarry DEF IInv, RowsStay
<1> QED BY <1>3, <1>4, <1>5, <1>6 DEF IInv

\* A request, or the worker, that changes no row and no evidence.
LEMMA RequestMoves ==
  ASSUME IInv, UNCHANGED <<authority, item, held, snap>>, JobInv',
         TxInv' /\ DOMAIN tx' = Clients
  PROVE  IInv'
<1>1. BaseInv'
  BY DEF IInv, BaseInv, authority
<1>2. RowInv' /\ OneHead' /\ NoHeadWithoutAuthority'
  BY DEF IInv, RowInv, OneHead, NoHeadWithoutAuthority, Published, RunHeads, Exists, authority
<1> QED BY <1>1, <1>2 DEF IInv

\* The first statement of a request, or of the analysis of a job.
LEMMA FirstStatements ==
  ASSUME IInv, NEW c \in Sessions,
         \/ \E k \in Scopes : admin_snapshot_job(c, k) \/ admin_snapshot(c, k)
                              \/ get_leaderboard(c, k)
         \/ \E s \in Snapshots : admin_publish(c, s)
  PROVE  IInv'
<1>1. c \in Clients /\ c # Worker
  BY NamesAssumption DEF Clients
<1>2. UNCHANGED <<authority, item, held, snap, job>> /\ RowsStay
  BY DEF admin_snapshot_job, admin_snapshot, get_leaderboard, admin_publish, ReadOnly, RowsStay
<1>3. JobInv'
  BY <1>2 DEF IInv, JobInv
<1>4. ASSUME NEW k \in Scopes, admin_snapshot_job(c, k)
      PROVE  TxInv' /\ DOMAIN tx' = Clients
  BY <1>1, <1>2, <1>4, Continues DEF admin_snapshot_job, Doing
<1>5. ASSUME NEW k \in Scopes, admin_snapshot(c, k) \/ get_leaderboard(c, k)
      PROVE  TxInv' /\ DOMAIN tx' = Clients
  <2>1. PICK op \in {"draft", "serve"} : tx' = [tx EXCEPT ![c] = Begun(op, k, None, None)]
    BY <1>5 DEF admin_snapshot, get_leaderboard
  <2> QED BY <1>1, <1>2, <2>1, Begins DEF Viewing
<1>6. ASSUME NEW s \in Snapshots, admin_publish(c, s)
      PROVE  TxInv' /\ DOMAIN tx' = Clients
  <2>1. Exists(s) /\ tx' = [tx EXCEPT ![c] = Begun("publish", snap[s].scope, s, None)]
    BY <1>6 DEF admin_publish, Exists
  <2>2. snap[s].scope \in Scopes
    BY <2>1 DEF IInv, RowInv, SnapshotRows
  <2> QED BY <1>1, <1>2, <2>1, <2>2, Begins DEF Viewing
<1> QED BY <1>2, <1>3, <1>4, <1>5, <1>6, RequestMoves

\* Changing a row of the job table by a status it may have.
LEMMA JobMoves ==
  ASSUME JobInv, NEW j \in Jobs, NEW r \in JobRows, r.scope # None,
         job' = [job EXCEPT ![j] = r]
  PROVE  JobInv'
  BY DEF JobInv

\* A session inserts its job.
LEMMA EnqueueStep ==
  ASSUME IInv, NEW c \in Sessions, NEW j \in Jobs, enqueue(c, j)
  PROVE  IInv'
<1>1. c \in Clients /\ tx[c].op = "enqueue" /\ TxOf(c)
  BY DEF Clients, enqueue, IInv, TxInv
<1>2. tx[c].scope \in Scopes
  BY <1>1 DEF TxOf
<1>3. UNCHANGED <<authority, item, held, snap>> /\ RowsStay
  BY DEF enqueue, RowsStay
<1>4. JobInv'
  <2> DEFINE r == [job[j] EXCEPT !.status = "queued", !.scope = tx[c].scope]
  <2>1. r \in JobRows /\ r.scope # None
    BY <1>2, NamesAssumption DEF IInv, JobInv, JobRows
  <2>2. job' = [job EXCEPT ![j] = r]
    BY DEF enqueue
  <2> HIDE DEF r
  <2> QED BY <2>1, <2>2, JobMoves DEF IInv
<1>5. TxInv' /\ DOMAIN tx' = Clients
  BY <1>1, <1>3, Continues DEF enqueue
<1> QED BY <1>3, <1>4, <1>5, RequestMoves

\* Maintenance fails a stale claim.
LEMMA RecoverStep ==
  ASSUME IInv, NEW j \in Jobs, recover_stale_job(j)
  PROVE  IInv'
<1>1. UNCHANGED <<authority, item, held, snap, tx>> /\ RowsStay
  BY DEF recover_stale_job, RowsStay
<1>2. JobInv'
  <2> DEFINE r == [job[j] EXCEPT !.status = "failed"]
  <2>1. r \in JobRows /\ r.scope # None
    BY NamesAssumption DEF recover_stale_job, IInv, JobInv, JobRows
  <2>2. job' = [job EXCEPT ![j] = r]
    BY DEF recover_stale_job
  <2> HIDE DEF r
  <2> QED BY <2>1, <2>2, JobMoves DEF IInv
<1>3. TxInv' /\ DOMAIN tx' = Clients
  BY <1>1, AllCarry DEF IInv, BaseInv
<1> QED BY <1>1, <1>2, <1>3, RequestMoves

\* The worker claims a job.
LEMMA ClaimStep ==
  ASSUME IInv, NEW j \in Jobs, claim_job(j)
  PROVE  IInv'
<1>1. UNCHANGED <<authority, item, held, snap>> /\ RowsStay /\ Worker \in Clients
  BY DEF claim_job, RowsStay, Clients
<1>2. JobInv'
  <2> DEFINE r == [job[j] EXCEPT !.status = "running"]
  <2>1. r \in JobRows /\ r.scope # None
    BY NamesAssumption DEF claim_job, IInv, JobInv, JobRows
  <2>2. job' = [job EXCEPT ![j] = r]
    BY DEF claim_job
  <2> HIDE DEF r
  <2> QED BY <2>1, <2>2, JobMoves DEF IInv
<1>3. TxInv' /\ DOMAIN tx' = Clients
  <2> DEFINE t == Doing("claimed", job[j].scope, None, j)
  <2>1. job[j].scope \in Scopes
    BY NamesAssumption DEF claim_job, IInv, JobInv, JobRows
  <2>2. t.op = "claimed" /\ t.scope \in Scopes /\ t.on = None /\ t.job = j
    BY <2>1 DEF Doing
  <2>3. tx' = [tx EXCEPT ![Worker] = t]
    BY DEF claim_job
  <2> HIDE DEF t
  <2> QED BY <1>1, <2>2, <2>3, Continues
<1> QED BY <1>1, <1>2, <1>3, RequestMoves

\* The worker begins the analysis, gives up its claim, or reports.
LEMMA WorkerStep ==
  ASSUME IInv, process_snapshot_job \/ analysis_fails \/ report_job
  PROVE  IInv'
<1>1. UNCHANGED <<authority, item, held, snap>> /\ RowsStay /\ Worker \in Clients
  BY DEF process_snapshot_job, analysis_fails, report_job, ReadOnly, RowsStay, Clients
<1>2. /\ tx[Worker].op # "idle" /\ TxOf(Worker)
      /\ tx[Worker].scope \in Scopes /\ tx[Worker].job \in Jobs
  BY <1>1 DEF process_snapshot_job, analysis_fails, report_job, IInv, TxInv, TxOf
<1>3. JobInv'
  <2>1. CASE job' = job
    BY <2>1 DEF IInv, JobInv
  <2>2. CASE report_job /\ job' # job
    <3> DEFINE j == tx[Worker].job
               s == tx[Worker].on
               r == [job[j] EXCEPT !.status = IF s = None THEN "failed" ELSE "complete",
                                   !.snapshot = s]
    <3>1. /\ job[j].status = "running" /\ s \in Snapshots \cup {None}
          /\ job' = [job EXCEPT ![j] = r]
      BY <1>2, <2>2 DEF report_job, TxOf
    <3>2. r \in JobRows /\ r.scope # None
      BY <1>2, <3>1, NamesAssumption, ZenonT(60) DEF IInv, JobInv, JobRows
    <3> HIDE DEF r
    <3> QED BY <1>2, <3>1, <3>2, JobMoves DEF IInv
  <2> QED BY <2>1, <2>2 DEF process_snapshot_job, analysis_fails, ReadOnly
<1>4. \/ tx' = [tx EXCEPT ![Worker] = Idle]
      \/ tx' = [tx EXCEPT ![Worker] = Begun("draft", tx[Worker].scope, None, tx[Worker].job)]
      \/ tx' = [tx EXCEPT ![Worker] = Doing("report", tx[Worker].scope, None, tx[Worker].job)]
  <2>1. Worker \in DOMAIN tx
    BY <1>1 DEF IInv, BaseInv
  <2> QED BY <2>1 DEF process_snapshot_job, analysis_fails, report_job
<1>5. TxInv' /\ DOMAIN tx' = Clients
  <2>1. CASE tx' = [tx EXCEPT ![Worker] = Idle]
    BY <1>1, <2>1, Continues
  <2>2. CASE tx' = [tx EXCEPT ![Worker] = Begun("draft", tx[Worker].scope, None, tx[Worker].job)]
    BY <1>1, <1>2, <2>2, Begins DEF Viewing
  <2>3. CASE tx' = [tx EXCEPT ![Worker] = Doing("report", tx[Worker].scope, None, tx[Worker].job)]
    <3> DEFINE t == Doing("report", tx[Worker].scope, None, tx[Worker].job)
    <3>1. t.op = "report" /\ t.scope \in Scopes /\ t.on = None /\ t.job \in Jobs
      BY <1>2 DEF Doing
    <3> HIDE DEF t
    <3> QED BY <1>1, <2>3, <3>1, Continues DEF t
  <2> QED BY <1>4, <2>1, <2>2, <2>3
<1> QED BY <1>1, <1>3, <1>5, RequestMoves

\* A request is answered or gives up.
LEMMA EndsStep ==
  ASSUME IInv, NEW c \in Clients, serve(c) \/ roll_back(c)
  PROVE  IInv'
<1>1. UNCHANGED <<authority, item, held, snap, job>> /\ RowsStay
  BY DEF serve, roll_back, ReadOnly, RowsStay
<1>2. tx' = [tx EXCEPT ![c] = Idle]
  BY DEF serve, roll_back
<1>3. JobInv'
  BY <1>1 DEF IInv, JobInv
<1>4. TxInv' /\ DOMAIN tx' = Clients
  BY <1>1, <1>2, Continues
<1> QED BY <1>1, <1>3, <1>4, RequestMoves

-----------------------------------------------------------------------------
(***************************************************************************)
(* Steps that withdraw rows.                                               *)
(***************************************************************************)
\* Withdrawing rows that exist, with an order that is not begun by the step,
\* leaves only the authority of the heads that remain to be shown.
LEMMA WithdrawStep ==
  ASSUME IInv, NEW S, \A s \in S \cap Snapshots : Exists(s), snap' = Withdrawn(S),
         BaseInv', TxInv', job' = job, order' # "none" => order # "none",
         \A r \in Retirements : held'[r] \subseteq held[r],
         NoHeadWithoutAuthority'
  PROVE  IInv'
<1>1. /\ snap' \in [Snapshots -> SnapshotRows]
      /\ \A s \in Snapshots : snap'[s].scope = snap[s].scope /\ (Exists(s)' <=> Exists(s))
      /\ Published' = Published \ S /\ RunHeads' = RunHeads \ S
  BY WithdrawnRows DEF IInv
<1>2. RowInv'
  <2>1. \A r \in Retirements : \A s \in held'[r] : Exists(s)'
    BY <1>1 DEF IInv, RowInv, BaseInv
  <2>2. \A s \in Snapshots : Exists(s)' <=> snap'[s].scope # None
    BY <1>1 DEF IInv, RowInv
  <2>3. \E n \in 0..MaxSnapshots : \A s \in Snapshots : Exists(s)' <=> s <= n
    BY <1>1 DEF IInv, RowInv
  <2> QED BY <1>1, <2>1, <2>2, <2>3 DEF RowInv
<1>3. OneHead'
  <2>1. \A s \in Published' : s \in Published /\ s \in Snapshots /\ snap'[s].scope = snap[s].scope
    BY <1>1 DEF Published
  <2> QED BY <1>1, <2>1 DEF IInv, OneHead
<1>4. JobInv'
  BY DEF IInv, JobInv
<1> QED BY <1>2, <1>3, <1>4 DEF IInv

\* A published row exists.
LEMMA PublishedExists == \A s \in Published : s \in Snapshots /\ Exists(s)
  BY NamesAssumption DEF Published, Exists

\* A row that a retirement found defective is withdrawn.
LEMMA RetirementStep ==
  ASSUME IInv, NEW e \in Evidence, retirement_commits(e)
  PROVE  IInv'
<1>1. /\ e \in Retirements /\ snap' = Withdrawn(held[e]) /\ held' = [held EXCEPT ![e] = {}]
      /\ item' = [item EXCEPT ![e] = "committed"] /\ UNCHANGED <<authority, job, tx>>
      /\ \A s \in held[e] \cap Snapshots : Exists(s)
  BY DEF retirement_commits, IInv, RowInv
<1>2. BaseInv'
  BY <1>1 DEF IInv, BaseInv, authority
<1>3. \A r \in Retirements : held'[r] \subseteq held[r]
  BY <1>1 DEF IInv, BaseInv
<1>4. /\ Published' = Published \ held[e] /\ RunHeads' = RunHeads \ held[e] /\ RowsStay
  BY <1>1, WithdrawnRows DEF IInv
<1>5. NoHeadWithoutAuthority'
  BY <1>1, <1>4 DEF IInv, NoHeadWithoutAuthority, authority
<1>6. TxInv'
  BY <1>1, <1>4, AllCarry DEF IInv
<1> QED BY <1>1, <1>2, <1>3, <1>5, <1>6, WithdrawStep DEF authority

\* A cross-check, or a settlement over a cap, withdraws every head.
LEMMA HaltStep ==
  ASSUME IInv, (\E e \in Evidence : crosscheck_commits(e)) \/ cost_halt
  PROVE  IInv'
<1>1. /\ snap' = Withdrawn(Published) /\ season' \in {season, "cost_halted"}
      /\ \/ item' = item
         \/ \E e \in Evidence : item' = [item EXCEPT ![e] = "committed"]
      /\ UNCHANGED <<run, released, order, held, job, tx>>
  BY DEF crosscheck_commits, cost_halt
<1>2. BaseInv'
  BY <1>1 DEF IInv, BaseInv
<1>3. /\ Published' = {} /\ RunHeads' = {} /\ RowsStay
  <2>1. /\ Published' = Published \ Published /\ RunHeads' = RunHeads \ Published /\ RowsStay
    BY <1>1, PublishedExists, WithdrawnRows DEF IInv
  <2> QED BY <2>1 DEF RunHeads
<1>4. NoHeadWithoutAuthority'
  BY <1>3 DEF NoHeadWithoutAuthority
<1>5. TxInv'
  BY <1>1, <1>3, AllCarry DEF IInv
<1> QED BY <1>1, <1>2, <1>4, <1>5, PublishedExists, WithdrawStep

\* An audit, or a revocation, withdraws the heads of the run.
LEMMA RunHeadsStep ==
  ASSUME IInv, (\E e \in Evidence : audit_commits(e)) \/ revoke_release \/ revoke_run
  PROVE  IInv'
<1>1. /\ snap' = Withdrawn(RunHeads) /\ order' \in {order, OrderWithdrawn}
      /\ run' \in {run, "revoked"} /\ released' \in {released, FALSE}
      /\ \/ item' = item
         \/ \E e \in Evidence : item' = [item EXCEPT ![e] = "committed"]
      /\ UNCHANGED <<season, held, job, tx>>
  BY DEF audit_commits, revoke_release, revoke_run, RunHeads, authority
<1>2. BaseInv' /\ (order' # "none" => order # "none")
  BY <1>1 DEF IInv, BaseInv, OrderWithdrawn
<1>3. Published' = Published \ RunHeads /\ RunHeads' = {} /\ RowsStay
  <2>1. /\ Published' = Published \ RunHeads /\ RunHeads' = RunHeads \ RunHeads /\ RowsStay
    BY <1>1, PublishedExists, WithdrawnRows DEF IInv, RunHeads
  <2> QED BY <2>1
<1>4. NoHeadWithoutAuthority'
  BY <1>1, <1>3 DEF IInv, NoHeadWithoutAuthority
<1>5. TxInv'
  BY <1>1, <1>3, AllCarry DEF IInv
<1> QED BY <1>1, <1>2, <1>4, <1>5, PublishedExists, WithdrawStep DEF RunHeads

\* Where there is an order, the withdrawal of its one head and of its acceptance
\* leaves no head behind without it.
LEMMA AdminWithdrawStep ==
  ASSUME IInv, NEW s \in Snapshots, admin_withdraw(s)
  PROVE  IInv'
<1>1. /\ s \in Published /\ snap' = Withdrawn({s})
      /\ order' = IF snap[s].scope \in Controlled THEN OrderWithdrawn ELSE order
      /\ UNCHANGED <<season, run, released, item, held, job, tx>>
  BY DEF admin_withdraw
<1>2. BaseInv' /\ (order' # "none" => order # "none")
  BY <1>1 DEF IInv, BaseInv, OrderWithdrawn
<1>3. Published' = Published \ {s} /\ RunHeads' = RunHeads \ {s} /\ RowsStay
  BY <1>1, PublishedExists, WithdrawnRows DEF IInv
<1>4. NoHeadWithoutAuthority'
  <2>1. CASE snap[s].scope \in Controlled /\ order # "none"
    <3>1. RunHeads' = {}
      BY <1>1, <1>3, <2>1 DEF IInv, OneHead, RunHeads
    <3> QED BY <1>1, <1>3, <3>1 DEF IInv, NoHeadWithoutAuthority
  <2>2. CASE snap[s].scope \notin Controlled \/ order = "none"
    <3>1. order' = order
      BY <1>1, <2>2 DEF OrderWithdrawn
    <3> QED BY <1>1, <1>3, <3>1 DEF IInv, NoHeadWithoutAuthority
  <2> QED BY <2>1, <2>2
<1>5. TxInv'
  BY <1>1, <1>3, AllCarry DEF IInv
<1> QED BY <1>1, <1>2, <1>4, <1>5, PublishedExists, WithdrawStep

\* A request withdraws the draft or the head it finds stale.
LEMMA StaleStep ==
  ASSUME IInv, NEW c \in Sessions, publish_rejects(c) \/ serve_withdraws(c)
  PROVE  IInv'
<1>1. c \in Clients /\ TxOf(c) /\ ViewOf(c) /\ tx[c].op \in {"publish", "serve"}
  BY DEF Clients, IInv, TxInv, publish_rejects, serve_withdraws, PublishLocked, ServeLocked
<1>2. PICK s \in DOMAIN tx[c].view.status : snap' = Withdrawn({s})
  BY <1>1 DEF publish_rejects, serve_withdraws, TxOf, ViewHead, PublishLocked
<1>3. s \in Snapshots /\ Exists(s)
  <2>1. s \in Snapshots /\ snap[s].scope = tx[c].scope /\ tx[c].scope \in Scopes
    BY <1>1 DEF TxOf, ViewOf, Viewing
  <2> QED BY <2>1, NamesAssumption DEF IInv, RowInv
<1>4. UNCHANGED <<authority, item, held, job>> /\ tx' = [tx EXCEPT ![c] = Idle]
  BY DEF publish_rejects, serve_withdraws
<1>5. Published' = Published \ {s} /\ RunHeads' = RunHeads \ {s} /\ RowsStay
  BY <1>2, <1>3, WithdrawnRows DEF IInv
<1>6. NoHeadWithoutAuthority'
  BY <1>4, <1>5 DEF IInv, NoHeadWithoutAuthority, authority
<1>7. TxInv' /\ DOMAIN tx' = Clients
  BY <1>1, <1>4, <1>5, Continues
<1>8. BaseInv'
  BY <1>4, <1>7 DEF IInv, BaseInv, authority
<1> QED BY <1>2, <1>3, <1>4, <1>6, <1>7, <1>8, WithdrawStep DEF authority

-----------------------------------------------------------------------------
(***************************************************************************)
(* Steps that make heads, or make them possible.                           *)
(***************************************************************************)
\* A release is authorized while the run has no head.
LEMMA AuthorizeStep ==
  ASSUME IInv, authorize_release
  PROVE  IInv'
<1>1. /\ ~released /\ released' = TRUE /\ order \in {"none", "private"}
      /\ order' = (IF order = "private" THEN "authorized" ELSE order)
      /\ UNCHANGED <<season, run, item, held, snap, job, tx>>
  BY DEF authorize_release
<1>2. RunHeads = {}
  BY <1>1 DEF IInv, NoHeadWithoutAuthority
<1>3. Published' = Published /\ RunHeads' = RunHeads /\ RowsStay
  BY <1>1 DEF Published, RunHeads, RowsStay
<1>4. BaseInv' /\ RowInv' /\ JobInv'
  BY <1>1 DEF IInv, BaseInv, RowInv, JobInv, Exists
<1>5. OneHead' /\ NoHeadWithoutAuthority'
  BY <1>1, <1>2, <1>3 DEF IInv, OneHead, NoHeadWithoutAuthority
<1>6. TxInv'
  BY <1>1, <1>3, AllCarry DEF IInv
<1> QED BY <1>4, <1>5, <1>6 DEF IInv

\* A draft is a new row.
LEMMA SealStep ==
  ASSUME IInv, NEW c \in Clients, NEW s \in Snapshots, seal_draft(c, s)
  PROVE  IInv'
<1> DEFINE r == [status |-> "draft", scope |-> tx[c].scope, job |-> tx[c].job,
                 cut |-> Stamped \cap Feeds(tx[c].scope), evidence |-> tx[c].view.seen,
                 supersedes |-> ViewHead(c)]
<1>1. /\ tx[c].op = "draft" /\ TxOf(c) /\ ViewOf(c)
      /\ s = Cardinality({p \in Snapshots : Exists(p)}) + 1
      /\ snap' = [snap EXCEPT ![s] = r]
      /\ UNCHANGED <<authority, item, held, job>>
  BY DEF seal_draft, IInv, TxInv, Exists
<1>2. PICK n \in 0..MaxSnapshots : \A p \in Snapshots : Exists(p) <=> p <= n
  BY DEF IInv, RowInv
<1>3. s = n + 1
  <2>1. {p \in Snapshots : Exists(p)} = 1..n
    BY <1>2, BoundsAssumption DEF Snapshots
  <2>2. Cardinality(1..n) = n
    BY BoundsAssumption, FS_Interval
  <2> QED BY <1>1, <2>1, <2>2
<1>4. ~Exists(s)
  BY <1>2, <1>3, BoundsAssumption
<1>5. r \in SnapshotRows
  <2>1. tx[c].scope \in Scopes /\ tx[c].job \in Jobs \cup {None} /\ tx[c].view.seen \subseteq Evidence
    BY <1>1 DEF TxOf, Viewing
  <2>2. ViewHead(c) \subseteq Snapshots
    BY <1>1 DEF ViewOf, ViewHead, Viewing
  <2>3. Stamped \cap Feeds(tx[c].scope) \subseteq Evidence
    BY DEF Stamped
  <2> QED BY <2>1, <2>2, <2>3 DEF SnapshotRows
<1>6. r.status = "draft" /\ r.scope = tx[c].scope /\ tx[c].scope \in Scopes
  BY <1>1 DEF TxOf
<1> HIDE DEF r
<1>7. /\ snap' \in [Snapshots -> SnapshotRows] /\ snap'[s] = r
      /\ \A p \in Snapshots \ {s} : snap'[p] = snap[p]
  BY <1>1, <1>5 DEF IInv, RowInv
<1>8. RowInv'
  <2>1. Exists(s)' /\ snap'[s].scope # None
    BY <1>6, <1>7, NamesAssumption DEF Exists
  <2>2. \A p \in Snapshots \ {s} : Exists(p)' <=> Exists(p)
    BY <1>7 DEF Exists
  <2>3. \A p \in Snapshots : Exists(p)' <=> snap'[p].scope # None
    BY <1>7, <2>1, <2>2 DEF IInv, RowInv
  <2>4. \A p \in Snapshots : Exists(p)' <=> p <= n + 1
    BY <1>2, <1>3, <2>1, <2>2, BoundsAssumption DEF Snapshots
  <2>5. n + 1 \in 0..MaxSnapshots
    BY <1>3, BoundsAssumption DEF Snapshots
  <2>6. \A q \in Retirements : \A p \in held'[q] : Exists(p)'
    <3>1. held' = held
      BY <1>1
    <3> QED BY <1>4, <2>1, <2>2, <3>1 DEF IInv, RowInv, BaseInv
  <2> QED BY <1>7, <2>3, <2>4, <2>5, <2>6 DEF RowInv
<1>9. Published' = Published /\ RunHeads' = RunHeads
  <2>1. \A p \in Snapshots : snap'[p].status = "published" <=> snap[p].status = "published"
    BY <1>4, <1>6, <1>7, NamesAssumption, PublishedExists DEF Published
  <2>2. s \notin Published
    BY <1>4, PublishedExists
  <2> QED BY <1>7, <2>1, <2>2 DEF Published, RunHeads
<1>10. OneHead' /\ NoHeadWithoutAuthority'
  <2>1. \A p \in Published : p \in Snapshots \ {s}
    BY <1>4, PublishedExists
  <2> QED BY <1>1, <1>7, <1>9, <2>1 DEF IInv, OneHead, NoHeadWithoutAuthority, authority
<1>11. RowsStay
  BY <1>4, <1>7 DEF RowsStay, IInv, RowInv
<1>12. TxInv' /\ DOMAIN tx' = Clients
  <2>1. CASE c = Worker
    <3> DEFINE t == Doing("report", tx[c].scope, s, tx[c].job)
    <3>1. tx' = [tx EXCEPT ![c] = t]
      BY <2>1 DEF seal_draft, IInv, BaseInv
    <3>2. t.op = "report" /\ t.scope \in Scopes /\ t.on = s /\ t.job \in Jobs
      BY <1>1, <2>1 DEF Doing, TxOf
    <3> HIDE DEF t
    <3> QED BY <1>11, <2>1, <3>1, <3>2, Continues
  <2>2. CASE c # Worker
    <3>1. tx' = [tx EXCEPT ![c] = Idle]
      BY <2>2 DEF seal_draft
    <3> QED BY <1>11, <3>1, Continues
  <2> QED BY <2>1, <2>2
<1>13. BaseInv' /\ JobInv'
  BY <1>1, <1>12 DEF IInv, BaseInv, JobInv, authority
<1> QED BY <1>8, <1>10, <1>12, <1>13 DEF IInv

\* What a publication does to the rows: its draft becomes the only head of its
\* scope, and the heads it replaces are the ones it knew of.
LEMMA PublishEffect ==
  ASSUME IInv, NEW c \in Sessions, publish_commits(c)
  PROVE  \E s \in Snapshots :
           /\ s = tx[c].on /\ snap[s].status = "draft" /\ snap[s].scope = tx[c].scope
           /\ ViewHead(c) = snap[s].supersedes /\ Head(tx[c].scope) \subseteq ViewHead(c)
           /\ \A p \in ViewHead(c) : p \in Snapshots /\ Exists(p) /\ snap[p].scope = tx[c].scope
           /\ snap' \in [Snapshots -> SnapshotRows]
           /\ \A p \in Snapshots :
                /\ snap'[p].scope = snap[p].scope /\ (Exists(p)' <=> Exists(p))
                /\ snap'[p].status = IF p = s THEN "published"
                                     ELSE IF p \in ViewHead(c) THEN "withdrawn"
                                     ELSE snap[p].status
<1> DEFINE s == tx[c].on
           W == Withdrawn(ViewHead(c))
<1>1. /\ tx[c].op = "publish" /\ TxOf(c) /\ ViewOf(c)
      /\ s \in DOMAIN tx[c].view.status /\ tx[c].view.status[s] = "draft"
      /\ snap[s].status = tx[c].view.status[s]
      /\ ViewHead(c) = snap[s].supersedes /\ Head(tx[c].scope) \subseteq ViewHead(c)
      /\ snap' = [W EXCEPT ![s].status = "published"]
  BY DEF publish_commits, PublishLocked, NoSerializationFailure, Clients, IInv, TxInv, TxOf
<1>2. s \in Snapshots /\ snap[s].scope = tx[c].scope /\ snap[s].status = "draft"
  BY <1>1 DEF ViewOf, Viewing
<1>3. \A p \in ViewHead(c) : p \in Snapshots /\ snap[p].scope = tx[c].scope /\ Exists(p)
  <2>1. tx[c].scope \in Scopes
    BY <1>1 DEF TxOf
  <2> QED BY <1>1, <2>1, NamesAssumption DEF ViewOf, Viewing, ViewHead, IInv, RowInv
<1>4. ASSUME NEW p \in Snapshots
      PROVE  /\ W[p] \in SnapshotRows
             /\ W[p].scope = snap[p].scope
             /\ W[p].status = IF p \in ViewHead(c) THEN "withdrawn" ELSE snap[p].status
  BY DEF Withdrawn, IInv, RowInv, SnapshotRows
<1>5. DOMAIN W = Snapshots
  BY DEF Withdrawn
<1> HIDE DEF s, W
<1>6. ASSUME NEW p \in Snapshots
      PROVE  /\ snap'[p] \in SnapshotRows
             /\ snap'[p].scope = snap[p].scope
             /\ snap'[p].status = IF p = s THEN "published"
                                  ELSE IF p \in ViewHead(c) THEN "withdrawn"
                                  ELSE snap[p].status
  <2>1. CASE p = s
    <3>1. snap'[p] = [W[p] EXCEPT !.status = "published"]
      BY <1>1, <1>5, <2>1
    <3> QED BY <1>4, <2>1, <3>1 DEF SnapshotRows
  <2>2. CASE p # s
    <3>1. snap'[p] = W[p]
      BY <1>1, <1>5, <2>2
    <3> QED BY <1>4, <2>2, <3>1
  <2> QED BY <2>1, <2>2
<1>7. snap' \in [Snapshots -> SnapshotRows]
  <2>1. snap' = [p \in Snapshots |-> snap'[p]]
    BY <1>1, <1>5
  <2> QED BY <1>6, <2>1
<1>8. ASSUME NEW p \in Snapshots
      PROVE  Exists(p)' <=> Exists(p)
  BY <1>2, <1>3, <1>6, NamesAssumption DEF Exists
<1> QED BY <1>1, <1>2, <1>3, <1>6, <1>7, <1>8 DEF s

\* A publication needs the authority it had in its view, which it holds locked.
LEMMA PublishStep ==
  ASSUME IInv, NEW c \in Sessions, publish_commits(c)
  PROVE  IInv'
<1> DEFINE k == tx[c].scope
<1>1. PICK s \in Snapshots :
           /\ s = tx[c].on /\ snap[s].status = "draft" /\ snap[s].scope = k
           /\ ViewHead(c) = snap[s].supersedes /\ Head(k) \subseteq ViewHead(c)
           /\ \A p \in ViewHead(c) : p \in Snapshots /\ Exists(p) /\ snap[p].scope = k
           /\ snap' \in [Snapshots -> SnapshotRows]
           /\ \A p \in Snapshots :
                /\ snap'[p].scope = snap[p].scope /\ (Exists(p)' <=> Exists(p))
                /\ snap'[p].status = IF p = s THEN "published"
                                     ELSE IF p \in ViewHead(c) THEN "withdrawn"
                                     ELSE snap[p].status
  BY PublishEffect
<1>2. /\ season = "active"
      /\ k \in Controlled => run = "closed" /\ released /\ order \in {"none", "authorized"}
      /\ order' = IF k \in Controlled /\ order = "authorized" THEN "published" ELSE order
      /\ tx' = [tx EXCEPT ![c] = Idle]
      /\ UNCHANGED <<season, run, released, item, held, job>>
  <2>1. k \in Controlled => tx[c].view.ofrun = [run |-> run, released |-> released, order |-> order]
    BY DEF publish_commits, PublishLocked, NoSerializationFailure, OfRun
  <2>2. /\ season = "active"
        /\ k \in Controlled => tx[c].view.ofrun.run = "closed" /\ tx[c].view.ofrun.released
    BY DEF publish_commits, PublishLocked, NoSerializationFailure, MayPublish, ReleaseActive
  <2>3. k \in Controlled => run = "closed" /\ released
    BY <2>1, <2>2
  <2> QED BY <2>2, <2>3 DEF publish_commits
<1>3. c \in Clients
  BY DEF Clients
<1>4. RowsStay
  BY <1>1 DEF RowsStay
<1>5. TxInv' /\ DOMAIN tx' = Clients
  BY <1>2, <1>3, <1>4, Continues
<1>6. BaseInv' /\ JobInv'
  BY <1>2, <1>5 DEF IInv, BaseInv, JobInv
<1>7. RowInv'
  <2>1. \A q \in Retirements : \A p \in held'[q] : Exists(p)'
    BY <1>1, <1>2 DEF IInv, RowInv, BaseInv
  <2>2. \A p \in Snapshots : Exists(p)' <=> snap'[p].scope # None
    BY <1>1 DEF IInv, RowInv
  <2>3. \E n \in 0..MaxSnapshots : \A p \in Snapshots : Exists(p)' <=> p <= n
    BY <1>1 DEF IInv, RowInv
  <2> QED BY <1>1, <2>1, <2>2, <2>3 DEF RowInv
<1>8. /\ Published' = (Published \ ViewHead(c)) \cup {s}
      /\ \A p \in Published' : p # s => snap[p].scope # k
  <2>1. Published' = (Published \ ViewHead(c)) \cup {s}
    BY <1>1 DEF Published
  <2>2. \A p \in Published \ ViewHead(c) : snap[p].scope # k
    BY <1>1 DEF Head
  <2> QED BY <2>1, <2>2
<1>9. RunHeads' \subseteq RunHeads \cup {s} /\ (s \in RunHeads' => k \in Controlled)
  BY <1>1, <1>8 DEF RunHeads, Published
<1>10. order = "authorized" => RunHeads = {}
  BY DEF IInv, NoHeadWithoutAuthority
<1>11. k \in Controlled /\ order # "none" => RunHeads = {}
  BY <1>2, <1>10
<1>12. s \notin RunHeads
  BY <1>1 DEF RunHeads, Published
<1>13. k \notin Controlled => RunHeads' \subseteq RunHeads /\ order' = order
  BY <1>2, <1>9
<1>14. OneHead'
  <2>1. \A p, q \in Published' : snap'[p].scope = snap'[q].scope => p = q
    <3>1. \A p \in Published' : p \in Snapshots
      BY DEF Published
    <3>2. \A p, q \in Published' : snap[p].scope = snap[q].scope => p = q
      BY <1>1, <1>8 DEF IInv, OneHead
    <3> QED BY <1>1, <3>1, <3>2
  <2>2. order' # "none" => \A p, q \in RunHeads' : p = q
    <3>1. CASE k \in Controlled
      BY <1>2, <1>9, <1>11, <3>1
    <3>2. CASE k \notin Controlled
      BY <1>13, <3>2 DEF IInv, OneHead
    <3> QED BY <3>1, <3>2
  <2> QED BY <2>1, <2>2 DEF OneHead
<1>15. NoHeadWithoutAuthority'
  <2>1. season' # "cost_halted"
    BY <1>2
  <2>2. CASE k \in Controlled
    <3>1. run' = "closed" /\ released' /\ order' \in {"none", "published"}
      BY <1>2, <2>2
    <3> QED BY <2>1, <3>1 DEF NoHeadWithoutAuthority
  <2>3. CASE k \notin Controlled
    BY <1>2, <1>13, <2>1, <2>3 DEF IInv, NoHeadWithoutAuthority
  <2> QED BY <2>2, <2>3
<1> QED BY <1>5, <1>6, <1>7, <1>14, <1>15 DEF IInv

-----------------------------------------------------------------------------
(***************************************************************************)
(* The theorems.                                                           *)
(***************************************************************************)
\* IInv holds initially.
LEMMA InitIInv == Init => IInv
<1> SUFFICES ASSUME Init
             PROVE  IInv
  OBVIOUS
<1>1. ASSUME NEW s \in Snapshots
      PROVE  /\ snap[s] \in SnapshotRows /\ snap[s].scope = None /\ ~Exists(s)
             /\ ~(s <= 0)
  BY BoundsAssumption DEF Init, SnapshotRows, Exists, Snapshots
<1>2. Published = {} /\ RunHeads = {}
  BY <1>1, PublishedExists DEF RunHeads
<1>3. snap \in [Snapshots -> SnapshotRows]
  BY <1>1 DEF Init
<1>4. RowInv
  <2>1. 0 \in 0..MaxSnapshots
    BY BoundsAssumption
  <2>2. \A r \in Retirements : held[r] = {}
    BY DEF Init
  <2> QED BY <1>1, <1>3, <2>1, <2>2 DEF RowInv
<1>5. JobInv
  <2>1. \A j \in Jobs : job[j] \in JobRows /\ job[j].status = None
    BY DEF Init, JobRows
  <2> QED BY <2>1 DEF Init, JobInv
<1>6. TxInv
  BY DEF Init, TxInv, TxOf, ViewOf, Clients, Idle, Ops, Viewing
<1>7. BaseInv
  BY DEF Init, BaseInv, Clients
<1>8. OneHead /\ NoHeadWithoutAuthority
  BY <1>2 DEF OneHead, NoHeadWithoutAuthority
<1> QED BY <1>4, <1>5, <1>6, <1>7, <1>8 DEF IInv

\* Every step preserves IInv.
LEMMA NextIInv == IInv /\ [Next]_vars => IInv'
<1> SUFFICES ASSUME IInv, [Next]_vars
             PROVE  IInv'
  OBVIOUS
<1>1. CASE UNCHANGED vars
  <2>1. JobInv' /\ DOMAIN tx' = Clients
    BY <1>1 DEF vars, IInv, JobInv, BaseInv
  <2>2. TxInv'
    BY <1>1, AllCarry DEF vars, IInv, RowsStay
  <2> QED BY <1>1, <2>1, <2>2, RequestMoves DEF vars
<1>2. ASSUME NEW e \in Evidence, EvidenceStep(e)
      PROVE  IInv'
  BY <1>2, EvidenceArrives, RetirementStep, HaltStep, RunHeadsStep DEF EvidenceStep
<1>3. CASE AuthorityStep
  BY <1>3, AuthorizeStep, RunHeadsStep, HaltStep, AdminWithdrawStep DEF AuthorityStep
<1>4. CASE JobStep
  <2>1. Worker \in Clients
    BY DEF Clients
  <2> QED BY <1>4, <2>1, ClaimStep, RecoverStep, WorkerStep, SealStep, EndsStep DEF JobStep
<1>5. ASSUME NEW c \in Sessions, SessionStep(c)
      PROVE  IInv'
  <2>1. c \in Clients
    BY DEF Clients
  <2> QED BY <1>5, <2>1, FirstStatements, EnqueueStep, SealStep, StaleStep, PublishStep,
             EndsStep DEF SessionStep
<1> QED BY <1>1, <1>2, <1>3, <1>4, <1>5 DEF Next

\* The inductive invariant.
LEMMA IInvHolds == Spec => []IInv
  BY InitIInv, NextIInv, PTL DEF Spec

\* The statuses are the ones the tables' check constraints list.
THEOREM TypeCorrect == Spec => []TypeOK
  BY TypeFollows, IInvHolds, PTL

\* No snapshot stays published once the authority to publish it is gone, with
\* any number of scopes, sessions and pieces of evidence: every operation that
\* takes authority away (cost halt, revocations, admin withdrawal, a discrepant
\* cross-check) withdraws the heads it covered, and none is published after it
\* from an older view.
THEOREM HeadsHaveAuthority == Spec => []NoHeadWithoutAuthority
  BY IInvHolds, PTL DEF IInv

\* The unique index on published rows is never violated, and an order that was
\* accepted for one publication never has two heads.
THEOREM OneHeadPerScope == Spec => []OneHead
  BY IInvHolds, PTL DEF IInv

-----------------------------------------------------------------------------
(***************************************************************************)
(* What a step may never do.                                               *)
(***************************************************************************)
\* Only publish_commits makes a head.
LEMMA OnlyPublicationMakesHeads ==
  ASSUME IInv, [Next]_vars, \A c \in Sessions : ~publish_commits(c)
  PROVE  Published' \subseteq Published
<1>1. \/ snap' = snap
      \/ \E S : snap' = Withdrawn(S)
      \/ \E c \in Clients, s \in Snapshots : seal_draft(c, s)
  <2>1. CASE UNCHANGED vars
    BY <2>1 DEF vars
  <2>2. ASSUME NEW e \in Evidence, EvidenceStep(e)
        PROVE  snap' = snap \/ \E S : snap' = Withdrawn(S)
    BY <2>2 DEF EvidenceStep, record_vote, vote_commits, retire_task, retirement_commits,
                register_crosscheck, crosscheck_commits, register_audit, audit_commits,
                evidence_rolls_back
  <2>3. CASE AuthorityStep
    BY <2>3 DEF AuthorityStep, authorize_release, revoke_release, revoke_run, cost_halt,
                admin_withdraw
  <2>4. CASE JobStep
    BY <2>4 DEF JobStep, claim_job, recover_stale_job, process_snapshot_job, analysis_fails,
                report_job, roll_back, ReadOnly, Clients
  <2>5. ASSUME NEW c \in Sessions, SessionStep(c)
        PROVE  \/ snap' = snap
               \/ \E S : snap' = Withdrawn(S)
               \/ \E s \in Snapshots : seal_draft(c, s)
    BY <2>5 DEF SessionStep, admin_snapshot_job, admin_snapshot, get_leaderboard, enqueue,
                admin_publish, publish_rejects, serve, serve_withdraws, roll_back, ReadOnly
  <2> QED BY <2>1, <2>2, <2>3, <2>4, <2>5 DEF Next, Clients
<1>2. CASE snap' = snap
  BY <1>2 DEF Published
<1>3. ASSUME NEW S, snap' = Withdrawn(S)
      PROVE  Published' \subseteq Published
  <2>1. ASSUME NEW s \in Snapshots
        PROVE  snap'[s].status = IF s \in S THEN "withdrawn" ELSE snap[s].status
    BY <1>3 DEF Withdrawn, IInv, RowInv, SnapshotRows
  <2> QED BY <2>1 DEF Published
<1>4. ASSUME NEW c \in Clients, NEW s \in Snapshots, seal_draft(c, s)
      PROVE  Published' \subseteq Published
  <2>1. \A p \in Snapshots : p # s => snap'[p] = snap[p]
    BY <1>4 DEF seal_draft, IInv, RowInv
  <2>2. snap'[s].status = "draft"
    BY <1>4 DEF seal_draft, IInv, RowInv
  <2> QED BY <2>1, <2>2 DEF Published
<1> QED BY <1>1, <1>2, <1>3, <1>4

\* A publication replaces the heads its draft was sealed against and no other
\* (_withdraw_published_scope_predecessors), also when another one slipped in
\* after the draft or after the view of the publication.
THEOREM ReplacementIsKnowing == Spec => HeadIsReplacedKnowingly
<1> DEFINE Knowing(s, p) ==
      /\ snap[s].status = "draft" /\ snap'[s].status = "published"
      /\ snap[p].status = "published" /\ snap[p].scope = snap[s].scope
      => p \in snap[s].supersedes /\ snap'[p].status = "withdrawn"
<1>1. ASSUME IInv, [Next]_vars, NEW s \in Snapshots, NEW p \in Snapshots,
             snap[s].status = "draft", snap'[s].status = "published",
             snap[p].status = "published", snap[p].scope = snap[s].scope
      PROVE  p \in snap[s].supersedes /\ snap'[p].status = "withdrawn"
  <2>1. s \in Published' /\ s \notin Published
    BY <1>1 DEF Published
  <2>2. PICK c \in Sessions : publish_commits(c)
    BY <1>1, <2>1, OnlyPublicationMakesHeads
  <2>3. PICK q \in Snapshots :
           /\ snap[q].scope = tx[c].scope /\ ViewHead(c) = snap[q].supersedes
           /\ Head(tx[c].scope) \subseteq ViewHead(c)
           /\ \A r \in Snapshots :
                snap'[r].status = IF r = q THEN "published"
                                  ELSE IF r \in ViewHead(c) THEN "withdrawn"
                                  ELSE snap[r].status
           /\ snap[q].status = "draft"
    BY <1>1, <2>2, PublishEffect
  <2>4. s = q
    BY <1>1, <2>3
  <2>5. p \in Head(tx[c].scope) /\ p # s
    BY <1>1, <2>3, <2>4 DEF Head, Published
  <2> QED BY <2>3, <2>4, <2>5
<1>2. IInv /\ [Next]_vars => [\A s, p \in Snapshots : Knowing(s, p)]_vars
  BY <1>1
<1> QED BY <1>2, IInvHolds, PTL DEF Spec, HeadIsReplacedKnowingly

\* A leaderboard is answered from the head of its scope at the moment of the
\* answer (get_leaderboard locks what it has read), in an active season and, for
\* a controlled scope, of a closed and released run.
THEOREM AnswersAreCurrent == Spec => ServedIsCurrent
<1> DEFINE Current(c) ==
      \E s \in Head(tx[c].scope) :
         /\ season = "active"
         /\ s \in RunHeads => run = "closed" /\ released
         /\ tx[c].view.seen \cap snap[s].cut = snap[s].evidence
<1>1. ASSUME IInv, NEW c \in Sessions, serve(c)
      PROVE  Current(c)
  <2>1. /\ tx[c].op = "serve" /\ ViewOf(c)
        /\ NoSerializationFailure(c, ViewHead(c)) /\ MayPublish(c)
    BY <1>1 DEF serve, ServeLocked, Clients, IInv, TxInv
  <2>2. PICK s \in ViewHead(c) : Verified(c, s)
    BY <1>1 DEF serve
  <2>3. s \in Head(tx[c].scope)
    BY <2>1, <2>2 DEF ViewHead, ViewOf, Viewing, NoSerializationFailure, Head, Published
  <2>4. season = "active"
    BY <2>1 DEF NoSerializationFailure, MayPublish
  <2>5. s \in RunHeads => run = "closed" /\ released
    <3>1. s \in RunHeads => tx[c].scope \in Controlled
      BY <2>3 DEF Head, RunHeads
    <3> QED BY <2>1, <3>1 DEF NoSerializationFailure, MayPublish, ReleaseActive, OfRun
  <2> QED BY <2>2, <2>3, <2>4, <2>5 DEF Verified
<1>2. IInv => [\A c \in Sessions : serve(c) => Current(c)]_vars
  BY <1>1
<1> QED BY <1>2, IInvHolds, PTL DEF ServedIsCurrent
=============================================================================
