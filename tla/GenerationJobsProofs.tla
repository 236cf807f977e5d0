------------------------ MODULE GenerationJobsProofs ------------------------
(***************************************************************************)
(* Proofs about GenerationJobs for every set of battles, workers and arms  *)
(* and every bound.  IInv is the inductive invariant behind the theorems:  *)
(* what a worker holds and what the journal says are tied together row by  *)
(* row, a row being the events of one arm in one claim.                    *)
(***************************************************************************)
EXTENDS GenerationJobs, TLAPS

Row == [Requests -> Events]

\* A worker that is not idle holds a claim of its battle that was granted.
LeaseInv ==
  \A w \in Workers : pc[w] # "idle" =>
    /\ wjob[w] \in Battles
    /\ wclaim[w] \in Claims
    /\ wclaim[w] <= attempts[wjob[w]]

\* A claim is a fencing token: two busy workers never hold the same one.
FenceInv ==
  \A v, w \in Workers :
    v # w /\ pc[v] # "idle" /\ pc[w] # "idle" /\ wjob[v] = wjob[w]
      => wclaim[v] # wclaim[w]

\* The rows of claims that were not granted yet are empty.
RowsInv ==
  \A b \in Battles, a \in Arms, c \in Claims, n \in Requests :
    c > attempts[b] => journal[b][a][c][n] = "none"

Open == {"request_started", "invalid_response", "uncertain_delivery"}

\* What a coroutine t knows about its row r.
TaskInv(t, r) ==
  /\ t.todo \subseteq t.ids
  /\ \A n \in t.ids : r[n] \in Billable
  /\ t.pc \in {"init", "ready", "sent", "mcp", "rejected"} => \A n \in t.ids : n < t.n
  /\ t.pc = "received" => \A n \in t.ids : n <= t.n
  /\ t.pc \in {"sent", "mcp", "rejected", "received"} => t.n \in Requests
  /\ t.pc = "sent" => r[t.n] = "request_started"
  /\ t.pc = "received" => r[t.n] = "response_received"
  /\ t.pc = "rejected" => r[t.n] \in SafeNoCost
  /\ t.pc \in {"init", "ready", "sent", "mcp", "rejected", "received"} =>
       /\ \A n \in Requests : n # t.n => r[n] \notin Open
       /\ t.reconciled /\ t.identified
  /\ t.pc \in {"init", "ready", "mcp"} => \A n \in Requests : r[n] \notin Open
  /\ t.pc \in {"accounting", "reconciling"} => t.ids # {}
  /\ t.pc = "accounting" /\ t.reconciled /\ t.identified =>
       \A n \in Requests : r[n] \in Unresolved => n \in t.todo
  /\ t.out = "result" => t.pc = "done"
  /\ t.out = "result" /\ t.reconciled => \A n \in Requests : r[n] \notin Unresolved

TasksInv ==
  \A w \in Workers, a \in Arms :
    /\ pc[w] # "gather" => task[w][a] = NewTask
    /\ pc[w] \notin {"idle", "gather"} =>
         \A n \in Requests : journal[wjob[w]][a][wclaim[w]][n] = "none"
    /\ pc[w] = "gather" => TaskInv(task[w][a], journal[wjob[w]][a][wclaim[w]])

-----------------------------------------------------------------------------
(***************************************************************************)
(* The arms.                                                               *)
(***************************************************************************)
\* Failing an arm at zero cost (_record_known_zero_cost) yields an arm.
LEMMA ZeroCostType ==
  ASSUME NEW x \in ArmRecord
  PROVE  failed_at_zero_cost(x) \in ArmRecord
  BY DEF ArmRecord, failed_at_zero_cost, known_zero_cost

\* Recording the outcome of a coroutine (_record_result) yields an arm.
LEMMA OutcomeType ==
  ASSUME NEW x \in ArmRecord, NEW t \in TaskRecord, NEW accepted \in BOOLEAN
  PROVE  record_outcome(x, t, accepted) \in ArmRecord
  BY DEF ArmRecord, TaskRecord, record_outcome

\* Closing an unbilled arm in the final transaction yields an arm.
LEMMA CloseType ==
  ASSUME NEW x \in ArmRecord, NEW J
  PROVE  close_unbilled(x, J) \in ArmRecord
  BY DEF ArmRecord, close_unbilled, known_zero_cost

\* Recovering an arm (recover_stale_jobs) yields an arm.
LEMMA RecoveredType ==
  ASSUME NEW x \in ArmRecord, NEW J
  PROVE  recovered_arm(x, J) \in ArmRecord
  BY DEF ArmRecord, recovered_arm, failed_at_zero_cost, known_zero_cost


-----------------------------------------------------------------------------
(***************************************************************************)
(* The worker's side of IInv, preserved by steps of four shapes.           *)
(***************************************************************************)
WorkerTypeOK ==
  /\ attempts \in [Battles -> 0..MaxClaims]
  /\ pc \in [Workers -> {"idle", "claimed", "preflight", "attesting", "recheck", "gather"}]
  /\ wjob \in [Workers -> Battles \cup {NoBattle}]
  /\ wclaim \in [Workers -> 0..MaxClaims]
  /\ task \in [Workers -> [Arms -> TaskRecord]]
  /\ journal \in [Battles -> [Arms -> [Claims -> Row]]]

WorkerInv == WorkerTypeOK /\ LeaseInv /\ FenceInv /\ RowsInv /\ TasksInv

\* A coroutine starts as a task record.
LEMMA NewTaskType == NewTask \in TaskRecord
  BY ConstantsOK DEF NewTask, TaskRecord, Requests

\* A coroutine that was not started agrees with an empty row.
LEMMA NewTaskInv ==
  ASSUME NEW r, \A n \in Requests : r[n] = "none"
  PROVE  TaskInv(NewTask, r)
  BY DEF TaskInv, NewTask, Open

\* A step of the database alone.
LEMMA DatabaseStep ==
  ASSUME WorkerInv, UNCHANGED <<attempts, journal, workers, task>>
  PROVE  WorkerInv'
<1>1. UNCHANGED <<attempts, journal, pc, wjob, wclaim, task>>
  BY DEF workers
<1>2. WorkerTypeOK'
  BY <1>1 DEF WorkerInv, WorkerTypeOK
<1>3. LeaseInv' /\ FenceInv' /\ RowsInv'
  BY <1>1 DEF WorkerInv, LeaseInv, FenceInv, RowsInv
<1>4. TasksInv'
  <2>1. \A w, a : TaskInv(task[w][a], journal[wjob[w]][a][wclaim[w]])' <=>
                 TaskInv(task[w][a], journal[wjob[w]][a][wclaim[w]])
    BY <1>1 DEF TaskInv
  <2>2. NewTask' = NewTask
    BY DEF NewTask
  <2> QED BY <1>1, <2>1, <2>2 DEF WorkerInv, TasksInv
<1> QED BY <1>2, <1>3, <1>4 DEF WorkerInv

\* A worker ends its job or dies.
LEMMA ReleaseStep ==
  ASSUME WorkerInv, NEW w \in Workers, Release(w), UNCHANGED <<attempts, journal>>
  PROVE  WorkerInv'
<1> USE DEF WorkerInv
<1>1. WorkerTypeOK'
  BY NewTaskType, ConstantsOK DEF WorkerTypeOK, Release
<1>2. LeaseInv'
  BY DEF LeaseInv, Release, WorkerTypeOK
<1>3. FenceInv'
  BY DEF FenceInv, Release, WorkerTypeOK
<1>4. RowsInv'
  BY DEF RowsInv
<1>5. TasksInv'
  <2> SUFFICES ASSUME NEW v \in Workers, NEW a \in Arms
      PROVE  TasksInv!(v, a)'
    BY DEF TasksInv
  <2>1. CASE v = w
    BY <2>1 DEF Release, WorkerTypeOK
  <2>2. CASE v # w
    <3>1. pc'[v] = pc[v] /\ wjob'[v] = wjob[v] /\ wclaim'[v] = wclaim[v] /\ task'[v] = task[v]
      BY <2>2 DEF Release, WorkerTypeOK
    <3> QED BY <3>1 DEF TasksInv
  <2> QED BY <2>1, <2>2
<1> QED BY <1>1, <1>2, <1>3, <1>4, <1>5

\* A worker goes on to the next transaction before the dispatch of its arms.
LEMMA GoToStep ==
  ASSUME WorkerInv, NEW w \in Workers, pc[w] \notin {"idle", "gather"},
         NEW label \in {"preflight", "attesting", "recheck", "gather"},
         GoTo(w, label), UNCHANGED <<attempts, journal>>
  PROVE  WorkerInv'
<1> USE DEF WorkerInv
<1>1. WorkerTypeOK'
  BY DEF WorkerTypeOK, GoTo
<1>2. LeaseInv'
  BY DEF LeaseInv, GoTo, WorkerTypeOK
<1>3. FenceInv'
  BY DEF FenceInv, GoTo, WorkerTypeOK
<1>4. RowsInv'
  BY DEF RowsInv
<1>5. TasksInv'
  <2> SUFFICES ASSUME NEW v \in Workers, NEW a \in Arms
      PROVE  TasksInv!(v, a)'
    BY DEF TasksInv
  <2>1. CASE v = w
    <3>1. /\ task[w][a] = NewTask
          /\ \A n \in Requests : journal[wjob[w]][a][wclaim[w]][n] = "none"
      BY DEF TasksInv
    <3>2. TaskInv(NewTask, journal[wjob[w]][a][wclaim[w]])
      BY <3>1, NewTaskInv
    <3> QED BY <2>1, <3>1, <3>2 DEF GoTo
  <2>2. CASE v # w
    <3>1. pc'[v] = pc[v]
      BY <2>2 DEF GoTo, WorkerTypeOK
    <3> QED BY <3>1 DEF TasksInv, GoTo
  <2> QED BY <2>1, <2>2
<1> QED BY <1>1, <1>2, <1>3, <1>4, <1>5

\* A coroutine moves on and rewrites its own row of the journal.
RowStep(w, a, t, r) ==
  /\ task' = [task EXCEPT ![w][a] = t]
  /\ journal' = [journal EXCEPT ![wjob[w]][a][wclaim[w]] = r]
  /\ UNCHANGED <<attempts, workers>>

\* Such a step preserves the worker's side and touches no other row.
LEMMA CoroutineStep ==
  ASSUME WorkerInv, NEW w \in Workers, NEW a \in Arms, pc[w] = "gather",
         NEW t \in TaskRecord, NEW r \in Row, TaskInv(t, r), RowStep(w, a, t, r)
  PROVE  /\ WorkerInv'
         /\ wjob[w] \in Battles /\ wclaim[w] \in Claims
         /\ journal'[wjob[w]][a][wclaim[w]] = r
         /\ \A b \in Battles, d \in Arms, c \in Claims :
              journal'[b][d][c] = journal[b][d][c] \/ (b = wjob[w] /\ d = a /\ c = wclaim[w])
<1> DEFINE b == wjob[w]
           c == wclaim[w]
<1>1. b \in Battles /\ c \in Claims /\ c <= attempts[b]
  BY DEF WorkerInv, LeaseInv
<1>2. /\ journal'[b][a][c] = r
      /\ \A e \in Battles, d \in Arms, k \in Claims :
           journal'[e][d][k] = journal[e][d][k] \/ (e = b /\ d = a /\ k = c)
  BY <1>1 DEF RowStep, WorkerInv, WorkerTypeOK
<1>3. /\ task'[w][a] = t
      /\ \A v \in Workers, d \in Arms : task'[v][d] = task[v][d] \/ (v = w /\ d = a)
  BY DEF RowStep, WorkerInv, WorkerTypeOK
<1>4. WorkerTypeOK'
  BY <1>1 DEF RowStep, WorkerInv, WorkerTypeOK, workers
<1>5. LeaseInv' /\ FenceInv'
  BY DEF RowStep, WorkerInv, LeaseInv, FenceInv, workers
<1>6. RowsInv'
  <2> SUFFICES ASSUME NEW e \in Battles, NEW d \in Arms, NEW k \in Claims, NEW n \in Requests,
                      k > attempts[e]
      PROVE  journal'[e][d][k][n] = "none"
    BY DEF RowsInv, RowStep
  <2>1. ~(e = b /\ k = c)
    BY <1>1, ConstantsOK DEF WorkerInv, WorkerTypeOK, Claims
  <2> QED BY <2>1, <1>2 DEF WorkerInv, RowsInv
<1>7. TasksInv'
  <2> SUFFICES ASSUME NEW v \in Workers, NEW d \in Arms
      PROVE  TasksInv!(v, d)'
    BY DEF TasksInv
  <2>1. CASE v = w /\ d = a
    BY <2>1, <1>2, <1>3 DEF RowStep, workers
  <2>2. CASE ~(v = w /\ d = a)
    <3>1. task'[v][d] = task[v][d] /\ pc' = pc /\ wjob' = wjob /\ wclaim' = wclaim
      BY <2>2, <1>3 DEF RowStep, workers
    <3>2. ASSUME pc[v] # "idle"
          PROVE  journal'[wjob[v]][d][wclaim[v]] = journal[wjob[v]][d][wclaim[v]]
      <4>1. wjob[v] \in Battles /\ wclaim[v] \in Claims
        BY <3>2 DEF WorkerInv, LeaseInv
      <4>2. ~(wjob[v] = b /\ d = a /\ wclaim[v] = c)
        BY <2>2, <3>2 DEF WorkerInv, FenceInv
      <4> QED BY <4>1, <4>2, <1>2
    <3>3. TasksInv!(v, d)
      BY DEF WorkerInv, TasksInv
    <3> QED BY <3>1, <3>2, <3>3
  <2> QED BY <2>1, <2>2
<1> QED BY <1>1, <1>2, <1>4, <1>5, <1>6, <1>7 DEF WorkerInv


-----------------------------------------------------------------------------
(***************************************************************************)
(* The steps of a coroutine.                                               *)
(***************************************************************************)
MyRow(w, a) == journal[wjob[w]][a][wclaim[w]]

\* What a coroutine may do to its row: only the holder of the lease adds
\* events that may cost money.
RowGrows(w, a, r) ==
  \A n \in Requests :
    /\ r[n] \in Billable => MyRow(w, a)[n] \in Billable \/ current_job_lease(w)
    /\ r[n] \in Unresolved => MyRow(w, a)[n] \in Unresolved \/ current_job_lease(w)

\* A running coroutine has a task and a row of the right type that agree.
LEMMA MyRowType ==
  ASSUME WorkerInv, NEW w \in Workers, NEW a \in Arms, pc[w] = "gather"
  PROVE  /\ wjob[w] \in Battles /\ wclaim[w] \in Claims
         /\ task[w][a] \in TaskRecord
         /\ MyRow(w, a) \in Row
         /\ TaskInv(task[w][a], MyRow(w, a))
         /\ journal = [journal EXCEPT ![wjob[w]][a][wclaim[w]] = MyRow(w, a)]
<1>1. wjob[w] \in Battles /\ wclaim[w] \in Claims
  BY DEF WorkerInv, LeaseInv
<1>2. task[w][a] \in TaskRecord /\ MyRow(w, a) \in Row
  BY <1>1 DEF WorkerInv, WorkerTypeOK, MyRow
<1>3. TaskInv(task[w][a], MyRow(w, a))
  BY DEF WorkerInv, TasksInv, MyRow
<1>4. journal = [journal EXCEPT ![wjob[w]][a][wclaim[w]] = MyRow(w, a)]
  BY <1>1 DEF WorkerInv, WorkerTypeOK, MyRow
<1> QED BY <1>1, <1>2, <1>3, <1>4

\* A coroutine that journals nothing.
LEMMA SilentStep ==
  ASSUME WorkerInv, NEW w \in Workers, NEW a \in Arms, pc[w] = "gather",
         NEW t \in TaskRecord, TaskInv(t, MyRow(w, a)),
         SetTask(w, a, t), UNCHANGED <<attempts, journal>>
  PROVE  \E u \in TaskRecord, r \in Row :
           TaskInv(u, r) /\ RowStep(w, a, u, r) /\ RowGrows(w, a, r)
<1>1. RowStep(w, a, t, MyRow(w, a)) /\ MyRow(w, a) \in Row
  BY MyRowType DEF RowStep, SetTask
<1>2. RowGrows(w, a, MyRow(w, a))
  BY DEF RowGrows
<1> QED BY <1>1, <1>2

\* A coroutine that journals the event e of its request n.
LEMMA PersistStep ==
  ASSUME WorkerInv, NEW w \in Workers, NEW a \in Arms, pc[w] = "gather",
         NEW t \in TaskRecord, NEW n \in Requests, NEW e \in Events,
         TaskInv(t, [MyRow(w, a) EXCEPT ![n] = e]),
         e \in Billable => MyRow(w, a)[n] \in Billable \/ current_job_lease(w),
         e \in Unresolved => MyRow(w, a)[n] \in Unresolved \/ current_job_lease(w),
         SetTask(w, a, t), Persist(w, a, n, e), UNCHANGED attempts
  PROVE  \E u \in TaskRecord, r \in Row :
           TaskInv(u, r) /\ RowStep(w, a, u, r) /\ RowGrows(w, a, r)
<1> DEFINE r == [MyRow(w, a) EXCEPT ![n] = e]
<1>1. r \in Row /\ MyRow(w, a) \in Row
  BY MyRowType DEF Row
<1>2. RowStep(w, a, t, r)
  BY DEF RowStep, SetTask, Persist, MyRow
<1>3. RowGrows(w, a, r)
  BY <1>1 DEF RowGrows, Row
<1> QED BY <1>1, <1>2, <1>3


\* Every step of a coroutine has that shape (GenerateArm also marks its arm).
LEMMA CoroutineShape ==
  ASSUME WorkerInv, NEW w \in Workers, NEW a \in Arms, GenerateStep(w, a)
  PROVE  /\ pc[w] = "gather"
         /\ \E u \in TaskRecord, r \in Row :
              TaskInv(u, r) /\ RowStep(w, a, u, r) /\ RowGrows(w, a, r)
<1> DEFINE t == task[w][a]
           R == MyRow(w, a)
           Goal == \E u \in TaskRecord, r \in Row :
                     TaskInv(u, r) /\ RowStep(w, a, u, r) /\ RowGrows(w, a, r)
<1>0. pc[w] = "gather"
  BY DEF GenerateStep, GenerateArm, StartRequest, RefuseRequest, StartMcp, EndMcp,
         ResponseReceived, RequestNotAccepted, AfterRejection, RequestFails,
         AfterResponse, GenerationCost, AfterAccounting, HandleProviderError,
         FailureReconciled, At
<1>t. t \in TaskRecord /\ R \in Row /\ TaskInv(t, R)
  BY <1>0, MyRowType
<1> SUFFICES Goal
  BY <1>0
<1> HIDE DEF Goal
<1>silent. ASSUME NEW u \in TaskRecord, TaskInv(u, R), SetTask(w, a, u),
                  UNCHANGED <<attempts, journal>>
           PROVE  Goal
  BY <1>0, <1>silent, SilentStep DEF Goal
<1>persist. ASSUME NEW u \in TaskRecord, NEW n \in Requests, NEW e \in Events,
                   TaskInv(u, [R EXCEPT ![n] = e]),
                   e \in Billable => R[n] \in Billable \/ current_job_lease(w),
                   e \in Unresolved => R[n] \in Unresolved \/ current_job_lease(w),
                   SetTask(w, a, u), Persist(w, a, n, e), UNCHANGED attempts
            PROVE  Goal
  BY <1>0, <1>persist, PersistStep DEF Goal
<1> HIDE DEF t, R
<1> DEFINE failing == [t EXCEPT !.pc = "failing", !.out = "error"]
           dead == [t EXCEPT !.pc = "done", !.out = "error"]
           next == [t EXCEPT !.pc = "ready", !.n = @ + 1, !.try = 0]
<1>f. ASSUME t.pc \in {"ready", "mcp", "rejected", "received", "accounting"}
      PROVE  failing \in TaskRecord /\ TaskInv(failing, R)
  BY <1>t, <1>f DEF TaskInv, TaskRecord
<1>d. dead \in TaskRecord /\ TaskInv(dead, R)
  BY <1>t DEF TaskInv, TaskRecord
<1>n. ASSUME t.pc \in {"mcp", "received"}
      PROVE  next \in TaskRecord /\ TaskInv(next, R)
  <2>1. t.n \in Nat /\ t.n + 1 \in 1..(MaxRequests + 1) /\ t.n \in Requests
    BY <1>t, <1>n, ConstantsOK DEF TaskInv, TaskRecord, Requests
  <2>0. 0 \in 0..MaxProviderAttempts
    BY ConstantsOK
  <2>2. next \in TaskRecord
    BY <1>t, <2>0, <2>1 DEF TaskRecord
  <2>3. \A m \in t.ids : m < t.n + 1
    BY <1>t, <1>n, <2>1 DEF TaskInv, TaskRecord, Requests
  <2>4. \A m \in Requests : R[m] \notin Open
    BY <1>t, <1>n DEF TaskInv, Open
  <2>5. TaskInv(next, R)
    BY <1>t, <1>n, <2>3, <2>4 DEF TaskInv, TaskRecord
  <2> QED BY <2>2, <2>5
<1>1. CASE GenerateArm(w, a)
  <2> DEFINE u == [t EXCEPT !.pc = "ready"]
  <2>1. t.pc = "init" /\ UNCHANGED <<attempts, journal>>
    BY <1>1 DEF GenerateArm, At, jobvars, t
  <2>2. u \in TaskRecord /\ TaskInv(u, R)
    BY <1>t, <2>1 DEF TaskInv, TaskRecord
  <2>3. SetTask(w, a, u) \/ SetTask(w, a, dead)
    BY <1>1 DEF GenerateArm, t
  <2> HIDE DEF u, dead
  <2> QED BY <2>1, <2>2, <2>3, <1>d, <1>silent
<1>2. CASE StartRequest(w, a)
  <2> DEFINE u == [t EXCEPT !.pc = "sent"]
  <2>1. /\ t.pc = "ready" /\ t.n \in Requests /\ current_job_lease(w)
        /\ SetTask(w, a, u) /\ Persist(w, a, t.n, "request_started") /\ UNCHANGED attempts
    BY <1>2 DEF StartRequest, At, TaskOnly, jobvars, t
  <2>2. u \in TaskRecord /\ TaskInv(u, [R EXCEPT ![t.n] = "request_started"])
    BY <1>t, <2>1 DEF TaskInv, TaskRecord, Row, Billable, Unresolved
  <2>3. "request_started" \in Events
    BY DEF Events, Unresolved
  <2> HIDE DEF u
  <2> QED BY <2>1, <2>2, <2>3, <1>persist
<1>3. CASE RefuseRequest(w, a)
  <2>1. t.pc = "ready" /\ SetTask(w, a, failing) /\ UNCHANGED <<attempts, journal>>
    BY <1>3 DEF RefuseRequest, At, TaskOnly, jobvars, t
  <2> HIDE DEF failing
  <2> QED BY <2>1, <1>f, <1>silent
<1>4. CASE StartMcp(w, a)
  <2> DEFINE u == [t EXCEPT !.pc = "mcp"]
  <2>1. /\ t.pc = "ready" /\ t.n \in Requests /\ current_job_lease(w)
        /\ SetTask(w, a, u) /\ Persist(w, a, t.n, "mcp") /\ UNCHANGED attempts
    BY <1>4 DEF StartMcp, At, TaskOnly, jobvars, t
  <2>2. t.n \notin t.ids
    BY <1>t, <2>1 DEF TaskInv, TaskRecord, Requests
  <2>3. u \in TaskRecord /\ TaskInv(u, [R EXCEPT ![t.n] = "mcp"])
    BY <1>t, <2>1, <2>2 DEF TaskInv, TaskRecord, Row, Open
  <2>4. "mcp" \in Events
    BY DEF Events
  <2> HIDE DEF u
  <2> QED BY <2>1, <2>3, <2>4, <1>persist
<1>5. CASE EndMcp(w, a)
  <2>1. t.pc = "mcp" /\ UNCHANGED <<attempts, journal>>
    BY <1>5 DEF EndMcp, At, TaskOnly, jobvars, t
  <2>2. SetTask(w, a, next) \/ SetTask(w, a, failing) \/ SetTask(w, a, dead)
    BY <1>5 DEF EndMcp, t
  <2> HIDE DEF next, failing, dead
  <2> QED BY <2>1, <2>2, <1>n, <1>f, <1>d, <1>silent
<1>6. CASE ResponseReceived(w, a)
  <2>1. /\ t.pc = "sent" /\ Persist(w, a, t.n, "response_received") /\ UNCHANGED attempts
        /\ \E ids \in {t.ids, t.ids \cup {t.n}} :
             SetTask(w, a, [t EXCEPT !.pc = "received", !.ids = ids])
    BY <1>6 DEF ResponseReceived, At, TaskOnly, jobvars, t
  <2> PICK ids \in {t.ids, t.ids \cup {t.n}} :
             SetTask(w, a, [t EXCEPT !.pc = "received", !.ids = ids])
    BY <2>1
  <2> DEFINE u == [t EXCEPT !.pc = "received", !.ids = ids]
  <2>2. t.n \in Requests /\ R[t.n] = "request_started" /\ ids \subseteq Requests
    BY <1>t, <2>1 DEF TaskInv, TaskRecord
  <2>3. \A m \in ids : m <= t.n
    BY <1>t, <2>1, <2>2 DEF TaskInv, TaskRecord, Requests
  <2>4. u \in TaskRecord /\ TaskInv(u, [R EXCEPT ![t.n] = "response_received"])
    BY <1>t, <2>1, <2>2, <2>3 DEF TaskInv, TaskRecord, Row, Billable, Unresolved, Open
  <2>5. "response_received" \in Events /\ R[t.n] \in Billable /\ R[t.n] \in Unresolved
    BY <2>2 DEF Events, Unresolved, Billable
  <2> HIDE DEF u
  <2> QED BY <2>1, <2>2, <2>4, <2>5, <1>persist DEF u
<1>7. CASE RequestNotAccepted(w, a)
  <2> DEFINE u == [t EXCEPT !.pc = "rejected"]
  <2>1. /\ t.pc = "sent" /\ UNCHANGED attempts /\ SetTask(w, a, u)
        /\ \E event \in {"request_rejected", "pre_send_failure"} : Persist(w, a, t.n, event)
    BY <1>7 DEF RequestNotAccepted, At, TaskOnly, jobvars, t
  <2> PICK event \in {"request_rejected", "pre_send_failure"} : Persist(w, a, t.n, event)
    BY <2>1
  <2>2. t.n \in Requests /\ t.n \notin t.ids
    BY <1>t, <2>1 DEF TaskInv, TaskRecord, Requests
  <2>3. u \in TaskRecord /\ TaskInv(u, [R EXCEPT ![t.n] = event])
    BY <1>t, <2>1, <2>2 DEF TaskInv, TaskRecord, Row, SafeNoCost, Open
  <2>4. event \in Events /\ event \notin Billable /\ event \notin Unresolved
    BY DEF Events, SafeNoCost, Unresolved, Billable, Accounting
  <2> HIDE DEF u
  <2> QED BY <2>1, <2>2, <2>3, <2>4, <1>persist
<1>8. CASE AfterRejection(w, a)
  <2> DEFINE u == [t EXCEPT !.pc = "ready", !.n = @ + 1, !.try = @ + 1]
  <2>1. /\ t.pc = "rejected" /\ UNCHANGED attempts
        /\ \/ /\ ~(t.try + 1 >= MaxProviderAttempts)
              /\ Persist(w, a, t.n, "retry_scheduled") /\ SetTask(w, a, u)
           \/ SetTask(w, a, failing) /\ UNCHANGED journal
    BY <1>8 DEF AfterRejection, At, TaskOnly, jobvars, t
  <2>2. CASE SetTask(w, a, failing) /\ UNCHANGED journal
    <3> HIDE DEF failing
    <3> QED BY <2>1, <2>2, <1>f, <1>silent
  <2>3. CASE /\ ~(t.try + 1 >= MaxProviderAttempts)
             /\ Persist(w, a, t.n, "retry_scheduled") /\ SetTask(w, a, u)
    <3>1. t.n \in Requests /\ t.n \notin t.ids
      BY <1>t, <2>1 DEF TaskInv, TaskRecord, Requests
    <3>2. t.n + 1 \in 1..(MaxRequests + 1) /\ t.try + 1 \in 0..MaxProviderAttempts
      BY <1>t, <2>3, <3>1, ConstantsOK DEF TaskRecord, Requests
    <3>3. u \in TaskRecord
      BY <1>t, <3>2 DEF TaskRecord
    <3>4. \A m \in t.ids : m < t.n + 1
      BY <1>t, <2>1, <3>1 DEF TaskInv, TaskRecord, Requests
    <3>5. TaskInv(u, [R EXCEPT ![t.n] = "retry_scheduled"])
      BY <1>t, <2>1, <3>1, <3>4 DEF TaskInv, TaskRecord, Row, Open
    <3>6. /\ "retry_scheduled" \in Events /\ "retry_scheduled" \notin Billable
          /\ "retry_scheduled" \notin Unresolved
      BY DEF Events, SafeNoCost, Unresolved, Billable, Accounting
    <3> HIDE DEF u
    <3> QED BY <2>1, <2>3, <3>1, <3>3, <3>5, <3>6, <1>persist
  <2> QED BY <2>1, <2>2, <2>3
<1>9. CASE RequestFails(w, a)
  <2>1. t.pc = "sent" /\ UNCHANGED attempts
    BY <1>9 DEF RequestFails, At, TaskOnly, jobvars, t
  <2>2. /\ t.n \in Requests /\ R[t.n] \in Billable /\ R[t.n] \in Unresolved
        /\ t.n \notin t.ids
    BY <1>t, <2>1 DEF TaskInv, TaskRecord, Requests, Billable, Unresolved
  <2>3. ASSUME NEW e \in {"uncertain_delivery", "invalid_response"},
               NEW out \in {"uncertain", "error"},
               Persist(w, a, t.n, e),
               SetTask(w, a, [t EXCEPT !.pc = "failing", !.out = out])
        PROVE  Goal
    <3> DEFINE u == [t EXCEPT !.pc = "failing", !.out = out]
    <3>1. u \in TaskRecord /\ TaskInv(u, [R EXCEPT ![t.n] = e])
      BY <1>t, <2>1, <2>2 DEF TaskInv, TaskRecord, Row
    <3>2. e \in Events
      BY DEF Events, Unresolved
    <3> HIDE DEF u
    <3> QED BY <2>1, <2>2, <2>3, <3>1, <3>2, <1>persist DEF u
  <2>4. CASE SetTask(w, a, dead) /\ UNCHANGED journal
    <3> HIDE DEF dead
    <3> QED BY <2>1, <2>4, <1>d, <1>silent
  <2> QED BY <1>9, <2>3, <2>4 DEF RequestFails, t
<1>10. CASE AfterResponse(w, a)
  <2> DEFINE u == [t EXCEPT !.pc = "accounting", !.todo = t.ids]
             complete == \A n \in Requests : R[n] = "response_received" => n \in t.ids
  <2>1. t.pc = "received" /\ UNCHANGED attempts
    BY <1>10 DEF AfterResponse, At, TaskOnly, jobvars, t
  <2>2. /\ t.n \in Requests /\ R[t.n] = "response_received"
        /\ R[t.n] \in Billable /\ R[t.n] \in Unresolved
    BY <1>t, <2>1 DEF TaskInv, Billable, Unresolved
  <2>3. \/ SetTask(w, a, next) /\ UNCHANGED journal
        \/ complete /\ SetTask(w, a, u) /\ UNCHANGED journal
        \/ Persist(w, a, t.n, "invalid_response") /\ SetTask(w, a, failing)
        \/ SetTask(w, a, failing) /\ UNCHANGED journal
        \/ SetTask(w, a, dead) /\ UNCHANGED journal
    BY <1>10 DEF AfterResponse, t, R, MyRow
  <2>4. CASE complete /\ SetTask(w, a, u) /\ UNCHANGED journal
    <3>1. u \in TaskRecord
      BY <1>t DEF TaskRecord
    <3>2. t.ids # {}
      BY <2>2, <2>4
    <3>3. \A n \in Requests : R[n] \in Unresolved => n \in t.ids
      BY <1>t, <2>1, <2>2, <2>4 DEF TaskInv, Unresolved, Open
    <3>4. TaskInv(u, R)
      BY <1>t, <2>1, <3>2, <3>3 DEF TaskInv, TaskRecord
    <3> HIDE DEF u
    <3> QED BY <2>1, <2>4, <3>1, <3>4, <1>silent
  <2>5. CASE Persist(w, a, t.n, "invalid_response") /\ SetTask(w, a, failing)
    <3>1. TaskInv(failing, [R EXCEPT ![t.n] = "invalid_response"])
      BY <1>t, <2>1, <2>2 DEF TaskInv, TaskRecord, Row, Billable, Unresolved
    <3>2. failing \in TaskRecord /\ "invalid_response" \in Events
      BY <1>f, <2>1 DEF Events, Unresolved
    <3> HIDE DEF failing
    <3> QED BY <2>1, <2>2, <2>5, <3>1, <3>2, <1>persist
  <2> HIDE DEF u, next, failing, dead
  <2>6. CASE SetTask(w, a, next) /\ UNCHANGED journal
    BY <2>1, <2>6, <1>n, <1>silent
  <2>7. CASE SetTask(w, a, failing) /\ UNCHANGED journal
    BY <2>1, <2>7, <1>f, <1>silent
  <2>8. CASE SetTask(w, a, dead) /\ UNCHANGED journal
    BY <2>1, <2>8, <1>d, <1>silent
  <2> QED BY <2>3, <2>4, <2>5, <2>6, <2>7, <2>8
<1>11. CASE GenerationCost(w, a)
  <2>1. t.pc \in {"accounting", "reconciling"} /\ UNCHANGED attempts
    BY <1>11 DEF GenerationCost, TaskOnly, jobvars, t
  <2> DEFINE rest(n) == [t EXCEPT !.todo = @ \ {n}]
             unpriced(n) == [rest(n) EXCEPT !.reconciled = FALSE]
             unnamed(n) == [rest(n) EXCEPT !.identified = FALSE]
  <2>2. PICK n \in t.todo :
          \/ Persist(w, a, n, "accounting_reconciled") /\ SetTask(w, a, rest(n))
          \/ Persist(w, a, n, "accounting_unreconciled") /\ SetTask(w, a, unpriced(n))
          \/ SetTask(w, a, unnamed(n)) /\ UNCHANGED journal
          \/ SetTask(w, a, unpriced(n)) /\ UNCHANGED journal
    BY <1>11 DEF GenerationCost, t
  <2>3. n \in Requests /\ R[n] \in Billable
    BY <1>t DEF TaskInv, TaskRecord
  <2>4. ASSUME NEW e \in Accounting
        PROVE  e \in Events /\ e \in Billable /\ e \notin Unresolved
    BY DEF Events, Billable, Accounting, Unresolved
  <2>5. /\ rest(n) \in TaskRecord
        /\ TaskInv(rest(n), [R EXCEPT ![n] = "accounting_reconciled"])
    BY <1>t, <2>1, <2>3, <2>4 DEF TaskInv, TaskRecord, Row, Accounting
  <2>6. /\ unpriced(n) \in TaskRecord /\ TaskInv(unpriced(n), R)
        /\ TaskInv(unpriced(n), [R EXCEPT ![n] = "accounting_unreconciled"])
    BY <1>t, <2>1, <2>3, <2>4 DEF TaskInv, TaskRecord, Row, Accounting
  <2>7. unnamed(n) \in TaskRecord /\ TaskInv(unnamed(n), R)
    BY <1>t, <2>1 DEF TaskInv, TaskRecord
  <2> HIDE DEF rest, unpriced, unnamed
  <2>8. CASE Persist(w, a, n, "accounting_reconciled") /\ SetTask(w, a, rest(n))
    BY <2>1, <2>3, <2>4, <2>5, <2>8, <1>persist DEF Accounting
  <2>9. CASE Persist(w, a, n, "accounting_unreconciled") /\ SetTask(w, a, unpriced(n))
    BY <2>1, <2>3, <2>4, <2>6, <2>9, <1>persist DEF Accounting
  <2>10. CASE SetTask(w, a, unnamed(n)) /\ UNCHANGED journal
    BY <2>1, <2>7, <2>10, <1>silent
  <2>11. CASE SetTask(w, a, unpriced(n)) /\ UNCHANGED journal
    BY <2>1, <2>6, <2>11, <1>silent
  <2> QED BY <2>2, <2>8, <2>9, <2>10, <2>11
<1>12. CASE AfterAccounting(w, a)
  <2> DEFINE u == [t EXCEPT !.pc = "done", !.out = "result"]
  <2>1. t.pc = "accounting" /\ t.todo = {} /\ UNCHANGED <<attempts, journal>>
    BY <1>12 DEF AfterAccounting, At, TaskOnly, jobvars, t
  <2>2. (t.identified /\ SetTask(w, a, u)) \/ SetTask(w, a, failing)
    BY <1>12 DEF AfterAccounting, t
  <2>3. ASSUME t.identified
        PROVE  u \in TaskRecord /\ TaskInv(u, R)
    BY <1>t, <2>1, <2>3 DEF TaskInv, TaskRecord
  <2> HIDE DEF u, failing
  <2> QED BY <2>1, <2>2, <2>3, <1>f, <1>silent
<1>13. CASE HandleProviderError(w, a)
  <2> DEFINE u == [t EXCEPT !.pc = "done"]
             v == [t EXCEPT !.pc = "reconciling", !.todo = t.ids,
                            !.reconciled = TRUE, !.identified = TRUE]
             x == [t EXCEPT !.pc = "done", !.out = "uncertain"]
  <2>1. t.pc = "failing" /\ UNCHANGED <<attempts, journal>>
    BY <1>13 DEF HandleProviderError, At, TaskOnly, jobvars, t
  <2>2. SetTask(w, a, u) \/ (t.ids # {} /\ SetTask(w, a, v)) \/ SetTask(w, a, x)
    BY <1>13 DEF HandleProviderError, t
  <2>3. u \in TaskRecord /\ TaskInv(u, R) /\ x \in TaskRecord /\ TaskInv(x, R)
    BY <1>t, <2>1 DEF TaskInv, TaskRecord
  <2>4. ASSUME t.ids # {} PROVE v \in TaskRecord /\ TaskInv(v, R)
    BY <1>t, <2>1, <2>4 DEF TaskInv, TaskRecord
  <2> HIDE DEF u, v, x
  <2> QED BY <2>1, <2>2, <2>3, <2>4, <1>silent
<1>14. CASE FailureReconciled(w, a)
  <2> DEFINE u == [t EXCEPT !.pc = "done", !.out = "failure"]
  <2>1. t.pc = "reconciling" /\ SetTask(w, a, u) /\ UNCHANGED <<attempts, journal>>
    BY <1>14 DEF FailureReconciled, At, TaskOnly, jobvars, t
  <2>2. u \in TaskRecord /\ TaskInv(u, R)
    BY <1>t, <2>1 DEF TaskInv, TaskRecord
  <2> HIDE DEF u
  <2> QED BY <2>1, <2>2, <1>silent
<1> QED
  BY <1>1, <1>2, <1>3, <1>4, <1>5, <1>6, <1>7, <1>8, <1>9, <1>10, <1>11, <1>12, <1>13, <1>14
     DEF GenerateStep

-----------------------------------------------------------------------------
(***************************************************************************)
(* The database's side of IInv.                                            *)
(***************************************************************************)
JobTypeOK ==
  /\ run \in {"active", "revoking", "collection_complete", "closed", "revoked"}
  /\ season \in {"active", "cost_halted"}
  /\ jstatus \in [Battles -> JobStatus]
  /\ owner \in [Battles -> Workers \cup {NoWorker}]
  /\ stale \in [Battles -> BOOLEAN]
  /\ bstatus \in [Battles -> {"absent", "queued", "running", "complete", "failed"}]
  /\ arm \in [Battles -> [Arms -> ArmRecord]]
  /\ settled \in [Battles -> BOOLEAN]

\* A battle that was not created has no claims.
AbsentInv == \A b \in Battles : jstatus[b] = "absent" => attempts[b] = 0

\* The reservation of a battle and its job; SettledOnEvidence has the arms.
ReservationHolds ==
  \A b \in Battles : settled[b] <=> jstatus[b] \in {"complete", "failed"}

IInv ==
  /\ WorkerInv
  /\ JobTypeOK
  /\ AbsentInv
  /\ NoReplayOfBillableWork
  /\ ReservationHolds
  /\ SettledOnEvidence

\* The type invariant is the union of the worker's and the database's.
LEMMA TypeSplit == TypeOK <=> WorkerTypeOK /\ JobTypeOK
  BY DEF TypeOK, WorkerTypeOK, JobTypeOK, Row

\* A settlement leaves the season active or halted.
LEMMA SeasonType ==
  ASSUME season \in {"active", "cost_halted"}, NEW S, NEW A
  PROVE  SeasonAfterSettling(S, A) \subseteq {"active", "cost_halted"}
  BY DEF SeasonAfterSettling

\* A step that leaves the journal alone requeues only what was never billable.
LEMMA RequeueStep ==
  ASSUME NoReplayOfBillableWork, UNCHANGED <<attempts, journal>>,
         \A b \in Battles : jstatus'[b] = "queued" =>
           \/ jstatus[b] = "queued"
           \/ \A a \in Arms, c \in Claims, n \in Requests : journal[b][a][c][n] \notin Billable
  PROVE  NoReplayOfBillableWork'
  BY DEF NoReplayOfBillableWork

\* Every battle is left alone, or left unsettled, or settled on evidence.
LEMMA SettlingStep ==
  ASSUME ReservationHolds, SettledOnEvidence, UNCHANGED journal,
         \A b \in Battles :
           \/ settled'[b] = settled[b] /\ arm'[b] = arm[b] /\ jstatus'[b] = jstatus[b]
           \/ ~settled'[b] /\ jstatus'[b] \notin {"complete", "failed"}
           \/ /\ settled'[b] /\ jstatus'[b] \in {"complete", "failed"}
              /\ settle_battle_budget_accepts(b, arm'[b])
  PROVE  ReservationHolds' /\ SettledOnEvidence'
<1>1. ReservationHolds'
  BY DEF ReservationHolds
<1>2. SettledOnEvidence'
  <2> SUFFICES ASSUME NEW b \in Battles, settled'[b], NEW a \in Arms
      PROVE  /\ arm'[b][a].status \in {"complete", "failed"}
             /\ arm'[b][a].reconciled
             /\ arm'[b][a].manual \/ ~HasEvent(journal[b][a], Unresolved)
    BY DEF SettledOnEvidence, HasEvent
  <2>1. CASE settled[b] /\ arm'[b] = arm[b]
    BY <2>1 DEF SettledOnEvidence
  <2>2. CASE settle_battle_budget_accepts(b, arm'[b])
    BY <2>2 DEF settle_battle_budget_accepts, unresolved_evidence, HasEvent, Exposed
  <2> QED BY <2>1, <2>2
<1> QED BY <1>1, <1>2


-----------------------------------------------------------------------------
(***************************************************************************)
(* Every action preserves IInv.                                            *)
(***************************************************************************)
\* The admission of a battle (create_battle) preserves IInv.
LEMMA CreateInv ==
  ASSUME IInv, NEW b \in Battles, create_battle(b)
  PROVE  IInv'
<1> USE DEF IInv
<1>1. WorkerInv'
  BY DatabaseStep DEF create_battle
<1>2. JobTypeOK' /\ AbsentInv'
  BY DEF create_battle, authority, JobTypeOK, AbsentInv, JobStatus
<1>3. \A a \in Arms, c \in Claims, n \in Requests : journal[b][a][c][n] = "none"
  <2>1. attempts[b] = 0
    BY DEF create_battle, AbsentInv
  <2> QED BY <2>1 DEF WorkerInv, RowsInv, Claims
<1>4. NoReplayOfBillableWork'
  <2>1. \A e \in Battles : e # b => jstatus'[e] = jstatus[e]
    BY DEF create_battle, JobTypeOK
  <2>2. \A a \in Arms, c \in Claims, n \in Requests : journal[b][a][c][n] \notin Billable
    BY <1>3 DEF Billable, Unresolved, Accounting
  <2> QED BY <2>1, <2>2, RequeueStep DEF create_battle
<1>5. ReservationHolds' /\ SettledOnEvidence'
  <2>1. \A e \in Battles :
          \/ settled'[e] = settled[e] /\ arm'[e] = arm[e] /\ jstatus'[e] = jstatus[e]
          \/ ~settled'[e] /\ jstatus'[e] \notin {"complete", "failed"}
    BY DEF create_battle, JobTypeOK, ReservationHolds
  <2> QED BY <2>1, SettlingStep DEF create_battle
<1> QED BY <1>1, <1>2, <1>4, <1>5

\* A claim (claim_job) preserves IInv: its fencing token is new.
LEMMA ClaimInv ==
  ASSUME IInv, NEW w \in Workers, NEW b \in Battles, claim_job(w, b)
  PROVE  IInv'
<1> USE DEF IInv
<1> DEFINE k == attempts[b] + 1
<1>1. /\ attempts \in [Battles -> 0..MaxClaims] /\ MaxClaims \in Nat
      /\ k \in Claims /\ attempts' = [attempts EXCEPT ![b] = k]
      /\ attempts[b] \in Nat
  BY ConstantsOK DEF claim_job, WorkerInv, WorkerTypeOK, Claims
<1>2. /\ \A e \in Battles : attempts[e] \in Nat /\ attempts'[e] \in Nat /\ attempts[e] <= attempts'[e]
      /\ \A e \in Battles : e # b => attempts'[e] = attempts[e]
      /\ attempts'[b] = k
  BY <1>1
<1>3. /\ pc' = [pc EXCEPT ![w] = "claimed"] /\ wjob' = [wjob EXCEPT ![w] = b]
      /\ wclaim' = [wclaim EXCEPT ![w] = k] /\ task' = task /\ journal' = journal
      /\ pc[w] = "idle"
  BY DEF claim_job
<1>4. \A v \in Workers : v # w =>
        pc'[v] = pc[v] /\ wjob'[v] = wjob[v] /\ wclaim'[v] = wclaim[v]
  BY <1>3 DEF WorkerInv, WorkerTypeOK
<1>5. pc'[w] = "claimed" /\ wjob'[w] = b /\ wclaim'[w] = k
  BY <1>3 DEF WorkerInv, WorkerTypeOK
<1>6. WorkerTypeOK'
  <2>1. k \in 0..MaxClaims
    BY <1>1 DEF Claims
  <2> HIDE DEF k
  <2> QED BY <1>1, <1>3, <2>1 DEF WorkerInv, WorkerTypeOK
<1>7. LeaseInv'
  <2> SUFFICES ASSUME NEW v \in Workers, pc'[v] # "idle"
      PROVE  wjob'[v] \in Battles /\ wclaim'[v] \in Claims /\ wclaim'[v] <= attempts'[wjob'[v]]
    BY DEF LeaseInv
  <2>1. CASE v = w
    BY <1>1, <1>2, <1>5, <2>1
  <2>2. CASE v # w
    <3>1. wjob[v] \in Battles /\ wclaim[v] \in Claims /\ wclaim[v] <= attempts[wjob[v]]
      BY <1>4, <2>2 DEF WorkerInv, LeaseInv
    <3> QED BY <3>1, <1>2, <1>4, <2>2 DEF Claims
  <2> QED BY <2>1, <2>2
<1>8. FenceInv'
  <2>1. \A v \in Workers : pc[v] # "idle" /\ wjob[v] = b => wclaim[v] # k
    BY <1>1 DEF WorkerInv, LeaseInv, Claims
  <2> QED BY <2>1, <1>4, <1>5 DEF WorkerInv, FenceInv
<1>9. RowsInv'
  <2> SUFFICES ASSUME NEW e \in Battles, NEW a \in Arms, NEW c \in Claims, NEW n \in Requests,
                      c > attempts'[e]
      PROVE  journal[e][a][c][n] = "none"
    BY <1>3 DEF RowsInv
  <2>1. c > attempts[e]
    BY <1>1, <1>2 DEF Claims
  <2> QED BY <2>1 DEF WorkerInv, RowsInv
<1>10. TasksInv'
  <2> SUFFICES ASSUME NEW v \in Workers, NEW a \in Arms
      PROVE  TasksInv!(v, a)'
    BY DEF TasksInv
  <2>1. CASE v = w
    <3>1. task[w][a] = NewTask
      BY <1>3 DEF WorkerInv, TasksInv
    <3>2. \A n \in Requests : journal[b][a][k][n] = "none"
      BY <1>1 DEF WorkerInv, RowsInv
    <3> HIDE DEF k
    <3> QED BY <2>1, <3>1, <3>2, <1>3, <1>5
  <2>2. CASE v # w
    BY <2>2, <1>3, <1>4 DEF WorkerInv, TasksInv
  <2> QED BY <2>1, <2>2
<1>11. JobTypeOK' /\ AbsentInv'
  <2>1. JobTypeOK'
    BY DEF claim_job, JobTypeOK, JobStatus, authority, evidence
  <2>2. AbsentInv'
    BY <1>2 DEF claim_job, JobTypeOK, AbsentInv
  <2> QED BY <2>1, <2>2
<1>12. NoReplayOfBillableWork'
  <2> SUFFICES ASSUME NEW e \in Battles, NEW c \in Claims, NEW a \in Arms, NEW n \in Requests,
                      journal[e][a][c][n] \in Billable
      PROVE  attempts'[e] = c /\ jstatus'[e] # "queued"
    BY <1>3 DEF NoReplayOfBillableWork
  <2>1. attempts[e] = c /\ jstatus[e] # "queued"
    BY DEF NoReplayOfBillableWork
  <2>2. e # b /\ jstatus'[e] = jstatus[e]
    BY <2>1 DEF claim_job, JobTypeOK
  <2> QED BY <2>1, <2>2, <1>2
<1>13. ReservationHolds' /\ SettledOnEvidence'
  <2>1. \A e \in Battles :
          \/ settled'[e] = settled[e] /\ arm'[e] = arm[e] /\ jstatus'[e] = jstatus[e]
          \/ ~settled'[e] /\ jstatus'[e] \notin {"complete", "failed"}
    BY DEF claim_job, JobTypeOK, ReservationHolds, evidence
  <2> QED BY <2>1, <1>3, SettlingStep
<1> QED BY <1>6, <1>7, <1>8, <1>9, <1>10, <1>11, <1>12, <1>13 DEF WorkerInv


\* A step that changes no more than stale, run, bstatus and a worker's place.
LEMMA QuietStep ==
  ASSUME IInv, WorkerInv', UNCHANGED <<season, jstatus, attempts, owner, arm, settled, journal>>,
         run' \in {"active", "revoking", "collection_complete", "closed", "revoked"},
         stale' \in [Battles -> BOOLEAN],
         bstatus' \in [Battles -> {"absent", "queued", "running", "complete", "failed"}]
  PROVE  IInv'
<1> USE DEF IInv
<1>1. JobTypeOK' /\ AbsentInv'
  BY DEF JobTypeOK, AbsentInv
<1>2. NoReplayOfBillableWork'
  BY DEF NoReplayOfBillableWork
<1>3. ReservationHolds' /\ SettledOnEvidence'
  BY SettlingStep
<1> QED BY <1>1, <1>2, <1>3

\* The ageing and the renewal of a lease preserve IInv.
LEMMA LeaseAgeInv ==
  ASSUME IInv, \/ \E b \in Battles : LeaseExpires(b)
               \/ \E w \in Workers, a \in Arms : heartbeat_generation_job(w, a)
  PROVE  IInv'
<1>1. /\ UNCHANGED <<authority, jstatus, attempts, owner, evidence, journal, workers, task>>
      /\ \E b : \E value \in BOOLEAN : stale' = [stale EXCEPT ![b] = value]
  BY DEF LeaseExpires, heartbeat_generation_job
<1>2. stale' \in [Battles -> BOOLEAN]
  BY <1>1 DEF IInv, JobTypeOK
<1>3. WorkerInv'
  BY <1>1, DatabaseStep DEF IInv
<1> QED BY <1>1, <1>2, <1>3, QuietStep DEF IInv, JobTypeOK, authority, evidence

\* A crash and the loss of a lease before the dispatch preserve IInv.
LEMMA CrashInv ==
  ASSUME IInv, NEW w \in Workers, WorkerCrashes(w) \/ LeaseLost(w)
  PROVE  IInv'
<1>1. Release(w) /\ UNCHANGED <<authority, jobvars, evidence, journal>>
  BY DEF WorkerCrashes, LeaseLost
<1>2. WorkerInv'
  BY <1>1, ReleaseStep DEF IInv, jobvars
<1> QED BY <1>1, <1>2, QuietStep DEF IInv, JobTypeOK, authority, evidence, jobvars

\* The steps that change the status of the run alone preserve IInv.
LEMMA RunLifecycleInv ==
  ASSUME IInv, run' \in {"active", "revoking", "collection_complete", "closed", "revoked"},
         UNCHANGED <<season, jobvars, evidence, journal, workers, task>>
  PROVE  IInv'
<1>1. WorkerInv'
  BY DatabaseStep DEF IInv, jobvars
<1> QED BY <1>1, QuietStep DEF IInv, JobTypeOK, evidence, jobvars

\* The transactions before the dispatch that go on preserve IInv.
LEMMA BeforeDispatchInv ==
  ASSUME IInv, NEW w \in Workers,
         \/ BeginGeneration(w) \/ Preflight(w) \/ EpicureAttested(w)
         \/ Dispatch(w) /\ RunOpen(wjob[w])
  PROVE  IInv'
<1>1. /\ pc[w] \notin {"idle", "gather"} /\ UNCHANGED <<authority, jobvars, arm, settled, journal>>
      /\ \E label \in {"preflight", "attesting", "recheck", "gather"} : GoTo(w, label)
      /\ bstatus' = bstatus \/ bstatus' = [bstatus EXCEPT ![wjob[w]] = "running"]
  BY DEF BeginGeneration, Preflight, EpicureAttested, Dispatch, evidence
<1>2. WorkerInv'
  BY <1>1, GoToStep DEF IInv, jobvars
<1>3. bstatus' \in [Battles -> {"absent", "queued", "running", "complete", "failed"}]
  BY <1>1 DEF IInv, JobTypeOK
<1> QED BY <1>1, <1>2, <1>3, QuietStep DEF IInv, JobTypeOK, authority, jobvars

\* Failing a battle before its dispatch preserves IInv.
LEMMA FailBeforeDispatchInv ==
  ASSUME IInv, NEW w \in Workers, pc[w] # "idle", current_job_lease(w), FailBeforeDispatch(w)
  PROVE  IInv'
<1> USE DEF IInv
<1> DEFINE b == wjob[w]
           A == [arm EXCEPT ![b] = ArmsFailedAtZeroCost(b)]
<1>1. b \in Battles /\ jstatus[b] = "running"
  BY DEF WorkerInv, LeaseInv, current_job_lease
<1>2. Release(w) /\ UNCHANGED <<run, attempts, owner, stale, journal>>
  BY DEF FailBeforeDispatch
<1>3. WorkerInv'
  BY <1>2, ReleaseStep
<1>4. CASE UNCHANGED <<jstatus, bstatus, arm, settled, season>>
  BY <1>2, <1>3, <1>4, QuietStep DEF JobTypeOK
<1>5. CASE /\ reconcile_battle_cost_accepts(b, A)
           /\ jstatus' = [jstatus EXCEPT ![b] = "failed"]
           /\ bstatus' = [bstatus EXCEPT ![b] = "failed"]
           /\ arm' = A
           /\ settled' = [settled EXCEPT ![b] = TRUE]
           /\ season' \in SeasonAfterSettling({b}, A)
  <2>1. ArmsFailedAtZeroCost(b) \in [Arms -> ArmRecord]
    BY <1>1, ZeroCostType DEF ArmsFailedAtZeroCost, JobTypeOK
  <2>2. season' \in {"active", "cost_halted"}
    BY <1>5, SeasonType DEF JobTypeOK
  <2>3. JobTypeOK' /\ AbsentInv'
    BY <1>1, <1>2, <1>5, <2>1, <2>2 DEF JobTypeOK, AbsentInv, JobStatus
  <2>4. NoReplayOfBillableWork'
    BY <1>1, <1>2, <1>5, RequeueStep DEF JobTypeOK
  <2>5. A[b] = arm'[b] /\ settle_battle_budget_accepts(b, A[b])
    BY <1>1, <1>5 DEF reconcile_battle_cost_accepts
  <2>6. \A e \in Battles : e # b =>
          settled'[e] = settled[e] /\ arm'[e] = arm[e] /\ jstatus'[e] = jstatus[e]
    BY <1>1, <1>5 DEF JobTypeOK
  <2>7. settled'[b] /\ jstatus'[b] = "failed"
    BY <1>1, <1>5 DEF JobTypeOK
  <2>8. ReservationHolds' /\ SettledOnEvidence'
    BY <1>2, <2>5, <2>6, <2>7, SettlingStep
  <2> QED BY <1>3, <2>3, <2>4, <2>8
<1> QED BY <1>4, <1>5 DEF FailBeforeDispatch

\* Every step of a coroutine, of a late worker too, preserves IInv.
LEMMA CoroutineInv ==
  ASSUME IInv, NEW w \in Workers, NEW a \in Arms, GenerateStep(w, a)
  PROVE  IInv'
<1> USE DEF IInv
<1>1. pc[w] = "gather"
  BY CoroutineShape
<1>2. PICK u \in TaskRecord, r \in Row :
        TaskInv(u, r) /\ RowStep(w, a, u, r) /\ RowGrows(w, a, r)
  BY CoroutineShape
<1> DEFINE b == wjob[w]
           c == wclaim[w]
<1>3. /\ WorkerInv'
      /\ b \in Battles /\ c \in Claims
      /\ journal'[b][a][c] = r
      /\ \A e \in Battles, d \in Arms, k \in Claims :
           journal'[e][d][k] = journal[e][d][k] \/ (e = b /\ d = a /\ k = c)
  BY <1>1, <1>2, CoroutineStep
<1>4. /\ UNCHANGED <<authority, jobvars, bstatus, settled>>
      /\ \/ arm' = arm
         \/ current_job_lease(w) /\ arm' = [arm EXCEPT ![b][a].status = "running"]
  BY DEF GenerateStep, GenerateArm, StartRequest, RefuseRequest, StartMcp, EndMcp,
         ResponseReceived, RequestNotAccepted, AfterRejection, RequestFails,
         AfterResponse, GenerationCost, AfterAccounting, HandleProviderError,
         FailureReconciled, TaskOnly, evidence
<1>5. JobTypeOK' /\ AbsentInv'
  <2>1. arm' \in [Battles -> [Arms -> ArmRecord]]
    <3> DEFINE x == [arm[b][a] EXCEPT !.status = "running"]
    <3>1. arm \in [Battles -> [Arms -> ArmRecord]]
      BY DEF JobTypeOK
    <3>2. arm[b] \in [Arms -> ArmRecord] /\ arm[b][a] \in ArmRecord
      BY <1>3, <3>1
    <3>3. x \in ArmRecord
      BY <3>2 DEF ArmRecord
    <3>4. [arm[b] EXCEPT ![a] = x] \in [Arms -> ArmRecord]
      BY <3>2, <3>3
    <3>5. arm' = arm \/ arm' = [arm EXCEPT ![b] = [arm[b] EXCEPT ![a] = x]]
      BY <1>4
    <3> HIDE DEF x
    <3> QED BY <1>3, <3>1, <3>4, <3>5
  <2> QED BY <1>4, <2>1 DEF JobTypeOK, AbsentInv, authority, jobvars
<1>6. \A n \in Requests :
        /\ r[n] \in Billable => journal[b][a][c][n] \in Billable \/ current_job_lease(w)
        /\ r[n] \in Unresolved => journal[b][a][c][n] \in Unresolved \/ current_job_lease(w)
  BY <1>2 DEF RowGrows, MyRow
<1>7. NoReplayOfBillableWork'
  <2> SUFFICES ASSUME NEW e \in Battles, NEW k \in Claims, NEW d \in Arms, NEW n \in Requests,
                      journal'[e][d][k][n] \in Billable
      PROVE  attempts[e] = k /\ jstatus[e] # "queued"
    BY <1>4 DEF NoReplayOfBillableWork, jobvars
  <2>1. CASE journal[e][d][k][n] \in Billable
    BY <2>1 DEF NoReplayOfBillableWork
  <2>2. CASE e = b /\ k = c /\ current_job_lease(w)
    BY <2>2 DEF current_job_lease
  <2> QED BY <2>1, <2>2, <1>3, <1>6
<1>8. ReservationHolds'
  BY <1>4 DEF ReservationHolds, jobvars
<1>9. SettledOnEvidence'
  <2> SUFFICES ASSUME NEW e \in Battles, settled[e], NEW d \in Arms
      PROVE  /\ arm'[e][d].status \in {"complete", "failed"}
             /\ arm'[e][d].reconciled
             /\ arm'[e][d].manual \/ ~HasEvent(journal'[e][d], Unresolved)
    BY <1>4 DEF SettledOnEvidence, HasEvent
  <2>1. ~(e = b /\ current_job_lease(w))
    BY DEF ReservationHolds, current_job_lease
  <2>2. arm'[e] = arm[e]
    BY <1>3, <1>4, <2>1 DEF JobTypeOK
  <2>3. HasEvent(journal'[e][d], Unresolved) => HasEvent(journal[e][d], Unresolved)
    BY <1>3, <1>6, <2>1 DEF HasEvent
  <2> QED BY <2>2, <2>3 DEF SettledOnEvidence
<1> QED BY <1>3, <1>5, <1>7, <1>8, <1>9


\* The final transaction of process_generation_job preserves IInv.
LEMMA FinalizeInv ==
  ASSUME IInv, NEW w \in Workers, FinalizeGeneration(w)
  PROVE  IInv'
<1> USE DEF IInv
<1> DEFINE b == wjob[w]
<1>1. /\ pc[w] = "gather" /\ \A a \in Arms : task[w][a].pc = "done"
      /\ Release(w) /\ UNCHANGED <<run, attempts, owner, stale, journal>>
  BY DEF FinalizeGeneration
<1>2. WorkerInv'
  BY <1>1, ReleaseStep
<1>3. b \in Battles /\ wclaim[w] \in Claims
  BY <1>1 DEF WorkerInv, LeaseInv
<1>4. PICK accepted \in [Arms -> BOOLEAN] :
        IF current_job_lease(w) /\ SealAccepted(b, ArmsAfterGeneration(w, accepted))
        THEN Seal(b, ArmsAfterGeneration(w, accepted))
        ELSE UNCHANGED <<jstatus, bstatus, arm, settled, season>>
  BY DEF FinalizeGeneration
<1> DEFINE arms == ArmsAfterGeneration(w, accepted)
           exposed == unreconciled_exposure(b, arms)
<1>5. CASE UNCHANGED <<jstatus, bstatus, arm, settled, season>>
  BY <1>1, <1>2, <1>5, QuietStep DEF JobTypeOK
<1>6. CASE current_job_lease(w) /\ SealAccepted(b, arms) /\ Seal(b, arms)
  <2>1. arms \in [Arms -> ArmRecord]
    <3> SUFFICES ASSUME NEW a \in Arms
        PROVE  close_unbilled(record_outcome(arm[b][a], task[w][a], accepted[a]), journal[b][a])
                 \in ArmRecord
      BY DEF ArmsAfterGeneration
    <3>1. arm[b][a] \in ArmRecord /\ task[w][a] \in TaskRecord /\ accepted[a] \in BOOLEAN
      BY <1>3 DEF JobTypeOK, WorkerInv, WorkerTypeOK
    <3> QED BY <3>1, OutcomeType, CloseType
  <2>2. season' \in {"active", "cost_halted"}
    <3>1. season' = season \/ season' \in SeasonAfterSettling({b}, [arm EXCEPT ![b] = arms])
      BY <1>6 DEF Seal
    <3> QED BY <3>1, SeasonType DEF JobTypeOK
  <2> HIDE DEF arms
  <2>3. JobTypeOK' /\ AbsentInv'
    <3>1. SealedStatus(arms) \in {"complete", "failed"}
      BY DEF SealedStatus
    <3>2. JobTypeOK'
      BY <1>1, <1>3, <1>6, <2>1, <2>2, <3>1 DEF Seal, JobTypeOK, JobStatus
    <3>3. AbsentInv'
      BY <1>1, <1>3, <1>6 DEF Seal, JobTypeOK, AbsentInv
    <3> QED BY <3>2, <3>3
  <2>4. NoReplayOfBillableWork'
    <3>1. \A e \in Battles : jstatus'[e] = "queued" => jstatus[e] = "queued"
      BY <1>3, <1>6 DEF Seal, JobTypeOK
    <3> QED BY <3>1, <1>1, RequeueStep
  \* An answer that is complete leaves nothing exposed.
  <2>5. BothComplete(arms) => ~exposed
    <3> SUFFICES ASSUME BothComplete(arms), NEW a \in Arms
        PROVE  /\ arms[a].status # "uncertain"
               /\ ~(arms[a].generation /\ ~arms[a].reconciled)
               /\ ~has_unresolved_paid_attempt(journal[b][a])
      BY DEF unreconciled_exposure
    <3> DEFINE t == task[w][a]
    <3>1. arms[a].status = "complete"
      BY DEF BothComplete
    <3>2. arms[a] = close_unbilled(record_outcome(arm[b][a], t, accepted[a]), journal[b][a])
      BY DEF arms, ArmsAfterGeneration
    <3>3. arm[b][a] \in ArmRecord /\ t \in TaskRecord /\ accepted[a] \in BOOLEAN
      BY <1>3 DEF JobTypeOK, WorkerInv, WorkerTypeOK
    <3> HIDE DEF t
    <3>4. t.out = "result" /\ t.reconciled
      BY <3>1, <3>2, <3>3 DEF close_unbilled, known_zero_cost, record_outcome, ArmRecord, TaskRecord
    <3>5. arms[a].reconciled
      BY <3>1, <3>2, <3>3, <3>4 DEF close_unbilled, known_zero_cost, record_outcome, ArmRecord
    <3>6. ~has_unresolved_paid_attempt(journal[b][a])
      <4> SUFFICES ASSUME NEW c \in Claims, NEW n \in Requests, journal[b][a][c][n] \in Unresolved
          PROVE  FALSE
        BY DEF has_unresolved_paid_attempt, HasEvent, Exposed
      <4>1. attempts[b] = c
        BY <1>3 DEF NoReplayOfBillableWork, Billable
      <4>2. c = wclaim[w]
        BY <1>6, <4>1 DEF current_job_lease
      <4>3. TaskInv(t, journal[b][a][wclaim[w]])
        BY <1>1 DEF WorkerInv, TasksInv, t
      <4> QED BY <3>4, <4>2, <4>3 DEF TaskInv
    <3> QED BY <3>1, <3>5, <3>6
  <2>6. /\ \A e \in Battles : e # b =>
              settled'[e] = settled[e] /\ arm'[e] = arm[e] /\ jstatus'[e] = jstatus[e]
        /\ arm'[b] = arms
    BY <1>3, <1>6 DEF Seal, JobTypeOK
  <2>7. CASE exposed
    <3>1. ~settled'[b] /\ jstatus'[b] = "uncertain"
      BY <1>3, <1>6, <2>5, <2>7 DEF Seal, JobTypeOK
    <3>2. ReservationHolds' /\ SettledOnEvidence'
      BY <1>1, <2>6, <3>1, SettlingStep
    <3> QED BY <1>2, <2>3, <2>4, <3>2
  <2>8. CASE ~exposed
    <3>1. settled'[b] /\ jstatus'[b] \in {"complete", "failed"}
      BY <1>3, <1>6, <2>8 DEF Seal, JobTypeOK
    <3>2. settle_battle_budget_accepts(b, arm'[b])
      <4>1. [arm EXCEPT ![b] = arms][b] = arms
        BY <1>3 DEF JobTypeOK
      <4> QED BY <1>6, <2>6, <2>8, <4>1 DEF SealAccepted, reconcile_battle_cost_accepts
    <3>3. ReservationHolds' /\ SettledOnEvidence'
      BY <1>1, <2>6, <3>1, <3>2, SettlingStep
    <3> QED BY <1>2, <2>3, <2>4, <3>3
  <2> QED BY <2>7, <2>8
<1> QED BY <1>4, <1>5, <1>6

\* The recovery of stale claims (recover_stale_jobs) preserves IInv.
LEMMA RecoverInv ==
  ASSUME IInv, NEW S \in SUBSET Battles, recover_stale_jobs(S)
  PROVE  IInv'
<1> USE DEF IInv
<1>1. /\ UNCHANGED <<run, attempts, journal, workers, task>>
      /\ \A b \in S : jstatus[b] = "running"
      /\ arm' = ArmsAfterRecovery(S)
      /\ RecoveryCommits(S)
  BY DEF recover_stale_jobs, StaleJobs
<1>2. WorkerInv'
  BY <1>1, DatabaseStep
<1>3. ArmsAfterRecovery(S) \in [Battles -> [Arms -> ArmRecord]]
  <2> SUFFICES ASSUME NEW b \in Battles
      PROVE  (IF b \in S /\ RecoveryTerminal(b)
              THEN [a \in Arms |-> recovered_arm(arm[b][a], journal[b][a])]
              ELSE arm[b]) \in [Arms -> ArmRecord]
    BY DEF ArmsAfterRecovery
  <2>1. arm[b] \in [Arms -> ArmRecord]
    BY DEF JobTypeOK
  <2>2. \A a \in Arms : recovered_arm(arm[b][a], journal[b][a]) \in ArmRecord
    BY <2>1, RecoveredType
  <2> QED BY <2>1, <2>2
<1>4. season' \in {"active", "cost_halted"}
  BY SeasonType DEF recover_stale_jobs, JobTypeOK
<1>5. JobTypeOK'
  <2>1. jstatus' \in [Battles -> JobStatus]
    BY DEF recover_stale_jobs, JobTypeOK, JobStatus
  <2>2. owner' \in [Battles -> Workers \cup {NoWorker}]
    BY DEF recover_stale_jobs, JobTypeOK
  <2>3. stale' \in [Battles -> BOOLEAN]
    BY DEF recover_stale_jobs, JobTypeOK
  <2>4. settled' \in [Battles -> BOOLEAN]
    BY DEF recover_stale_jobs
  <2>5. bstatus' \in [Battles -> {"absent", "queued", "running", "complete", "failed"}]
    BY DEF recover_stale_jobs, JobTypeOK
  <2> QED BY <1>1, <1>3, <1>4, <2>1, <2>2, <2>3, <2>4, <2>5 DEF JobTypeOK
<1>6. \A b \in Battles :
        /\ b \notin S => jstatus'[b] = jstatus[b]
        /\ b \in S => jstatus'[b] = IF RecoveryUncertain(b) THEN "uncertain"
                                    ELSE IF RecoveryTerminal(b) THEN "failed"
                                    ELSE "queued"
  BY DEF recover_stale_jobs
<1>7. AbsentInv'
  BY <1>1, <1>6 DEF AbsentInv
<1>8. NoReplayOfBillableWork'
  <2>1. ASSUME NEW b \in Battles, b \in S, ~RecoveryTerminal(b)
        PROVE  \A a \in Arms, c \in Claims, n \in Requests : journal[b][a][c][n] \notin Billable
    BY <2>1 DEF RecoveryTerminal, ReplayBlocked, RecoveryUncertain,
                has_unresolved_paid_attempt, HasEvent, Exposed, Billable
  <2> QED BY <1>1, <1>6, <2>1, RequeueStep
<1>9. \A b \in Battles : settled'[b] <=> settled[b] \/ (b \in S /\ RecoverySettles(b))
  BY DEF recover_stale_jobs
<1>10. ReservationHolds' /\ SettledOnEvidence'
  <2> SUFFICES ASSUME NEW b \in Battles
      PROVE  \/ settled'[b] = settled[b] /\ arm'[b] = arm[b] /\ jstatus'[b] = jstatus[b]
             \/ ~settled'[b] /\ jstatus'[b] \notin {"complete", "failed"}
             \/ /\ settled'[b] /\ jstatus'[b] \in {"complete", "failed"}
                /\ settle_battle_budget_accepts(b, arm'[b])
    BY <1>1, SettlingStep
  <2>1. CASE b \notin S
    <3>1. arm'[b] = arm[b]
      BY <1>1, <2>1 DEF ArmsAfterRecovery
    <3>2. settled'[b] = settled[b]
      BY <1>9, <1>5, <2>1 DEF JobTypeOK
    <3> QED BY <1>6, <2>1, <3>1, <3>2
  <2>2. CASE b \in S /\ ~RecoverySettles(b)
    <3>1. ~settled[b]
      BY <1>1, <2>2 DEF ReservationHolds
    <3> QED BY <1>6, <1>9, <2>2, <3>1 DEF RecoverySettles
  <2>3. CASE b \in S /\ RecoverySettles(b)
    <3> DEFINE settling == {e \in S : RecoverySettles(e)}
    <3>1. settle_battle_budget_accepts(b, ArmsAfterRecovery(settling)[b])
      BY <1>1, <2>3 DEF RecoveryCommits, reconcile_battle_cost_accepts
    <3>2. ArmsAfterRecovery(settling)[b] = arm'[b]
      BY <1>1, <2>3 DEF ArmsAfterRecovery, RecoverySettles
    <3>3. settled'[b] /\ jstatus'[b] = "failed"
      BY <1>6, <1>9, <2>3 DEF RecoverySettles
    <3> QED BY <3>1, <3>2, <3>3
  <2> QED BY <2>1, <2>2, <2>3
<1> QED BY <1>2, <1>5, <1>7, <1>8, <1>10

\* The cancellation of unstarted work by a revocation preserves IInv.
LEMMA RevokeInv ==
  ASSUME IInv, revoke_controlled_run
  PROVE  IInv'
<1> USE DEF IInv
<1> DEFINE S == Cancelled
           A == [b \in Battles |-> IF b \in S THEN ArmsFailedAtZeroCost(b) ELSE arm[b]]
<1>1. /\ UNCHANGED <<season, attempts, owner, stale, journal, workers, task>>
      /\ \A b \in S : reconcile_battle_cost_accepts(b, A)
      /\ run' = "revoked"
      /\ jstatus' = [b \in Battles |-> IF b \in S THEN "failed" ELSE jstatus[b]]
      /\ bstatus' = [b \in Battles |-> IF b \in S THEN "failed" ELSE bstatus[b]]
      /\ arm' = A
      /\ settled' = [b \in Battles |-> settled[b] \/ b \in S]
  BY DEF revoke_controlled_run
<1>2. S \subseteq Battles /\ \A b \in S : jstatus[b] = "queued"
  BY ConstantsOK DEF Cancelled
<1> HIDE DEF S
<1>3. WorkerInv'
  BY <1>1, DatabaseStep
<1>4. A \in [Battles -> [Arms -> ArmRecord]]
  <2> SUFFICES ASSUME NEW b \in Battles
      PROVE  (IF b \in S THEN ArmsFailedAtZeroCost(b) ELSE arm[b]) \in [Arms -> ArmRecord]
    OBVIOUS
  <2>1. arm[b] \in [Arms -> ArmRecord]
    BY DEF JobTypeOK
  <2> QED BY <2>1, ZeroCostType DEF ArmsFailedAtZeroCost
<1> HIDE DEF A
<1>5. JobTypeOK' /\ AbsentInv'
  <2>1. JobTypeOK'
    BY <1>1, <1>4 DEF JobTypeOK, JobStatus
  <2>2. AbsentInv'
    BY <1>1, <1>2 DEF AbsentInv
  <2> QED BY <2>1, <2>2
<1>6. NoReplayOfBillableWork'
  BY <1>1, RequeueStep
<1>7. ReservationHolds' /\ SettledOnEvidence'
  <2> SUFFICES ASSUME NEW b \in Battles
      PROVE  \/ settled'[b] = settled[b] /\ arm'[b] = arm[b] /\ jstatus'[b] = jstatus[b]
             \/ /\ settled'[b] /\ jstatus'[b] \in {"complete", "failed"}
                /\ settle_battle_budget_accepts(b, arm'[b])
    BY <1>1, SettlingStep
  <2>1. CASE b \in S
    BY <1>1, <2>1 DEF reconcile_battle_cost_accepts
  <2>2. CASE b \notin S
    <3>1. arm'[b] = arm[b]
      BY <1>1, <2>2 DEF A
    <3>2. settled'[b] = settled[b]
      BY <1>1, <2>2 DEF JobTypeOK
    <3> QED BY <1>1, <2>2, <3>1, <3>2
  <2> QED BY <2>1, <2>2
<1> QED BY <1>3, <1>5, <1>6, <1>7

\* A manual settlement (admin_settle_uncertain_cost) preserves IInv.
LEMMA SettleInv ==
  ASSUME IInv, NEW b \in Battles, admin_settle_uncertain_cost(b)
  PROVE  IInv'
<1> USE DEF IInv
<1> DEFINE A == ArmsAfterManualSettlement(b)
<1>1. /\ UNCHANGED <<run, attempts, owner, stale, bstatus, journal, workers, task>>
      /\ reconcile_battle_cost_accepts(b, A)
      /\ jstatus[b] = "uncertain"
      /\ jstatus' = [jstatus EXCEPT ![b] = "failed"]
      /\ arm' = A
      /\ settled' = [settled EXCEPT ![b] = TRUE]
      /\ season' \in SeasonAfterSettling({b}, A)
  BY DEF admin_settle_uncertain_cost
<1>2. WorkerInv'
  BY <1>1, DatabaseStep
<1>3. A \in [Battles -> [Arms -> ArmRecord]] /\ \A e \in Battles : e # b => A[e] = arm[e]
  <2> DEFINE new == [a \in Arms |-> IF a \in UnsafeArms(b)
                                    THEN [arm[b][a] EXCEPT !.status = "failed",
                                                           !.reconciled = TRUE,
                                                           !.manual = TRUE]
                                    ELSE arm[b][a]]
  <2>1. new \in [Arms -> ArmRecord]
    <3> SUFFICES ASSUME NEW a \in Arms PROVE new[a] \in ArmRecord
      OBVIOUS
    <3>1. arm[b][a] \in ArmRecord
      BY DEF JobTypeOK
    <3> QED BY <3>1 DEF ArmRecord
  <2>2. A = [arm EXCEPT ![b] = new]
    BY DEF ArmsAfterManualSettlement
  <2> HIDE DEF new, A
  <2> QED BY <2>1, <2>2 DEF JobTypeOK
<1> HIDE DEF A
<1>4. season' \in {"active", "cost_halted"}
  BY <1>1, SeasonType DEF JobTypeOK
<1>5. JobTypeOK' /\ AbsentInv'
  BY <1>1, <1>3, <1>4 DEF JobTypeOK, AbsentInv, JobStatus
<1>6. NoReplayOfBillableWork'
  BY <1>1, RequeueStep DEF JobTypeOK
<1>7. /\ \A e \in Battles : e # b =>
            settled'[e] = settled[e] /\ arm'[e] = arm[e] /\ jstatus'[e] = jstatus[e]
      /\ settled'[b] /\ jstatus'[b] = "failed" /\ settle_battle_budget_accepts(b, arm'[b])
  BY <1>1, <1>3 DEF JobTypeOK, reconcile_battle_cost_accepts
<1>8. ReservationHolds' /\ SettledOnEvidence'
  BY <1>1, <1>7, SettlingStep
<1> QED BY <1>2, <1>5, <1>6, <1>8


-----------------------------------------------------------------------------
(***************************************************************************)
(* The theorems.                                                           *)
(***************************************************************************)
\* IInv holds initially.
LEMMA InitInv == Init => IInv
<1> SUFFICES ASSUME Init PROVE IInv
  OBVIOUS
<1>1. \A b \in Battles, a \in Arms, c \in Claims, n \in Requests : journal[b][a][c][n] = "none"
  BY DEF Init
<1>2. WorkerTypeOK
  <2>1. journal \in [Battles -> [Arms -> [Claims -> Row]]]
    BY DEF Init, Row, Events
  <2>2. 0 \in 0..MaxClaims
    BY ConstantsOK
  <2> QED BY <2>1, <2>2, NewTaskType DEF Init, WorkerTypeOK
<1>3. LeaseInv /\ FenceInv /\ RowsInv /\ TasksInv
  BY <1>1 DEF Init, LeaseInv, FenceInv, RowsInv, TasksInv
<1>4. JobTypeOK
  <2>1. NewArm \in ArmRecord
    BY DEF NewArm, ArmRecord
  <2> QED BY <2>1 DEF Init, JobTypeOK, JobStatus
<1>5. AbsentInv
  BY DEF Init, AbsentInv
<1>6. NoReplayOfBillableWork
  <2>1. "none" \notin Billable
    BY DEF Billable, Unresolved, Accounting
  <2> QED BY <1>1, <2>1 DEF NoReplayOfBillableWork
<1>7. ReservationHolds /\ SettledOnEvidence
  BY DEF Init, ReservationHolds, SettledOnEvidence
<1> QED BY <1>2, <1>3, <1>4, <1>5, <1>6, <1>7 DEF IInv, WorkerInv

\* Every step of process_generation_job preserves IInv.
LEMMA JobStepInv ==
  ASSUME IInv, NEW w \in Workers, process_generation_job(w)
  PROVE  IInv'
<1>1. CASE LeaseLost(w)
  BY <1>1, CrashInv
<1>2. CASE BeginGeneration(w) \/ Preflight(w) \/ EpicureAttested(w)
  BY <1>2, BeforeDispatchInv
<1>3. CASE Dispatch(w)
  <2>1. CASE RunOpen(wjob[w])
    BY <1>3, <2>1, BeforeDispatchInv
  <2>2. CASE ~RunOpen(wjob[w])
    BY <1>3, <2>2, FailBeforeDispatchInv DEF Dispatch
  <2> QED BY <2>1, <2>2
<1>4. CASE RefuseGeneration(w)
  BY <1>4, FailBeforeDispatchInv DEF RefuseGeneration
<1>5. CASE PreflightFails(w)
  BY <1>5, FailBeforeDispatchInv DEF PreflightFails
<1>6. CASE \E a \in Arms : GenerateStep(w, a)
  BY <1>6, CoroutineInv
<1>7. CASE FinalizeGeneration(w)
  BY <1>7, FinalizeInv
<1> QED BY <1>1, <1>2, <1>3, <1>4, <1>5, <1>6, <1>7 DEF process_generation_job

\* Every step of the system preserves IInv.
LEMMA NextInv == IInv /\ [Next]_vars => IInv'
<1> SUFFICES ASSUME IInv, [Next]_vars PROVE IInv'
  OBVIOUS
<1>1. CASE UNCHANGED vars
  <2>1. WorkerInv'
    BY <1>1, DatabaseStep DEF vars, workers, IInv
  <2> QED BY <1>1, <2>1, QuietStep DEF vars, IInv, JobTypeOK
<1>2. CASE \E b \in Battles : create_battle(b)
  BY <1>2, CreateInv
<1>3. CASE \E w \in Workers, b \in Battles : claim_job(w, b)
  BY <1>3, ClaimInv
<1>4. CASE \E w \in Workers : process_generation_job(w)
  BY <1>4, JobStepInv
<1>5. CASE \/ \E w \in Workers, a \in Arms : heartbeat_generation_job(w, a)
           \/ \E b \in Battles : LeaseExpires(b)
  BY <1>5, LeaseAgeInv
<1>6. CASE \E w \in Workers : WorkerCrashes(w)
  BY <1>6, CrashInv
<1>7. CASE \E S \in SUBSET Battles : recover_stale_jobs(S)
  BY <1>7, RecoverInv
<1>8. CASE revoke_controlled_run
  BY <1>8, RevokeInv
<1>9. CASE \/ revoke_finds_no_running_job \/ revoke_rolled_back \/ revoke_collected_run
           \/ complete_collection \/ close_controlled_run
  BY <1>9, RunLifecycleInv DEF revoke_finds_no_running_job, revoke_rolled_back, revoke_collected_run,
       complete_collection, close_controlled_run
<1>10. CASE \E b \in Battles : admin_settle_uncertain_cost(b)
  BY <1>10, SettleInv
<1> QED BY <1>1, <1>2, <1>3, <1>4, <1>5, <1>6, <1>7, <1>8, <1>9, <1>10 DEF Next

\* IInv is an inductive invariant of the generation jobs.
THEOREM Inductive == Spec => []IInv
  BY InitInv, NextInv, PTL DEF Spec

\* Every variable keeps its type, whatever the battles, workers and bounds.
THEOREM TypeCorrect == Spec => []TypeOK
<1>1. IInv => TypeOK
  BY TypeSplit DEF IInv, WorkerInv
<1> QED BY <1>1, Inductive, PTL

\* A claim that may have been billed is the last claim of its job: the recovery
\* of stale claims never replays paid work (recover_stale_jobs, claim_job).
THEOREM NoReplay == Spec => []NoReplayOfBillableWork
<1>1. IInv => NoReplayOfBillableWork
  BY DEF IInv
<1> QED BY <1>1, Inductive, PTL

\* Two workers never have paid requests of the same battle in flight: a paid
\* request in flight pins the claim, and a claim has one holder.
THEOREM SinglePayer == Spec => []OnePayingWorker
<1>1. ASSUME IInv, NEW w \in Workers, InFlight(w)
      PROVE  /\ pc[w] # "idle" /\ wjob[w] \in Battles
             /\ attempts[wjob[w]] = wclaim[w]
  <2>1. PICK a \in Arms : task[w][a].pc \in {"sent", "received", "accounting", "reconciling"}
    BY <1>1 DEF InFlight
  <2>2. pc[w] = "gather"
    BY <1>1, <2>1 DEF IInv, WorkerInv, TasksInv, NewTask
  <2>3. wjob[w] \in Battles /\ wclaim[w] \in Claims
    BY <1>1, <2>2 DEF IInv, WorkerInv, LeaseInv
  <2>4. /\ task[w][a] \in TaskRecord
        /\ TaskInv(task[w][a], journal[wjob[w]][a][wclaim[w]])
    BY <1>1, <2>2 DEF IInv, WorkerInv, WorkerTypeOK, TasksInv
  <2>5. \E n \in Requests : journal[wjob[w]][a][wclaim[w]][n] \in Billable
    BY <2>1, <2>4 DEF TaskInv, TaskRecord, Billable, Unresolved
  <2> QED BY <1>1, <2>2, <2>3, <2>5 DEF IInv, NoReplayOfBillableWork
<1>2. IInv => OnePayingWorker
  BY <1>1 DEF OnePayingWorker, IInv, WorkerInv, FenceInv
<1> QED BY <1>2, Inductive, PTL

\* The reservation of a battle is released exactly when its job is complete or
\* failed, and then the cost of every arm is known: no budget leaks, and
\* uncertain work keeps its hold.
THEOREM ReservationHeld == Spec => []ReservationFollowsJob
<1>1. IInv => ReservationFollowsJob
  BY DEF IInv, ReservationHolds, SettledOnEvidence, ReservationFollowsJob
<1> QED BY <1>1, Inductive, PTL

\* A settled battle rests on evidence, also after late workers have journalled
\* what they still knew (reconcile_battle_cost, _persist_provider_attempt).
THEOREM SettlementSound == Spec => []SettledOnEvidence
<1>1. IInv => SettledOnEvidence
  BY DEF IInv
<1> QED BY <1>1, Inductive, PTL

-----------------------------------------------------------------------------
(***************************************************************************)
(* The record the public sees.  RecordInv ties the status of a battle to   *)
(* its job and its arms, and says what an arm is before it is sealed.      *)
(***************************************************************************)
FreshArms == {NewArm, [NewArm EXCEPT !.status = "running"]}

RecordAgrees(job, battle, arms) ==
  /\ battle \in {"complete", "failed"} <=> job \in Terminal
  /\ battle = "complete" <=> job = "complete"
  /\ battle = "complete" <=> \A a \in Arms : arms[a].status = "complete"
  /\ \A a \in Arms : IF job \in Terminal THEN arms[a].status \in {"complete", "failed", "uncertain"}
                                         ELSE arms[a] \in FreshArms

RecordInv == \A b \in Battles : RecordAgrees(jstatus[b], bstatus[b], arm[b])

\* What a step may do to the record of a battle: leave it alone, go on with
\* it, seal it, or settle it by hand.
Kept(b) ==
  /\ jstatus'[b] = jstatus[b] /\ bstatus'[b] = bstatus[b]
  /\ arm'[b] = arm[b] /\ settled'[b] = settled[b]

GoesOn(b) ==
  /\ jstatus[b] \notin Terminal /\ jstatus'[b] \notin Terminal
  /\ bstatus'[b] \in {bstatus[b], "queued", "running"}
  /\ \A a \in Arms : arm'[b][a] \in {arm[b][a], [arm[b][a] EXCEPT !.status = "running"]}

Sealed(b) ==
  /\ jstatus[b] \notin Terminal
  /\ RecordAgrees(jstatus'[b], bstatus'[b], arm'[b])

Corrected(b) ==
  /\ jstatus[b] = "uncertain" /\ jstatus'[b] = "failed" /\ bstatus'[b] = bstatus[b]
  /\ \A a \in Arms : \/ arm'[b][a] = arm[b][a]
                     \/ arm[b][a].status = "uncertain" /\ arm'[b][a].status = "failed"

RecordStep == \A b \in Battles : Kept(b) \/ GoesOn(b) \/ Sealed(b) \/ Corrected(b)

\* A step of that shape preserves RecordInv.
LEMMA RecordStepInv ==
  ASSUME RecordInv, RecordStep
  PROVE  RecordInv'
<1> SUFFICES ASSUME NEW b \in Battles
    PROVE  RecordAgrees(jstatus'[b], bstatus'[b], arm'[b])
  BY DEF RecordInv, RecordAgrees, FreshArms
<1>1. RecordAgrees(jstatus[b], bstatus[b], arm[b])
  BY DEF RecordInv
<1>2. CASE Kept(b)
  BY <1>1, <1>2 DEF Kept
<1>3. CASE GoesOn(b)
  <2>1. \A a \in Arms : arm'[b][a] \in FreshArms
    BY <1>1, <1>3 DEF GoesOn, RecordAgrees, FreshArms, NewArm
  <2>2. bstatus'[b] \notin {"complete", "failed"}
    BY <1>1, <1>3 DEF GoesOn, RecordAgrees
  <2>3. ~\A a \in Arms : arm'[b][a].status = "complete"
    BY <2>1, ConstantsOK DEF FreshArms, NewArm
  <2> QED BY <1>3, <2>1, <2>2, <2>3 DEF GoesOn, RecordAgrees, Terminal
<1>4. CASE Sealed(b)
  BY <1>4 DEF Sealed
<1>5. CASE Corrected(b)
  BY <1>1, <1>5 DEF Corrected, RecordAgrees, Terminal
<1> QED BY <1>2, <1>3, <1>4, <1>5 DEF RecordStep

\* A battle that fails with a terminal job and arms that all have ended, one
\* of them without an answer, agrees with both.
LEMMA FailedAgrees ==
  ASSUME NEW job \in {"failed", "uncertain"}, NEW arms,
         \A a \in Arms : arms[a].status \in {"failed", "uncertain"}
  PROVE  RecordAgrees(job, "failed", arms)
  BY ConstantsOK DEF RecordAgrees, Terminal

\* Failing an arm that was not sealed yet at zero cost.
LEMMA FreshFails ==
  ASSUME NEW x \in FreshArms
  PROVE  failed_at_zero_cost(x).status = "failed"
  BY DEF FreshArms, NewArm, failed_at_zero_cost, known_zero_cost

\* Recovering an arm that was not sealed yet.
LEMMA FreshRecovers ==
  ASSUME NEW x \in FreshArms, NEW J
  PROVE  /\ recovered_arm(x, J).status \in {"failed", "uncertain"}
         /\ arm_guard(x, recovered_arm(x, J))
<1>0. x.status \in {"queued", "running"} /\ ~x.reconciled /\ x \in ArmRecord
  <2>1. CASE x = NewArm
    BY <2>1 DEF NewArm, ArmRecord
  <2>2. CASE x = [NewArm EXCEPT !.status = "running"]
    BY <2>2 DEF NewArm, ArmRecord
  <2> QED BY <2>1, <2>2 DEF FreshArms
<1>1. CASE has_unresolved_paid_attempt(J)
  <2>1. recovered_arm(x, J) = [x EXCEPT !.status = "uncertain"]
    BY <1>0, <1>1 DEF recovered_arm
  <2> QED BY <1>0, <2>1 DEF arm_guard, ArmRecord
<1>2. CASE ~has_unresolved_paid_attempt(J) /\ HasEvent(J, Accounting)
  <2> DEFINE priced == ~HasEvent(J, {"accounting_unreconciled"})
  <2>1. recovered_arm(x, J) = [x EXCEPT !.status = IF priced THEN "failed" ELSE "uncertain",
                                        !.reconciled = priced,
                                        !.generation = TRUE,
                                        !.actual = IF priced THEN "true" ELSE "false"]
    BY <1>0, <1>2 DEF recovered_arm
  <2> HIDE DEF priced
  <2> QED BY <1>0, <2>1 DEF arm_guard, ArmRecord
<1>3. CASE ~has_unresolved_paid_attempt(J) /\ ~HasEvent(J, Accounting)
  <2>1. recovered_arm(x, J) = failed_at_zero_cost(x)
    BY <1>0, <1>3 DEF recovered_arm
  <2> QED BY <1>0, <2>1 DEF failed_at_zero_cost, known_zero_cost, arm_guard, ArmRecord
<1> QED BY <1>1, <1>2, <1>3

\* The arms of a job that has not ended are fresh.
LEMMA UnsealedIsFresh ==
  ASSUME RecordInv, NEW b \in Battles, jstatus[b] \notin Terminal, NEW a \in Arms
  PROVE  arm[b][a] \in FreshArms
  BY DEF RecordInv, RecordAgrees

\* Failing a battle before its dispatch seals it.
LEMMA FailBeforeDispatchRecord ==
  ASSUME IInv, RecordInv, NEW w \in Workers, pc[w] # "idle", current_job_lease(w),
         FailBeforeDispatch(w)
  PROVE  RecordStep
<1> DEFINE b == wjob[w]
<1>1. b \in Battles /\ jstatus[b] = "running"
  BY DEF IInv, WorkerInv, LeaseInv, current_job_lease
<1>2. CASE UNCHANGED <<jstatus, bstatus, arm, settled, season>>
  BY <1>2 DEF RecordStep, Kept
<1>3. CASE /\ jstatus' = [jstatus EXCEPT ![b] = "failed"]
           /\ bstatus' = [bstatus EXCEPT ![b] = "failed"]
           /\ arm' = [arm EXCEPT ![b] = ArmsFailedAtZeroCost(b)]
           /\ settled' = [settled EXCEPT ![b] = TRUE]
  <2>1. /\ jstatus'[b] = "failed" /\ bstatus'[b] = "failed"
        /\ arm'[b] = ArmsFailedAtZeroCost(b)
        /\ \A e \in Battles : e # b => Kept(e)
    BY <1>1, <1>3 DEF IInv, JobTypeOK, Kept
  <2>2. \A a \in Arms : arm'[b][a].status = "failed"
    BY <1>1, <2>1, UnsealedIsFresh, FreshFails DEF ArmsFailedAtZeroCost, Terminal
  <2>3. Sealed(b)
    BY <1>1, <2>1, <2>2, FailedAgrees DEF Sealed, Terminal
  <2> QED BY <2>1, <2>3 DEF RecordStep
<1> QED BY <1>2, <1>3 DEF FailBeforeDispatch

\* The final transaction seals the battle with the outcomes of its arms.
LEMMA FinalizeRecord ==
  ASSUME IInv, RecordInv, NEW w \in Workers, FinalizeGeneration(w)
  PROVE  RecordStep
<1> DEFINE b == wjob[w]
<1>1. PICK accepted \in [Arms -> BOOLEAN] :
        IF current_job_lease(w) /\ SealAccepted(b, ArmsAfterGeneration(w, accepted))
        THEN Seal(b, ArmsAfterGeneration(w, accepted))
        ELSE UNCHANGED <<jstatus, bstatus, arm, settled, season>>
  BY DEF FinalizeGeneration
<1>2. b \in Battles
  BY DEF FinalizeGeneration, IInv, WorkerInv, LeaseInv
<1> DEFINE arms == ArmsAfterGeneration(w, accepted)
<1>3. CASE UNCHANGED <<jstatus, bstatus, arm, settled, season>>
  BY <1>3 DEF RecordStep, Kept
<1>4. CASE current_job_lease(w) /\ Seal(b, arms)
  <2>1. ASSUME NEW a \in Arms
        PROVE  arms[a].status \in {"complete", "failed", "uncertain"}
    <3>1. arm[b][a] \in ArmRecord /\ task[w][a] \in TaskRecord
      BY <1>2 DEF IInv, JobTypeOK, WorkerInv, WorkerTypeOK
    <3>2. record_outcome(arm[b][a], task[w][a], accepted[a]).status
            \in {"complete", "failed", "uncertain"}
      BY <3>1 DEF record_outcome, ArmRecord, TaskRecord
    <3> DEFINE x == record_outcome(arm[b][a], task[w][a], accepted[a])
    <3>3. x \in ArmRecord
      BY <3>1, OutcomeType
    <3>4. arms[a] = close_unbilled(x, journal[b][a])
      BY DEF ArmsAfterGeneration
    <3> HIDE DEF x, arms
    <3>5. close_unbilled(x, journal[b][a]).status = x.status
      BY <3>3 DEF close_unbilled, known_zero_cost, ArmRecord
    <3> QED BY <3>2, <3>4, <3>5 DEF x
  <2> HIDE DEF arms
  <2>2. /\ jstatus'[b] \in Terminal
        /\ bstatus'[b] = SealedStatus(arms)
        /\ jstatus'[b] = "complete" <=> BothComplete(arms)
        /\ arm'[b] = arms
        /\ \A e \in Battles : e # b => Kept(e)
    BY <1>2, <1>4 DEF Seal, IInv, JobTypeOK, Kept, Terminal
  <2>3. RecordAgrees(jstatus'[b], bstatus'[b], arm'[b])
    BY <2>1, <2>2 DEF RecordAgrees, SealedStatus, BothComplete
  <2>4. jstatus[b] \notin Terminal
    BY <1>4 DEF current_job_lease, Terminal
  <2> QED BY <2>2, <2>3, <2>4 DEF RecordStep, Sealed
<1> QED BY <1>1, <1>3, <1>4

\* A coroutine marks its arm as running while its job runs, or leaves the
\* record alone.
LEMMA CoroutineRecord ==
  ASSUME IInv, RecordInv, NEW w \in Workers, NEW a \in Arms, GenerateStep(w, a)
  PROVE  RecordStep
<1> DEFINE b == wjob[w]
<1>1. b \in Battles
  BY CoroutineShape DEF IInv, WorkerInv, LeaseInv
<1>2. /\ UNCHANGED <<jstatus, bstatus, settled>>
      /\ \/ arm' = arm
         \/ current_job_lease(w) /\ arm' = [arm EXCEPT ![b][a].status = "running"]
  BY DEF GenerateStep, GenerateArm, StartRequest, RefuseRequest, StartMcp, EndMcp,
         ResponseReceived, RequestNotAccepted, AfterRejection, RequestFails,
         AfterResponse, GenerationCost, AfterAccounting, HandleProviderError,
         FailureReconciled, TaskOnly, jobvars, evidence
<1>3. CASE arm' = arm
  BY <1>2, <1>3 DEF RecordStep, Kept
<1>4. CASE current_job_lease(w) /\ arm' = [arm EXCEPT ![b][a].status = "running"]
  <2>1. \A e \in Battles : e # b => Kept(e)
    BY <1>2, <1>4 DEF IInv, JobTypeOK, Kept
  <2>2. arm[b] \in [Arms -> ArmRecord]
    BY <1>1 DEF IInv, JobTypeOK
  <2>3. \A d \in Arms : arm'[b][d] \in {arm[b][d], [arm[b][d] EXCEPT !.status = "running"]}
    BY <1>1, <1>4, <2>2 DEF IInv, JobTypeOK
  <2>4. GoesOn(b)
    BY <1>2, <1>4, <2>3 DEF GoesOn, current_job_lease, Terminal
  <2> QED BY <2>1, <2>4 DEF RecordStep
<1> QED BY <1>2, <1>3, <1>4

\* The recovery of stale claims seals a battle as failed, or requeues its job.
LEMMA RecoverRecord ==
  ASSUME IInv, RecordInv, NEW S \in SUBSET Battles, recover_stale_jobs(S)
  PROVE  RecordStep
<1> SUFFICES ASSUME NEW b \in Battles PROVE Kept(b) \/ GoesOn(b) \/ Sealed(b)
  BY DEF RecordStep
<1>1. /\ jstatus'[b] = IF b \notin S THEN jstatus[b]
                       ELSE IF RecoveryUncertain(b) THEN "uncertain"
                       ELSE IF RecoveryTerminal(b) THEN "failed"
                       ELSE "queued"
      /\ arm'[b] = IF b \in S /\ RecoveryTerminal(b)
                   THEN [a \in Arms |-> recovered_arm(arm[b][a], journal[b][a])]
                   ELSE arm[b]
      /\ bstatus'[b] = IF b \in S /\ RecoveryTerminal(b) THEN "failed" ELSE bstatus[b]
      /\ settled'[b] <=> settled[b] \/ (b \in S /\ RecoverySettles(b))
      /\ settled[b] \in BOOLEAN /\ settled'[b] \in BOOLEAN
      /\ b \in S => jstatus[b] = "running"
  BY DEF recover_stale_jobs, ArmsAfterRecovery, StaleJobs, IInv, JobTypeOK
<1>2. RecoveryUncertain(b) => RecoveryTerminal(b)
  BY DEF RecoveryTerminal, ReplayBlocked
<1>3. CASE b \notin S
  BY <1>1, <1>3 DEF Kept
<1>4. CASE b \in S /\ ~RecoveryTerminal(b)
  BY <1>1, <1>2, <1>4 DEF GoesOn, Terminal
<1>5. CASE b \in S /\ RecoveryTerminal(b)
  <2>1. \A a \in Arms : arm'[b][a].status \in {"failed", "uncertain"}
    BY <1>1, <1>5, UnsealedIsFresh, FreshRecovers DEF Terminal
  <2>2. jstatus'[b] \in {"failed", "uncertain"} /\ bstatus'[b] = "failed"
    BY <1>1, <1>5
  <2> QED BY <1>1, <1>5, <2>1, <2>2, FailedAgrees DEF Sealed, Terminal
<1> QED BY <1>3, <1>4, <1>5

\* A revocation seals the battles it cancels as failed.
LEMMA RevokeRecord ==
  ASSUME IInv, RecordInv, revoke_controlled_run
  PROVE  RecordStep
<1> SUFFICES ASSUME NEW b \in Battles PROVE Kept(b) \/ Sealed(b)
  BY DEF RecordStep
<1>1. /\ jstatus'[b] = IF b \in Cancelled THEN "failed" ELSE jstatus[b]
      /\ bstatus'[b] = IF b \in Cancelled THEN "failed" ELSE bstatus[b]
      /\ arm'[b] = IF b \in Cancelled THEN ArmsFailedAtZeroCost(b) ELSE arm[b]
      /\ settled'[b] <=> settled[b] \/ b \in Cancelled
      /\ settled[b] \in BOOLEAN /\ settled'[b] \in BOOLEAN
      /\ b \in Cancelled => jstatus[b] = "queued"
  BY DEF revoke_controlled_run, Cancelled, IInv, JobTypeOK
<1>2. CASE b \notin Cancelled
  BY <1>1, <1>2 DEF Kept
<1>3. CASE b \in Cancelled
  <2>1. \A a \in Arms : arm'[b][a].status = "failed"
    BY <1>1, <1>3, UnsealedIsFresh, FreshFails DEF ArmsFailedAtZeroCost, Terminal
  <2> QED BY <1>1, <1>3, <2>1, FailedAgrees DEF Sealed, Terminal
<1> QED BY <1>2, <1>3

\* A manual settlement fails uncertain arms and touches no other: the row guard
\* of the arms refuses the rest.
LEMMA SettleRecord ==
  ASSUME IInv, RecordInv, NEW b \in Battles, admin_settle_uncertain_cost(b)
  PROVE  RecordStep
<1>1. /\ jstatus[b] = "uncertain" /\ jstatus' = [jstatus EXCEPT ![b] = "failed"]
      /\ bstatus' = bstatus /\ settled' = [settled EXCEPT ![b] = TRUE]
      /\ arm' = ArmsAfterManualSettlement(b)
      /\ \A a \in Arms : arm_guard(arm[b][a], ArmsAfterManualSettlement(b)[b][a])
  BY DEF admin_settle_uncertain_cost
<1>2. \A e \in Battles : e # b => Kept(e)
  BY <1>1 DEF IInv, JobTypeOK, Kept, ArmsAfterManualSettlement
<1>3. jstatus'[b] = "failed"
  BY <1>1 DEF IInv, JobTypeOK
<1>4. ASSUME NEW a \in Arms
      PROVE  \/ arm'[b][a] = arm[b][a]
             \/ arm[b][a].status = "uncertain" /\ arm'[b][a].status = "failed"
  <2>1. arm_guard(arm[b][a], arm'[b][a])
    BY <1>1
  <2>2. arm[b][a].status \in {"complete", "failed", "uncertain"}
    BY <1>1 DEF RecordInv, RecordAgrees, Terminal
  <2> QED BY <2>1, <2>2 DEF arm_guard
<1> QED BY <1>1, <1>2, <1>3, <1>4 DEF RecordStep, Corrected

\* Every step treats the record of every battle in one of the four ways.
LEMMA NextRecord ==
  ASSUME IInv, RecordInv, [Next]_vars
  PROVE  RecordStep
<1>1. CASE UNCHANGED <<jstatus, bstatus, arm, settled>>
  BY <1>1 DEF RecordStep, Kept
<1>2. CASE \E b \in Battles : create_battle(b)
  <2>1. PICK b \in Battles : create_battle(b)
    BY <1>2
  <2>2. /\ jstatus[b] = "absent" /\ jstatus'[b] = "queued" /\ bstatus'[b] = "queued"
        /\ arm' = arm
        /\ \A e \in Battles : e # b => Kept(e)
    BY <2>1 DEF create_battle, IInv, JobTypeOK, Kept
  <2> QED BY <2>2 DEF RecordStep, GoesOn, Terminal
<1>3. CASE \E w \in Workers, b \in Battles : claim_job(w, b)
  <2>1. PICK b \in Battles : \E w \in Workers : claim_job(w, b)
    BY <1>3
  <2>2. /\ jstatus[b] = "queued" /\ jstatus'[b] = "running" /\ bstatus' = bstatus
        /\ arm' = arm
        /\ \A e \in Battles : e # b => Kept(e)
    BY <2>1 DEF claim_job, evidence, IInv, JobTypeOK, Kept
  <2> QED BY <2>2 DEF RecordStep, GoesOn, Terminal
<1>4. ASSUME NEW w \in Workers, process_generation_job(w)
      PROVE  RecordStep
  <2>1. CASE BeginGeneration(w)
    <3>1. /\ UNCHANGED <<jstatus, arm, settled>>
          /\ wjob[w] \in Battles /\ jstatus[wjob[w]] = "running"
          /\ bstatus' = [bstatus EXCEPT ![wjob[w]] = "running"]
      BY <2>1 DEF BeginGeneration, current_job_lease, jobvars, IInv, WorkerInv, LeaseInv
    <3>2. bstatus'[wjob[w]] = "running" /\ \A e \in Battles : e # wjob[w] => Kept(e)
      BY <3>1 DEF IInv, JobTypeOK, Kept
    <3> QED BY <3>1, <3>2 DEF RecordStep, GoesOn, Terminal
  <2>2. CASE FailBeforeDispatch(w) /\ pc[w] # "idle" /\ current_job_lease(w)
    BY <2>2, FailBeforeDispatchRecord
  <2>3. CASE \E a \in Arms : GenerateStep(w, a)
    BY <2>3, CoroutineRecord
  <2>4. CASE FinalizeGeneration(w)
    BY <2>4, FinalizeRecord
  <2>5. CASE UNCHANGED <<jstatus, bstatus, arm, settled>>
    BY <1>1, <2>5
  <2> QED BY <1>4, <2>1, <2>2, <2>3, <2>4, <2>5
          DEF process_generation_job, LeaseLost, RefuseGeneration, Preflight,
              EpicureAttested, PreflightFails, Dispatch, jobvars, evidence
<1>5. CASE \E S \in SUBSET Battles : recover_stale_jobs(S)
  BY <1>5, RecoverRecord
<1>6. CASE revoke_controlled_run
  BY <1>6, RevokeRecord
<1>7. CASE \E b \in Battles : admin_settle_uncertain_cost(b)
  BY <1>7, SettleRecord
<1>8. CASE \/ \E w \in Workers, a \in Arms : heartbeat_generation_job(w, a)
           \/ \E w \in Workers : WorkerCrashes(w)
           \/ \E b \in Battles : LeaseExpires(b)
           \/ revoke_finds_no_running_job \/ revoke_rolled_back \/ revoke_collected_run
           \/ complete_collection \/ close_controlled_run
           \/ UNCHANGED vars
  <2>1. UNCHANGED <<jstatus, bstatus, arm, settled>>
    BY <1>8 DEF heartbeat_generation_job, WorkerCrashes, LeaseExpires,
         revoke_finds_no_running_job, revoke_rolled_back, revoke_collected_run,
         complete_collection, close_controlled_run, jobvars, evidence, vars
  <2> QED BY <1>1, <2>1
<1> QED BY <1>2, <1>3, <1>4, <1>5, <1>6, <1>7, <1>8 DEF Next

\* Both invariants hold initially and are kept by every step.
LEMMA RecordInductive == Spec => [](IInv /\ RecordInv)
<1>1. Init => RecordInv
  BY ConstantsOK DEF Init, RecordInv, RecordAgrees, FreshArms, NewArm, Terminal
<1>2. IInv /\ RecordInv /\ [Next]_vars => RecordInv'
  BY NextRecord, RecordStepInv
<1> QED BY <1>1, <1>2, InitInv, NextInv, PTL DEF Spec

\* The battle the public sees agrees with its job and its arms: sealed exactly
\* when the job is terminal, complete only with two complete arms
\* (_terminalize_battle_after_arms, recover_stale_jobs).
THEOREM RecordFollowsJob == Spec => []BattleFollowsJob
<1>1. RecordInv => BattleFollowsJob
  BY DEF RecordInv, RecordAgrees, BattleFollowsJob
<1> QED BY <1>1, RecordInductive, PTL

\* A sealed record is final: no late worker, no recovery, no revocation and no
\* administrator changes it, except the uncertain arms of an uncertain job.
THEOREM SealIsFinal == Spec => SealedIsFinal
<1> DEFINE Final ==
      \A b \in Battles :
       /\ jstatus[b] \in {"complete", "failed"} =>
            /\ jstatus'[b] = jstatus[b]
            /\ bstatus'[b] = bstatus[b]
            /\ arm'[b] = arm[b]
            /\ settled'[b] = settled[b]
       /\ jstatus[b] = "uncertain" =>
            /\ jstatus'[b] \in {"uncertain", "failed"}
            /\ bstatus'[b] = bstatus[b]
            /\ \A a \in Arms : arm[b][a].status # "uncertain" => arm'[b][a] = arm[b][a]
<1>1. RecordStep => Final
  BY DEF RecordStep, Kept, GoesOn, Sealed, Corrected, Terminal
<1>2. IInv /\ RecordInv /\ [Next]_vars => [Final]_vars
  BY <1>1, NextRecord
<1> QED BY <1>2, RecordInductive, PTL DEF Spec, SealedIsFinal

\* An arm without open or unpriced work is recovered on evidence that the
\* settlement and the audit accept.
LEMMA FreshSettles ==
  ASSUME NEW x \in FreshArms, NEW J, ~has_unresolved_paid_attempt(J),
         ~HasEvent(J, {"retry_scheduled", "accounting_unreconciled"})
  PROVE  LET y == recovered_arm(x, J)
         IN /\ y.status = "failed" /\ y.reconciled
            /\ y.actual = "true" /\ ~y.manual
            /\ ~unresolved_evidence(J)
<1> DEFINE y == recovered_arm(x, J)
<1>1. /\ x.status \in {"queued", "running"} /\ ~x.reconciled /\ ~x.manual
      /\ x \in ArmRecord
  <2>1. CASE x = NewArm
    BY <2>1 DEF NewArm, ArmRecord
  <2>2. CASE x = [NewArm EXCEPT !.status = "running"]
    BY <2>2 DEF NewArm, ArmRecord
  <2> QED BY <2>1, <2>2 DEF FreshArms
<1>2. ~unresolved_evidence(J) /\ ~HasEvent(J, {"accounting_unreconciled"})
  BY DEF has_unresolved_paid_attempt, unresolved_evidence, HasEvent
<1>3. CASE HasEvent(J, Accounting)
  <2>1. y = [x EXCEPT !.status = "failed", !.reconciled = TRUE,
                      !.generation = TRUE, !.actual = "true"]
    BY <1>1, <1>2, <1>3 DEF recovered_arm
  <2> QED BY <1>1, <1>2, <2>1 DEF ArmRecord
<1>4. CASE ~HasEvent(J, Accounting)
  <2>1. y = failed_at_zero_cost(x)
    BY <1>1, <1>4 DEF recovered_arm
  <2>2. y = [x EXCEPT !.status = "failed", !.reconciled = TRUE, !.actual = "true"]
    BY <1>1, <2>1 DEF failed_at_zero_cost, known_zero_cost, ArmRecord
  <2> QED BY <1>1, <1>2, <2>2 DEF ArmRecord
<1> QED BY <1>3, <1>4

\* At whatever step a worker dies, the recovery of its job commits: it settles
\* the battle on evidence or holds its reservation (recover_stale_jobs,
\* flavourbench_settle_battle_budget, the row guards).
THEOREM RecoveryNeverBlocked == Spec => []StaleJobCanBeRecovered
<1>1. ASSUME IInv, RecordInv, NEW b \in Battles, jstatus[b] = "running",
             RunPermits(b), BudgetIntegrity(arm), ~SettlementRaises(b)
      PROVE  RecoveryCommits({b})
  <2> DEFINE settling == {e \in {b} : RecoverySettles(e)}
             A == ArmsAfterRecovery(settling)
  <2>1. \A a \in Arms : arm[b][a] \in FreshArms
    BY <1>1, UnsealedIsFresh DEF Terminal
  <2>2. ASSUME NEW e \in settling
        PROVE  reconcile_battle_cost_accepts(e, A)
    <3>1. e = b /\ RecoverySettles(b) /\ RecoveryTerminal(b)
      BY <2>2 DEF RecoverySettles
    <3>2. A[b] = [a \in Arms |-> recovered_arm(arm[b][a], journal[b][a])]
      BY <3>1 DEF ArmsAfterRecovery
    <3>3. ASSUME NEW d \in Battles, d # b
          PROVE  A[d] = arm[d]
      BY <3>3 DEF ArmsAfterRecovery
    <3>4. \A a \in Arms : ~has_unresolved_paid_attempt(journal[b][a])
      BY <3>1 DEF RecoverySettles, RecoveryUncertain
    <3>5. \A a \in Arms : ~HasEvent(journal[b][a], {"retry_scheduled", "accounting_unreconciled"})
      <4>1. \A a \in Arms : ~HasEvent(journal[b][a], Unresolved)
        BY <3>4 DEF has_unresolved_paid_attempt, Exposed
      <4>2. attempts[b] >= MaxClaims \/ \E a \in Arms : HasEvent(journal[b][a], Accounting)
        BY <3>1, <3>4 DEF RecoveryTerminal, ReplayBlocked, RecoveryUncertain
      <4> QED BY <1>1, <4>1, <4>2 DEF SettlementRaises
    <3>6. ASSUME NEW a \in Arms
          PROVE  /\ A[b][a].status = "failed" /\ A[b][a].reconciled
                 /\ A[b][a].actual = "true" /\ ~A[b][a].manual
                 /\ ~unresolved_evidence(journal[b][a])
      <4>1. A[b][a] = recovered_arm(arm[b][a], journal[b][a])
        BY <3>2
      <4> HIDE DEF A
      <4> QED BY <2>1, <3>4, <3>5, <4>1, FreshSettles
    <3> HIDE DEF A
    <3>7. settle_battle_budget_accepts(b, A[b])
      BY <3>6 DEF settle_battle_budget_accepts, valid_receipt
    <3>8. BudgetIntegrity(A)
      <4> SUFFICES ASSUME NEW d \in Battles, NEW a \in Arms, bstatus[d] # "absent"
          PROVE  endpoint_receipt_valid(A[d][a], journal[d][a])
        BY DEF BudgetIntegrity
      <4>1. CASE d = b
        BY <3>6, <4>1 DEF endpoint_receipt_valid
      <4>2. CASE d # b
        BY <1>1, <3>3, <4>2 DEF BudgetIntegrity
      <4> QED BY <4>1, <4>2
    <3> QED BY <3>1, <3>7, <3>8 DEF reconcile_battle_cost_accepts
  <2>3. ASSUME RecoveryTerminal(b)
        PROVE  guards_accept(b, "failed", ArmsAfterRecovery({b})[b])
    <3>1. ArmsAfterRecovery({b})[b] = [a \in Arms |-> recovered_arm(arm[b][a], journal[b][a])]
      BY <2>3 DEF ArmsAfterRecovery
    <3>2. \A a \in Arms : arm_guard(arm[b][a], ArmsAfterRecovery({b})[b][a])
      BY <2>1, <3>1, FreshRecovers
    <3> QED BY <1>1, <3>2 DEF guards_accept, battle_link_guard
  <2> QED BY <2>2, <2>3 DEF RecoveryCommits
<1>2. IInv /\ RecordInv => StaleJobCanBeRecovered
  BY <1>1 DEF StaleJobCanBeRecovered
<1> QED BY <1>2, RecordInductive, PTL

=============================================================================
