-------------------------- MODULE DatasetRunnerProofs --------------------------
(***************************************************************************)
(* Proofs about DatasetRunner and its subprocess, for every number of work *)
(* items, price, ceiling, set of fates of a request and bound on crashes.  *)
(*                                                                         *)
(* The first part is about the steps of LiveSmoke, which has no            *)
(* specification of its own: SmokeInv ties the journal of an arm to what   *)
(* the arm has been through (RowInv) and the files of a run to where its   *)
(* process is (ProcInv).  The second part is about the runner: IInv, its   *)
(* inductive invariant, ties what an invocation remembers while it works   *)
(* to what the files say, which is all that is left after a crash.         *)
(***************************************************************************)
EXTENDS DatasetRunner, SumLemmas

(***************************************************************************)
(* THE SUBPROCESS                                                          *)
(***************************************************************************)
\* Arms whose request never left, and arms whose row in the journal has an end.
Unsent == {"idle", "session", "toolless"}
Ended == DOMAIN OutcomeEvent

\* The journal is ahead of the network: what is in the row of an arm is exactly
\* what its request has been through, and a charge needs a request.
RowInv(r, c) ==
  /\ arm[r][c] \in Unsent => events[r][c] = {} /\ acct[r][c] = "none"
  /\ arm[r][c] = "sent" => events[r][c] = {"request_started"} /\ acct[r][c] = "none"
  /\ arm[r][c] \in Ended =>
       events[r][c] = {"request_started"} \cup OutcomeEvent[arm[r][c]] \cup
                        (IF acct[r][c] = "reconciled" THEN {"accounting_reconciled"} ELSE {})
  /\ acct[r][c] # "none" => arm[r][c] \in Results \cup Incomplete
  /\ billed[r][c] => arm[r][c] \notin Unsent \cup Refused
  /\ arm[r][c] \in Charged => billed[r][c]

\* Both arms are over, and each generation that has an id was looked up.
Gathered(r) ==
  \A c \in Arms : /\ arm[r][c] \in Ended \cup {"toolless"}
                  /\ arm[r][c] \in Results => acct[r][c] # "none"
LookedUp(r) == \A c \in Arms : arm[r][c] \in Incomplete => acct[r][c] # "none"

\* What the place of the process says about its arms and its artifact.
ProcInv(r) ==
  /\ proc[r] \in {"none", "boot", "created", "preflight", "refused"} =>
       \A c \in Arms : arm[r][c] = "idle"
  /\ proc[r] \in {"accounting", "finalized"} \/ art[r] # "absent" => Gathered(r)
  /\ proc[r] = "finalized" \/ art[r] # "absent" => LookedUp(r)
  /\ proc[r] = "writing" => art[r] = "torn"
  /\ proc[r] \in {"exiting", "exited"} => art[r] = "whole"
  /\ art[r] = "torn" => proc[r] \in {"writing", "dead"}
  /\ art[r] = "whole" => proc[r] \in {"exiting", "exited", "dead"}

SmokeInv ==
  /\ SmokeTypeOK
  /\ \A r \in Runs : ProcInv(r) /\ \A c \in Arms : RowInv(r, c)

\* Nothing in the state of run v changes.
Untouched(v) ==
  /\ proc'[v] = proc[v] /\ arm'[v] = arm[v] /\ billed'[v] = billed[v]
  /\ acct'[v] = acct[v] /\ last'[v] = last[v] /\ journal'[v] = journal[v]
  /\ events'[v] = events[v] /\ art'[v] = art[v]

-----------------------------------------------------------------------------
(***************************************************************************)
(* SmokeInv is preserved.                                                  *)
(***************************************************************************)
\* It holds while nothing was launched.
LEMMA SmokeInitInv == SmokeInit => SmokeInv
  BY DEF SmokeInit, SmokeInv, SmokeTypeOK, ProcInv, RowInv, Unsent, Ended, OutcomeEvent,
         Attempts, Arms, Charged, Refused, Results, Incomplete, Gathered, LookedUp

\* The files of a run do not change with those of another.
LEMMA UntouchedInv ==
  ASSUME NEW v \in Runs, Untouched(v), ProcInv(v), \A c \in Arms : RowInv(v, c)
  PROVE  ProcInv(v)' /\ \A c \in Arms : RowInv(v, c)'
  BY DEF Untouched, ProcInv, RowInv, Gathered, LookedUp

\* The process of a run moves on and its files with it.
LEMMA ProcessStep ==
  ASSUME SmokeInv, NEW r \in Runs,
         \/ (launch(r) /\ proc[r] = "none")
         \/ create_journal(r) \/ run_started(r) \/ preflight_passes(r) \/ preflight_fails(r)
         \/ gather(r) \/ finalize_journal(r) \/ open_artifact(r) \/ write_artifact(r)
         \/ exit(r) \/ dies(r)
  PROVE  SmokeInv'
<1> USE DEF launch, create_journal, run_started, preflight_passes, preflight_fails, gather,
            finalize_journal, open_artifact, write_artifact, exit, dies
<1>1. SmokeTypeOK'
  BY DEF SmokeInv, SmokeTypeOK, Live
<1>2. ASSUME NEW v \in Runs, v # r
      PROVE  Untouched(v)
  BY <1>2 DEF SmokeInv, SmokeTypeOK, Untouched
<1>3. ASSUME NEW v \in Runs, NEW c \in Arms
      PROVE  RowInv(v, c)'
  BY DEF SmokeInv, RowInv
<1>4. ProcInv(r)'
  <2>1. proc[r] \in {"accounting", "finalized", "writing", "exiting"} => Gathered(r)
    BY DEF SmokeInv, ProcInv
  <2>2. Gathered(r)' = Gathered(r) /\ LookedUp(r)' = LookedUp(r)
    BY DEF Gathered, LookedUp
  <2>3. gather(r) => Gathered(r)
    BY DEF Gathered, SmokeInv, SmokeTypeOK, Ended
  <2>4. finalize_journal(r) => LookedUp(r)
    BY DEF LookedUp
  <2> QED BY <2>1, <2>2, <2>3, <2>4 DEF SmokeInv, SmokeTypeOK, ProcInv, Live
<1> QED BY <1>1, <1>2, <1>3, <1>4, UntouchedInv DEF SmokeInv

\* What is journaled for the fate of a request is made of known events.
LEMMA OutcomeEventType ==
  ASSUME NEW o \in Ended
  PROVE  /\ OutcomeEvent[o] \subseteq Received \cup SafeTerminals \cup UnsafeTerminals
         /\ o \notin Unsent /\ o # "sent"
         /\ o \in Charged => o \notin Refused
  BY DEF Ended, OutcomeEvent, Received, SafeTerminals, UnsafeTerminals, Unsent, Charged, Refused

\* Only arm c of run r moves, and what its run keeps for the arms together.
ArmMoves(r, c) ==
  /\ \A v \in Runs : v # r => Untouched(v)
  /\ \A d \in Arms : d # c =>
       /\ arm'[r][d] = arm[r][d] /\ acct'[r][d] = acct[r][d]
       /\ billed'[r][d] = billed[r][d] /\ events'[r][d] = events[r][d]

\* Such a step has to respect only what is said of its arm and its process.
LEMMA ArmMovesInv ==
  ASSUME SmokeInv, NEW r \in Runs, NEW c \in Arms, ArmMoves(r, c),
         SmokeTypeOK', RowInv(r, c)', ProcInv(r)'
  PROVE  SmokeInv'
<1>1. ASSUME NEW v \in Runs, v # r
      PROVE  ProcInv(v)' /\ \A d \in Arms : RowInv(v, d)'
  BY <1>1, UntouchedInv DEF SmokeInv, ArmMoves
<1>2. ASSUME NEW d \in Arms, d # c
      PROVE  RowInv(r, d)'
  BY <1>2 DEF SmokeInv, RowInv, ArmMoves
<1> QED BY <1>1, <1>2 DEF SmokeInv

\* The Epicure-on arm opens its MCP session, which has a row of its own.
LEMMA SessionStep ==
  ASSUME SmokeInv, NEW r \in Runs, open_session(r) \/ session_fails(r)
  PROVE  SmokeInv'
<1> USE DEF open_session, session_fails, journal_event
<1> "on" \in Arms
  BY DEF Arms
<1>1. SmokeTypeOK'
  <2>1. CASE open_session(r)
    BY <2>1, ZenonT(60) DEF SmokeInv, SmokeTypeOK, Attempts
  <2>2. CASE session_fails(r)
    BY <2>2 DEF SmokeInv, SmokeTypeOK
  <2> QED BY <2>1, <2>2
<1>2. ArmMoves(r, "on")
  BY DEF SmokeInv, SmokeTypeOK, ArmMoves, Untouched, Attempts, Arms
<1>3. RowInv(r, "on")'
  <2>1. /\ acct'[r]["on"] = acct[r]["on"] /\ billed'[r]["on"] = billed[r]["on"]
        /\ events'[r]["on"] = events[r]["on"]
        /\ arm[r]["on"] \in Unsent /\ arm'[r]["on"] \in {"session", "toolless"}
    BY DEF SmokeInv, SmokeTypeOK, Attempts, Arms, Unsent
  <2>2. RowInv(r, "on")
    BY DEF SmokeInv
  <2> QED BY <2>1, <2>2 DEF RowInv, Unsent, Ended, OutcomeEvent, Charged, Refused
<1>4. ProcInv(r)'
  BY DEF SmokeInv, SmokeTypeOK, ProcInv
<1> QED BY <1>1, <1>2, <1>3, <1>4, ArmMovesInv

\* A request leaves.
LEMMA SendStep ==
  ASSUME SmokeInv, NEW r \in Runs, NEW c \in Arms, send_request(r, c)
  PROVE  SmokeInv'
<1> USE DEF send_request, journal_event
<1>1. SmokeTypeOK'
  BY ZenonT(60) DEF SmokeInv, SmokeTypeOK, Attempts
<1>2. ArmMoves(r, c)
  BY DEF SmokeInv, SmokeTypeOK, ArmMoves, Untouched, Attempts
<1>3. RowInv(r, c)'
  <2>1. /\ arm[r][c] \in Unsent /\ arm'[r][c] = "sent"
        /\ acct'[r][c] = acct[r][c] /\ billed'[r][c] = billed[r][c]
        /\ events'[r][c] = events[r][c] \cup {"request_started"}
    BY DEF SmokeInv, SmokeTypeOK, Attempts, Unsent
  <2>2. RowInv(r, c)
    BY DEF SmokeInv
  <2> QED BY <2>1, <2>2 DEF RowInv, Unsent, Ended, OutcomeEvent, Charged, Refused
<1>4. ProcInv(r)'
  BY DEF SmokeInv, SmokeTypeOK, ProcInv
<1> QED BY <1>1, <1>2, <1>3, <1>4, ArmMovesInv

\* The fate of a request becomes known.
LEMMA FateStep ==
  ASSUME SmokeInv, NEW r \in Runs, NEW c \in Arms, NEW o \in Outcomes, request_ends(r, c, o)
  PROVE  SmokeInv'
<1> USE DEF request_ends, journal_event
<1> o \in Ended
  BY LiveSmokeConstants DEF Ended
<1>1. SmokeTypeOK'
  <2> SmokeTypeOK /\ c \in Attempts
    BY DEF SmokeInv, Attempts
  <2>1. arm' \in [Runs -> [Arms -> DOMAIN OutcomeEvent \cup
                                  {"idle", "session", "toolless", "sent"}]]
    BY DEF SmokeTypeOK, Ended
  <2>2. last' \in [Runs -> Attempts \cup {"none"}]
    BY DEF SmokeTypeOK
  <2>3. events' \in [Runs -> [Attempts -> SUBSET (Received \cup SafeTerminals \cup
                      UnsafeTerminals \cup {"request_started", "accounting_reconciled",
                                            "mcp_session_started"})]]
    BY OutcomeEventType DEF SmokeTypeOK
  <2> QED BY <2>1, <2>2, <2>3 DEF SmokeTypeOK
<1>2. ArmMoves(r, c)
  BY DEF SmokeInv, SmokeTypeOK, ArmMoves, Untouched, Attempts
<1>3. RowInv(r, c)'
  <2>1. /\ arm[r][c] = "sent" /\ arm'[r][c] = o
        /\ acct'[r][c] = acct[r][c] /\ billed'[r][c] = billed[r][c]
        /\ events'[r][c] = events[r][c] \cup OutcomeEvent[o]
        /\ o \in Charged => billed[r][c]
        /\ o \in Refused => ~billed[r][c]
    BY DEF SmokeInv, SmokeTypeOK, Attempts
  <2>2. RowInv(r, c)
    BY DEF SmokeInv
  <2> QED BY <2>1, <2>2, OutcomeEventType DEF RowInv
<1>4. ProcInv(r)'
  BY DEF SmokeInv, SmokeTypeOK, ProcInv
<1> QED BY <1>1, <1>2, <1>3, <1>4, ArmMovesInv

\* The provider charges for a request, whatever became of the process.
LEMMA BillStep ==
  ASSUME SmokeInv, NEW r \in Runs, NEW c \in Arms, provider_bills(r, c)
  PROVE  SmokeInv'
<1> USE DEF provider_bills
<1>1. SmokeTypeOK'
  BY DEF SmokeInv, SmokeTypeOK
<1>2. ArmMoves(r, c)
  BY DEF SmokeInv, SmokeTypeOK, ArmMoves, Untouched
<1>3. RowInv(r, c)'
  <2>1. /\ arm'[r][c] = arm[r][c] /\ acct'[r][c] = acct[r][c]
        /\ events'[r][c] = events[r][c] /\ billed'[r][c]
        /\ arm[r][c] \in {"sent", "uncertain", "lost"}
    BY DEF SmokeInv, SmokeTypeOK
  <2>2. RowInv(r, c)
    BY DEF SmokeInv
  <2> QED BY <2>1, <2>2 DEF RowInv, Unsent, Refused
<1>4. ProcInv(r)'
  BY DEF SmokeInv, ProcInv, Gathered, LookedUp
<1> QED BY <1>1, <1>2, <1>3, <1>4, ArmMovesInv

\* A generation is looked up.
LEMMA LookupStep ==
  ASSUME SmokeInv, NEW r \in Runs, NEW c \in Arms, NEW b \in BOOLEAN, generation_cost(r, c, b)
  PROVE  SmokeInv'
<1> USE DEF generation_cost, journal_event
<1>1. SmokeTypeOK'
  <2> SmokeTypeOK /\ c \in Attempts
    BY DEF SmokeInv, Attempts
  <2>1. acct' \in [Runs -> [Arms -> {"none", "reconciled", "unreconciled"}]]
    BY DEF SmokeTypeOK
  <2>2. last' \in [Runs -> Attempts \cup {"none"}]
    BY DEF SmokeTypeOK
  <2>3. events' \in [Runs -> [Attempts -> SUBSET (Received \cup SafeTerminals \cup
                      UnsafeTerminals \cup {"request_started", "accounting_reconciled",
                                            "mcp_session_started"})]]
    BY DEF SmokeTypeOK
  <2> QED BY <2>1, <2>2, <2>3 DEF SmokeTypeOK
<1>2. ArmMoves(r, c)
  BY DEF SmokeInv, SmokeTypeOK, ArmMoves, Untouched, Attempts
<1>3. RowInv(r, c)'
  <2>1. /\ arm'[r][c] = arm[r][c] /\ billed'[r][c] = billed[r][c]
        /\ arm[r][c] \in Results \cup Incomplete /\ acct[r][c] = "none"
        /\ acct'[r][c] = (IF b THEN "reconciled" ELSE "unreconciled")
        /\ events'[r][c] = events[r][c] \cup (IF b THEN {"accounting_reconciled"} ELSE {})
    BY DEF SmokeInv, SmokeTypeOK, Attempts
  <2>2. RowInv(r, c)
    BY DEF SmokeInv
  <2>3. arm[r][c] \in Ended
    BY <2>1 DEF Ended, OutcomeEvent, Results, Incomplete
  <2> QED BY <2>1, <2>2, <2>3, OutcomeEventType DEF RowInv
<1>4. ProcInv(r)'
  BY DEF SmokeInv, SmokeTypeOK, ProcInv, Gathered, LookedUp
<1> QED BY <1>1, <1>2, <1>3, <1>4, ArmMovesInv

\* Whatever step a subprocess takes, SmokeInv holds after it.
THEOREM SmokeStepInv ==
  ASSUME SmokeInv, NEW r \in Runs, SmokeStep(r)
  PROVE  SmokeInv'
  BY ProcessStep, SessionStep, SendStep, FateStep, LookupStep, BillStep DEF SmokeStep, RunStep

-----------------------------------------------------------------------------
(***************************************************************************)
(* What SmokeInv says about money.                                         *)
(***************************************************************************)
\* What recovery_state calls safe to replay was not charged and will not be.
THEOREM ReplayIsFree == SmokeInv => SafeToReplayIsFree
<1> SUFFICES ASSUME SmokeInv, NEW r \in Runs, safe_to_replay(r), NEW c \in Arms
             PROVE  ~billed[r][c] /\ arm[r][c] \notin {"sent", "uncertain", "lost"}
  BY DEF SafeToReplayIsFree
<1> c \in Attempts
  BY DEF Attempts
<1>1. arm[r][c] \in Ended \cup Unsent \cup {"sent"} /\ RowInv(r, c)
  BY DEF SmokeInv, SmokeTypeOK, Ended, Unsent
<1>2. CASE events[r][c] = {}
  BY <1>1, <1>2 DEF RowInv, Unsent
<1>3. CASE events[r][c] \cap SafeTerminals # {}
  <2>1. arm[r][c] \in Ended
    BY <1>1, <1>3 DEF RowInv, SafeTerminals
  <2>2. OutcomeEvent[arm[r][c]] \cap SafeTerminals # {}
    BY <1>1, <1>3, <2>1 DEF RowInv, SafeTerminals
  <2>3. arm[r][c] \in Refused
    BY <2>1, <2>2 DEF Ended, OutcomeEvent, SafeTerminals, Refused
  <2> QED BY <1>1, <2>3 DEF RowInv, Refused
<1> QED BY <1>2, <1>3 DEF safe_to_replay

\* A charge is an integer, and two arms are charged at most twice the price.
LEMMA CostBound ==
  ASSUME NEW r
  PROVE  /\ Billed(r) \in 0..(2 * ArmCost) /\ ActualCost(r) \in 0..(2 * ArmCost)
         /\ Billed(r) \in Nat /\ ActualCost(r) \in Nat
  BY LiveSmokeConstants DEF Billed, ActualCost, Cost

\* Nothing is charged before the arms start.
LEMMA NothingBeforeArms ==
  ASSUME SmokeInv, NEW r \in Runs,
         proc[r] \in {"none", "boot", "created", "preflight", "refused"}
  PROVE  Billed(r) = 0
  BY DEF SmokeInv, ProcInv, RowInv, Unsent, Billed, Cost, Arms

\* An artifact that counts as accounted reports exactly what is charged: although
\* fully_accounted looks at the attempt of the last event instead of each one.
THEOREM AccountedIsExact ==
  ASSUME SmokeInv, NEW r \in Runs, Gathered(r), LookedUp(r), AccountedSource(r)
  PROVE  \A c \in Arms : /\ billed[r][c] <=> acct[r][c] = "reconciled"
                         /\ arm[r][c] \notin {"sent", "uncertain", "lost"}
<1> SUFFICES ASSUME NEW c \in Arms
             PROVE  /\ billed[r][c] <=> acct[r][c] = "reconciled"
                    /\ arm[r][c] \notin {"sent", "uncertain", "lost"}
  OBVIOUS
<1>1. /\ RowInv(r, c) /\ arm[r][c] \in Ended \cup {"toolless"}
      /\ acct[r][c] \in {"none", "reconciled", "unreconciled"}
  BY DEF SmokeInv, SmokeTypeOK, Gathered
<1>2. CASE complete(r)
  BY <1>1, <1>2 DEF complete, RowInv, Charged, Ended, OutcomeEvent
<1>3. CASE fully_accounted(r) /\ events[r][c] = {}
  BY <1>1, <1>3 DEF RowInv, Unsent, Ended, OutcomeEvent, Incomplete
<1>4. CASE fully_accounted(r) /\ events[r][c] # {}
  <2>1. /\ acct[r][c] # "unreconciled" /\ "response_received_no_id" \notin events[r][c]
        /\ events[r][c] \cap UnsafeTerminals = {}
        /\ "response_received" \in events[r][c] \/
             events[r][c] \cap {"pre_send_failure", "request_rejected"} # {}
    BY <1>4 DEF fully_accounted
  <2>2. arm[r][c] \in Ended
    BY <1>1, <1>4 DEF RowInv, Unsent
  <2>3. events[r][c] = {"request_started"} \cup OutcomeEvent[arm[r][c]] \cup
                        (IF acct[r][c] = "reconciled" THEN {"accounting_reconciled"} ELSE {})
    BY <1>1, <2>2 DEF RowInv
  <2>4. arm[r][c] \in Results \cup {"unusable", "rejected", "presend"}
    BY <2>1, <2>2, <2>3 DEF Ended, OutcomeEvent, Results, UnsafeTerminals
  <2>5. CASE arm[r][c] \in Results \cup {"unusable"}
    <3>1. acct[r][c] = "reconciled"
      BY <1>1, <2>1, <2>5 DEF Results, Gathered, LookedUp, Incomplete
    <3> QED BY <1>1, <2>5, <3>1 DEF RowInv, Charged, Results
  <2>6. CASE arm[r][c] \in {"rejected", "presend"}
    BY <1>1, <2>1, <2>6 DEF RowInv, Refused, Results, Incomplete
  <2> QED BY <2>4, <2>5, <2>6
<1> QED BY <1>2, <1>3, <1>4 DEF AccountedSource

\* The cost an accounted artifact reports is the money charged.
LEMMA AccountedCost ==
  ASSUME SmokeInv, NEW r \in Runs, Gathered(r), LookedUp(r), AccountedSource(r)
  PROVE  ActualCost(r) = Billed(r)
<1>1. "off" \in Arms /\ "on" \in Arms
  BY DEF Arms
<1>2. (billed[r]["off"] <=> acct[r]["off"] = "reconciled")
      /\ (billed[r]["on"] <=> acct[r]["on"] = "reconciled")
  BY <1>1, AccountedIsExact
<1> QED BY <1>2 DEF ActualCost, Billed, Cost

\* What an artifact says of its arms.
ArmsOf(r) == <<arm[r], acct[r], events[r], last[r]>>

\* No step changes what a written artifact says: later charges are of requests
\* that the artifact does not account for.
LEMMA WrittenIsFrozen ==
  ASSUME SmokeInv, NEW r \in Runs, art[r] = "whole", NEW w \in Runs,
         SmokeStep(w) \/ (launch(w) /\ proc[w] = "none")
  PROVE  UNCHANGED ArmsOf(r) /\ art'[r] = "whole"
<1> USE DEF ArmsOf
<1>1. proc[r] \in {"exiting", "exited", "dead"}
  BY DEF SmokeInv, ProcInv
<1>2. CASE launch(w) /\ proc[w] = "none"
  BY <1>1, <1>2 DEF launch
<1>3. CASE RunStep(w) \/ dies(w)
  BY <1>1, <1>3 DEF SmokeInv, SmokeTypeOK, RunStep, dies, create_journal, run_started,
    preflight_passes, preflight_fails, open_session, session_fails, send_request,
    request_ends, generation_cost, journal_event, gather, finalize_journal, open_artifact,
    write_artifact, exit
<1>4. CASE \E c \in Arms : provider_bills(w, c)
  BY <1>4 DEF provider_bills
<1> QED BY <1>2, <1>3, <1>4 DEF SmokeStep

\* A subprocess that was launched stays launched, and no step launches one.
LEMMA StaysLaunched ==
  ASSUME SmokeInv, NEW w \in Runs, SmokeStep(w), NEW v \in Runs
  PROVE  proc'[v] = "none" <=> proc[v] = "none"
<1>1. ASSUME NEW c \in Arms, provider_bills(w, c)
      PROVE  proc' = proc
  BY <1>1 DEF provider_bills
<1>2. CASE RunStep(w) \/ dies(w)
  BY <1>2 DEF SmokeInv, SmokeTypeOK, RunStep, dies, Live, create_journal, run_started,
    preflight_passes, preflight_fails, open_session, session_fails, send_request,
    request_ends, generation_cost, gather, finalize_journal, open_artifact,
    write_artifact, exit
<1> QED BY <1>1, <1>2 DEF SmokeStep

-----------------------------------------------------------------------------
(***************************************************************************)
(* THE RUNNER                                                              *)
(***************************************************************************)
\* The ledger lock is held by an invocation that has read the files, or by the
\* resolver between its two writes.
LockInv ==
  /\ llock = "run" <=> pc \notin {"idle", "locking"}
  /\ llock = "resolve" <=> resolver # 0

\* Where the loop is.  In the execute mode all earlier items are recorded.
LoopInv ==
  /\ pc \in {"idle", "locking", "plan"} => item = 1 /\ started = 0
  /\ pc \in {"loop", "launch"} => started < item
  /\ pc \in {"wait", "timed_out", "respond"} => started <= item
  /\ pc \in {"launch", "wait", "timed_out", "respond"} =>
       item \in Runs /\ Reserved(item) /\ ~Has(item, "recorded")
  /\ mode = "execute" /\ pc \in {"loop", "launch", "wait", "timed_out", "respond"} =>
       \A v \in Runs : v < item => Has(v, "recorded")

\* A subprocess exists exactly for a launched item, and its item is reserved; the
\* item about to be launched was never launched.
LaunchInv ==
  /\ \A w \in Runs : /\ launches[w] \in {0, 1}
                     /\ launches[w] = 0 <=> proc[w] = "none"
                     /\ launches[w] = 1 => Reserved(w)
  /\ pc = "launch" => launches[item] = 0

\* Responses and closures are of sources that are not recorded yet, or agree
\* with their record.
SourceInv ==
  /\ \A w \in Runs : /\ responses[w] \subseteq normalizable(w)
                     /\ responses[w] # {} => Source(w)
  /\ pc = "respond" =>
       Source(item) /\ (basis(item) = "full" => Has(item, "unreconciled"))
  /\ resolver # 0 => Source(resolver) /\ ~Has(resolver, "recorded")

\* Items are reserved in workload order, each after the last one was recorded.
OrderInv == \A v, w \in Runs : v < w /\ Reserved(w) => Has(v, "recorded")

IInv ==
  /\ TypeOK /\ SmokeInv
  /\ LockInv /\ LoopInv /\ LaunchInv /\ SourceInv /\ OrderInv /\ RecordStands

-----------------------------------------------------------------------------
(***************************************************************************)
(* What the files say stays what they say.                                 *)
(***************************************************************************)
\* The artifacts say the same while no subprocess moves.
LEMMA SameArtifacts ==
  ASSUME UNCHANGED smokevars, NEW w
  PROVE  /\ AccountedSource(w)' = AccountedSource(w)
         /\ normalizable(w)' = normalizable(w)
         /\ Source(w)' = Source(w)
  BY DEF smokevars, AccountedSource, complete, fully_accounted, normalizable, Source

\* The exposure basis of a source follows its artifact and its resolution.
LEMMA SameBasis ==
  ASSUME NEW w, AccountedSource(w)' = AccountedSource(w), Resolved(w)' = Resolved(w)
  PROVE  basis(w)' = basis(w)
  BY DEF basis

\* A written artifact says the same when some subprocess moves.
LEMMA SameWrittenArtifact ==
  ASSUME SmokeInv, NEW w \in Runs, Source(w), NEW v \in Runs,
         SmokeStep(v) \/ (launch(v) /\ proc[v] = "none")
  PROVE  /\ AccountedSource(w)' = AccountedSource(w)
         /\ normalizable(w)' = normalizable(w)
         /\ Source(w)'
<1>1. UNCHANGED ArmsOf(w) /\ art'[w] = "whole"
  BY WrittenIsFrozen DEF Source
<1> QED BY <1>1 DEF ArmsOf, AccountedSource, complete, fully_accounted, normalizable, Source

\* SmokeTypeOK and SmokeInv only speak of the subprocesses.
LEMMA SameSmokeType == SmokeTypeOK /\ UNCHANGED smokevars => SmokeTypeOK'
  BY DEF smokevars, SmokeTypeOK

\* And so does SmokeInv.
LEMMA SameSmoke == SmokeInv /\ UNCHANGED smokevars => SmokeInv'
  BY DEF smokevars, SmokeInv, SmokeTypeOK, ProcInv, RowInv, Gathered, LookedUp

-----------------------------------------------------------------------------
(***************************************************************************)
(* The steps of an invocation that write no file.                          *)
(***************************************************************************)
\* A step that writes nothing has to respect where the invocation is.
LEMMA NoWriteStep ==
  ASSUME IInv, UNCHANGED <<smokevars, files, prior, resolver, launches>>,
         TypeOK', LockInv', LoopInv', pc' # "launch",
         pc' = "respond" =>
           pc = "loop" /\ item' = item /\ Source(item) /\
           (basis(item) = "full" => Has(item, "unreconciled"))
  PROVE  IInv'
<1> USE DEF files
<1>1. SmokeInv'
  BY SameSmoke DEF IInv
<1>2. LaunchInv' /\ OrderInv'
  BY DEF IInv, LaunchInv, OrderInv, Reserved, Has, smokevars
<1>3. \A w : basis(w)' = basis(w)
  BY SameArtifacts, SameBasis DEF Resolved, Has
<1>4. SourceInv'
  BY <1>3, SameArtifacts DEF IInv, SourceInv, Has
<1>5. RecordStands'
  BY <1>3, SameArtifacts DEF IInv, RecordStands, Has
<1> QED BY <1>1, <1>2, <1>4, <1>5 DEF IInv

\* An invocation begins, reads the files, ends, or is killed.
LEMMA EnterLeaveStep ==
  ASSUME IInv,
         (\E m \in Modes : invoke(m)) \/ lock_ledger \/ plan \/ loop_stops \/ loop_raises
           \/ finish \/ runner_crashes
  PROVE  IInv'
<1> USE RunnerConstants DEF invoke, lock_ledger, plan, loop_stops, loop_raises, finish,
        runner_crashes, leave, goto, OnlyRunner
<1>1. UNCHANGED <<smokevars, files, prior, resolver, launches>>
  BY DEF files
<1>2. TypeOK'
  BY <1>1, SameSmokeType, SMTT(30) DEF IInv, TypeOK, files
<1>3. LockInv'
  BY DEF IInv, LockInv, TypeOK
<1>4. LoopInv'
  BY <1>1 DEF IInv, LoopInv, TypeOK, files
<1> QED BY <1>1, <1>2, <1>3, <1>4, NoWriteStep DEF IInv, TypeOK

\* The loop goes to the next item, or finalizes the source of this one.
LEMMA SkipRecoverStep ==
  ASSUME IInv, skip_item \/ recover_source
  PROVE  IInv'
<1> USE RunnerConstants DEF skip_item, recover_source, next_item, goto, OnlyRunner
<1>1. UNCHANGED <<smokevars, files, prior, resolver, launches>>
  BY DEF files
<1>2. TypeOK'
  BY <1>1, SameSmokeType, SMTT(30) DEF IInv, TypeOK, files
<1>3. LockInv'
  BY DEF IInv, LockInv, TypeOK
<1>4. LoopInv'
  BY <1>1 DEF IInv, LoopInv, TypeOK, files, Has, Reserved
<1> QED BY <1>1, <1>2, <1>3, <1>4, NoWriteStep DEF Unresolved

-----------------------------------------------------------------------------
(***************************************************************************)
(* The steps of an invocation that append to the ledger.                   *)
(***************************************************************************)
\* An incident in the ledger changes neither what is reserved nor what is
\* recorded or resolved.
LEMMA IncidentStep ==
  ASSUME IInv, NEW e \in Incidents, item \in Runs, append(item, e),
         UNCHANGED <<smokevars, recorded, responses, resfile, prior, resolver, launches>>,
         TypeOK', LockInv', LoopInv', pc' \notin {"launch", "respond"}
  PROVE  IInv'
<1>1. /\ \A w \in Runs : ledger[w] \subseteq ledger'[w]
      /\ \A w \in Runs : \A x : x \notin Incidents => (x \in ledger'[w] <=> x \in ledger[w])
  BY DEF append, IInv, TypeOK
<1>2. SmokeInv'
  BY SameSmoke DEF IInv
<1>3. LaunchInv' /\ OrderInv'
  BY <1>1 DEF IInv, LaunchInv, OrderInv, Reserved, Has, smokevars, Incidents
<1>4. ASSUME NEW w \in Runs
      PROVE  basis(w)' = basis(w)
  BY <1>1, SameArtifacts, SameBasis DEF Resolved, Has, Incidents
<1>5. SourceInv'
  <2>1. SourceInv /\ resolver \in Runs \cup {0}
    BY DEF IInv, TypeOK
  <2> QED BY <1>1, <2>1, SameArtifacts DEF SourceInv, Has, Incidents
<1>6. RecordStands'
  BY <1>1, <1>4, SameArtifacts DEF IInv, RecordStands, Has, Incidents
<1> QED BY <1>2, <1>3, <1>5, <1>6 DEF IInv

\* The types that an append to the ledger does not touch.
LEMMA AppendType ==
  ASSUME TypeOK, NEW w \in Runs, NEW e \in LedgerEvents, append(w, e)
  PROVE  ledger' \in [Runs -> SUBSET LedgerEvents]
  BY DEF TypeOK, append

\* A timeout, a missing artifact or a bad source ends the invocation.
LEMMA IncidentSteps ==
  ASSUME IInv, record_timeout \/ no_artifact \/ postflight
  PROVE  IInv'
<1>1. /\ pc \in {"wait", "timed_out"} /\ item \in Runs
      /\ UNCHANGED <<smokevars, recorded, responses, resfile, prior, resolver, launches, crashes>>
  BY DEF IInv, LoopInv, record_timeout, no_artifact, postflight, OnlyRunner
<1>2. \/ leave /\ UNCHANGED ledger
      \/ \E e \in Incidents : goto("end") /\ append(item, e)
      \/ goto("respond") /\ UNCHANGED ledger /\ proc[item] = "exited" /\ ~Unresolved(item)
  BY DEF record_timeout, no_artifact, postflight, record_incident, Incidents
<1>3. CASE leave /\ UNCHANGED ledger
  <2>1. TypeOK'
    BY <1>1, <1>3, RunnerConstants, SameSmokeType DEF IInv, TypeOK, leave
  <2>2. LockInv' /\ LoopInv'
    BY <1>1, <1>3 DEF IInv, LockInv, LoopInv, leave
  <2> QED BY <1>1, <1>3, <2>1, <2>2, NoWriteStep DEF files, leave
<1>4. CASE goto("respond") /\ UNCHANGED ledger /\ proc[item] = "exited" /\ ~Unresolved(item)
  <2> USE <1>4 DEF goto
  <2>1. TypeOK' /\ LockInv'
    BY <1>1, SameSmokeType DEF IInv, TypeOK, LockInv
  <2>2. LoopInv'
    BY <1>1 DEF IInv, LoopInv, Has, Reserved
  <2>3. Source(item) /\ basis(item) # "full"
    BY <1>1 DEF IInv, SmokeInv, ProcInv, Source, Unresolved
  <2>4. LaunchInv' /\ OrderInv' /\ SmokeInv'
    BY <1>1, SameSmoke DEF IInv, LaunchInv, OrderInv, Reserved, Has, smokevars
  <2>5. \A w : basis(w)' = basis(w)
    BY <1>1, SameArtifacts, SameBasis DEF Resolved, Has
  <2>6. SourceInv' /\ RecordStands'
    BY <1>1, <2>3, <2>5, SameArtifacts DEF IInv, SourceInv, RecordStands, Has
  <2> QED BY <2>1, <2>2, <2>4, <2>6 DEF IInv
<1>5. ASSUME NEW e \in Incidents, goto("end"), append(item, e)
      PROVE  IInv'
  <2> USE <1>5 DEF goto
  <2>1. ledger' \in [Runs -> SUBSET LedgerEvents]
    BY <1>1, AppendType DEF IInv, LedgerEvents
  <2>2. TypeOK' /\ LockInv'
    BY <1>1, <2>1, SameSmokeType DEF IInv, TypeOK, LockInv
  <2>3. LoopInv'
    BY <1>1 DEF LoopInv
  <2> QED BY <1>1, <2>2, <2>3, IncidentStep
<1> QED BY <1>2, <1>3, <1>4, <1>5

\* Admission of an item: all earlier ones are recorded, and it was never launched.
LEMMA ReserveStep ==
  ASSUME IInv, reserve
  PROVE  IInv'
<1>1. /\ pc = "loop" /\ pc' = "launch" /\ mode = "execute" /\ item \in Runs /\ ~Reserved(item)
      /\ append(item, "reservation")
      /\ UNCHANGED <<smokevars, recorded, responses, resfile, prior, resolver, launches,
                     crashes, lock, llock, mode, item, started>>
  BY RunnerConstants DEF reserve, goto, OnlyRunner, IInv, TypeOK
<1>2. /\ ledger' \in [Runs -> SUBSET LedgerEvents]
      /\ \A w \in Runs : \A x : x # "reservation" => (Has(w, x)' <=> Has(w, x))
      /\ \A w \in Runs : Reserved(w)' <=> Reserved(w) \/ w = item
  BY <1>1, AppendType DEF append, IInv, TypeOK, LedgerEvents, Has, Reserved
<1>3. TypeOK' /\ LockInv'
  BY <1>1, <1>2, SameSmokeType DEF IInv, TypeOK, LockInv
<1>4. SmokeInv'
  BY <1>1, SameSmoke DEF IInv
<1>5. \A v \in Runs : v < item => Has(v, "recorded")
  BY <1>1 DEF IInv, LoopInv
<1>6. ~Has(item, "recorded") /\ launches[item] = 0
  BY <1>1 DEF IInv, RecordStands, LaunchInv, SmokeInv, ProcInv, Source
<1>7. LoopInv'
  BY <1>1, <1>2, <1>5, <1>6 DEF IInv, LoopInv
<1>8. LaunchInv'
  BY <1>1, <1>2, <1>6 DEF IInv, LaunchInv, smokevars
<1>9. OrderInv'
  BY <1>1, <1>2, <1>5 DEF IInv, OrderInv
<1>10. ASSUME NEW w \in Runs
       PROVE  basis(w)' = basis(w)
  <2>1. Resolved(w)' = Resolved(w)
    BY <1>2 DEF Resolved, Has
  <2> QED BY <1>1, <2>1, SameArtifacts, SameBasis
<1>11. SourceInv' /\ RecordStands'
  BY <1>1, <1>2, <1>10, SameArtifacts DEF IInv, TypeOK, SourceInv, RecordStands
<1> QED BY <1>3, <1>4, <1>7, <1>8, <1>9, <1>11 DEF IInv

-----------------------------------------------------------------------------
(***************************************************************************)
(* The responses and the record of a source.                               *)
(***************************************************************************)
\* A response is written for a source that is not recorded yet.
LEMMA ResponseStep ==
  ASSUME IInv, NEW c \in Arms, write_response(c)
  PROVE  IInv'
<1>1. /\ pc = "respond" /\ c \in normalizable(item)
      /\ responses' = [responses EXCEPT ![item] = @ \cup {c}]
      /\ UNCHANGED <<runner, llock, ledger, smokevars, prior, recorded, resolver, resfile,
                     launches, crashes>>
  BY DEF write_response
<1>2. item \in Runs /\ ~Has(item, "recorded") /\ Source(item)
  BY <1>1 DEF IInv, LoopInv, SourceInv
<1>3. /\ responses' \in [Runs -> SUBSET Arms]
      /\ responses'[item] \subseteq normalizable(item)
      /\ \A w \in Runs : w # item => responses'[w] = responses[w]
  BY <1>1, <1>2 DEF IInv, TypeOK, SourceInv
<1>4. TypeOK' /\ LockInv'
  BY <1>1, <1>3, SameSmokeType DEF IInv, TypeOK, LockInv, runner
<1>5. LoopInv' /\ LaunchInv' /\ OrderInv'
  BY <1>1 DEF IInv, LoopInv, LaunchInv, OrderInv, runner, Has, Reserved, smokevars
<1>6. SmokeInv'
  BY <1>1, SameSmoke DEF IInv
<1>7. \A w : basis(w)' = basis(w)
  BY <1>1, SameArtifacts, SameBasis DEF Resolved, Has
<1>8. SourceInv'
  BY <1>1, <1>2, <1>3, <1>7, SameArtifacts DEF IInv, SourceInv, Has, runner
<1>9. RecordStands'
  BY <1>1, <1>2, <1>3, <1>7, SameArtifacts DEF IInv, RecordStands, Has
<1> QED BY <1>4, <1>5, <1>6, <1>8, <1>9 DEF IInv

\* The record of a source agrees with its files at the moment it is written.
LEMMA FinalizeStep ==
  ASSUME IInv, finalize_source
  PROVE  IInv'
<1>1. /\ pc = "respond" /\ normalizable(item) \subseteq responses[item]
      /\ UNCHANGED <<smokevars, prior, responses, resolver, resfile, launches, crashes>>
      /\ \/ leave /\ UNCHANGED <<ledger, recorded>>
         \/ /\ next_item /\ append(item, "recorded")
            /\ recorded' = [recorded EXCEPT ![item] =
                              [basis |-> basis(item), conditions |-> normalizable(item)]]
  BY DEF finalize_source
<1>2. /\ item \in Runs /\ Source(item) /\ Reserved(item) /\ started <= item
      /\ responses[item] = normalizable(item)
      /\ basis(item) = "full" => Has(item, "unreconciled")
      /\ resolver = 0 /\ llock = "run"
  BY <1>1 DEF IInv, LoopInv, SourceInv, LockInv
<1>3. CASE leave /\ UNCHANGED <<ledger, recorded>>
  <2>1. TypeOK'
    BY <1>1, <1>3, RunnerConstants, SameSmokeType DEF IInv, TypeOK, leave
  <2>2. LockInv' /\ LoopInv'
    BY <1>1, <1>2, <1>3 DEF LockInv, LoopInv, leave
  <2> QED BY <1>1, <1>3, <2>1, <2>2, NoWriteStep DEF files, leave
<1>4. CASE /\ next_item /\ append(item, "recorded")
           /\ recorded' = [recorded EXCEPT ![item] =
                             [basis |-> basis(item), conditions |-> normalizable(item)]]
  <2>1. /\ pc' = "loop" /\ item' = item + 1
        /\ UNCHANGED <<lock, llock, mode, started>>
    BY <1>4 DEF next_item
  <2>2. /\ ledger' \in [Runs -> SUBSET LedgerEvents]
        /\ \A w \in Runs : \A x : x # "recorded" => (Has(w, x)' <=> Has(w, x))
        /\ \A w \in Runs : Has(w, "recorded")' <=> Has(w, "recorded") \/ w = item
    BY <1>2, <1>4, AppendType DEF append, IInv, TypeOK, LedgerEvents, Has
  <2>3. /\ basis(item) \in {"actual", "full", "resolved"}
        /\ normalizable(item) \in SUBSET Arms
    BY DEF basis, normalizable
  <2>4. recorded' \in [Runs -> [basis : {"none", "actual", "full", "resolved"},
                                conditions : SUBSET Arms]]
    BY <1>2, <1>4, <2>3 DEF IInv, TypeOK
  <2>5. TypeOK'
    BY <1>1, <1>2, <2>1, <2>2, <2>4, SameSmokeType, RunnerConstants DEF IInv, TypeOK
  <2>6. LockInv'
    BY <1>1, <1>2, <2>1 DEF LockInv
  <2>7. LoopInv'
    BY <1>1, <1>2, <2>1, <2>2, RunnerConstants DEF IInv, TypeOK, LoopInv
  <2>8. LaunchInv' /\ OrderInv'
    BY <1>1, <2>1, <2>2 DEF IInv, LaunchInv, OrderInv, Reserved, smokevars
  <2>9. SmokeInv'
    BY <1>1, SameSmoke DEF IInv
  <2>10. ASSUME NEW w \in Runs
         PROVE  basis(w)' = basis(w)
    <3>1. Resolved(w)' = Resolved(w)
      BY <2>2 DEF Resolved, Has
    <3> QED BY <1>1, <3>1, SameArtifacts, SameBasis
  <2>11. SourceInv'
    BY <1>1, <1>2, <2>1, SameArtifacts DEF IInv, SourceInv
  <2>12. RecordStands'
    <3> SUFFICES ASSUME NEW w \in Runs, Has(w, "recorded")'
                 PROVE  (/\ Source(w)
                         /\ recorded[w] = [basis |-> basis(w), conditions |-> responses[w]]
                         /\ basis(w) = "full" => Has(w, "unreconciled"))'
      BY DEF RecordStands
    <3>1. CASE w = item
      BY <1>1, <1>2, <1>4, <2>2, <2>10, <3>1, SameArtifacts DEF IInv, TypeOK
    <3>2. CASE w # item
      BY <1>1, <1>2, <1>4, <2>2, <2>10, <3>2, SameArtifacts DEF IInv, TypeOK, RecordStands
    <3> QED BY <3>1, <3>2
  <2> QED BY <2>5, <2>6, <2>7, <2>8, <2>9, <2>11, <2>12 DEF IInv
<1> QED BY <1>1, <1>3, <1>4

-----------------------------------------------------------------------------
(***************************************************************************)
(* The resolver.                                                           *)
(***************************************************************************)
\* The resolver writes its artifact, or dies before it has appended the event.
LEMMA ResolveStep ==
  ASSUME IInv, (\E w \in Runs : resolve(w)) \/ resolver_crashes
  PROVE  IInv'
<1>1. UNCHANGED <<runner, smokevars, prior, recorded, responses, launches, ledger>>
  BY DEF resolve, resolver_crashes, OnlyResolver
<1>2. \/ /\ llock = "free" /\ llock' = "resolve" /\ crashes' = crashes
         /\ \E w \in Runs : /\ resolver' = w /\ resfile' = resfile \cup {w}
                            /\ Source(w) /\ ~Has(w, "recorded")
      \/ /\ llock = "resolve" /\ llock' = "free" /\ resolver' = 0
         /\ resfile' = resfile /\ crashes' = crashes + 1 /\ crashes < MaxCrashes
  BY DEF resolve, resolvable, resolver_crashes, Unresolved, OnlyResolver, IInv, LockInv
<1>3. TypeOK'
  <2>1. /\ llock' \in {"free", "run", "resolve"} /\ crashes' \in 0..MaxCrashes
        /\ resolver' \in Runs \cup {0}
    BY <1>2, RunnerConstants DEF IInv, TypeOK
  <2>2. resfile' \subseteq Runs
    BY <1>2 DEF IInv, TypeOK
  <2> QED BY <1>1, <2>1, <2>2, SameSmokeType DEF IInv, TypeOK, runner
<1>4. LockInv'
  BY <1>1, <1>2, RunnerConstants DEF IInv, LockInv, runner
<1>5. LoopInv' /\ LaunchInv' /\ OrderInv'
  BY <1>1 DEF IInv, LoopInv, LaunchInv, OrderInv, runner, Has, Reserved, smokevars
<1>6. SmokeInv'
  BY <1>1, SameSmoke DEF IInv
<1>7. \A w : basis(w)' = basis(w)
  BY <1>1, SameArtifacts, SameBasis DEF Resolved, Has
<1>8. SourceInv'
  BY <1>1, <1>2, <1>7, SameArtifacts DEF IInv, SourceInv, Has, runner
<1>9. RecordStands'
  BY <1>1, <1>7, SameArtifacts DEF IInv, RecordStands, Has
<1> QED BY <1>3, <1>4, <1>5, <1>6, <1>8, <1>9 DEF IInv

\* The event that makes a resolution effective changes the basis of a source
\* that no record describes and that no invocation is working on.
LEMMA ResolutionStep ==
  ASSUME IInv, record_resolution
  PROVE  IInv'
<1>1. /\ append(resolver, "resolution") /\ llock' = "free" /\ resolver' = 0
      /\ UNCHANGED <<runner, smokevars, prior, recorded, responses, launches, resfile, crashes>>
  BY DEF record_resolution, OnlyResolver
<1>2. /\ resolver \in Runs /\ ~Has(resolver, "recorded")
      /\ pc \in {"idle", "locking"}
  BY DEF record_resolution, IInv, TypeOK, SourceInv, LockInv
<1>3. /\ ledger' \in [Runs -> SUBSET LedgerEvents]
      /\ \A w \in Runs : \A x : x # "resolution" => (Has(w, x)' <=> Has(w, x))
      /\ \A w \in Runs : w # resolver => ledger'[w] = ledger[w]
  BY <1>1, <1>2, AppendType DEF append, IInv, TypeOK, LedgerEvents, Has
<1>4. TypeOK'
  BY <1>1, <1>3, SameSmokeType DEF IInv, TypeOK, runner
<1>5. LockInv' /\ LoopInv'
  BY <1>1, <1>2, <1>3 DEF IInv, LockInv, LoopInv, runner
<1>6. LaunchInv' /\ OrderInv'
  BY <1>1, <1>3 DEF IInv, LaunchInv, OrderInv, Reserved, smokevars, runner
<1>7. SmokeInv'
  BY <1>1, SameSmoke DEF IInv
<1>8. SourceInv'
  BY <1>1, <1>2, SameArtifacts DEF IInv, SourceInv, runner
<1>9. ASSUME NEW w \in Runs, w # resolver
      PROVE  basis(w)' = basis(w)
  <2>1. Resolved(w)' = Resolved(w)
    BY <1>3, <1>9 DEF Resolved, Has
  <2> QED BY <1>1, <2>1, SameArtifacts, SameBasis
<1>10. RecordStands'
  BY <1>1, <1>2, <1>3, <1>9, SameArtifacts DEF IInv, RecordStands
<1> QED BY <1>4, <1>5, <1>6, <1>7, <1>8, <1>10 DEF IInv

-----------------------------------------------------------------------------
(***************************************************************************)
(* The subprocesses.                                                       *)
(***************************************************************************)
\* A subprocess moves: what is written about a source stands.
LEMMA SubprocessMoves ==
  ASSUME IInv, NEW v \in Runs, SmokeStep(v) \/ (launch(v) /\ proc[v] = "none"),
         SmokeInv', pc' # "respond" \/ (pc' = pc /\ item' = item),
         UNCHANGED <<ledger, recorded, responses, resolver>>
  PROVE  SourceInv' /\ OrderInv' /\ RecordStands'
<1>1. ASSUME NEW w \in Runs, Source(w)
      PROVE  /\ basis(w)' = basis(w) /\ normalizable(w)' = normalizable(w) /\ Source(w)'
  BY <1>1, SameWrittenArtifact, SameBasis DEF IInv, Resolved, Has
<1>2. SourceInv'
  <2>1. ASSUME NEW w \in Runs
        PROVE  /\ responses'[w] \subseteq normalizable(w)'
               /\ responses'[w] # {} => Source(w)'
    BY <1>1 DEF IInv, SourceInv
  <2>2. pc' = "respond" => Source(item)' /\ (basis(item)' = "full" => Has(item, "unreconciled")')
    BY <1>1 DEF IInv, SourceInv, LoopInv, Has
  <2>3. resolver' # 0 => Source(resolver)' /\ ~Has(resolver, "recorded")'
    BY <1>1 DEF IInv, SourceInv, TypeOK, Has
  <2> QED BY <2>1, <2>2, <2>3 DEF SourceInv
<1>3. OrderInv'
  BY DEF IInv, OrderInv, Reserved, Has
<1>4. RecordStands'
  BY <1>1 DEF IInv, RecordStands, Has
<1> QED BY <1>2, <1>3, <1>4

\* The launch of the item that was just admitted, which has no process yet.
LEMMA LaunchStep ==
  ASSUME IInv, start_subprocess
  PROVE  IInv'
<1>1. /\ pc = "launch" /\ launch(item) /\ launches' = [launches EXCEPT ![item] = @ + 1]
      /\ started' = started + 1 /\ pc' = "wait"
      /\ UNCHANGED <<lock, llock, mode, item, ledger, prior, recorded, responses, resolver,
                     resfile, crashes>>
  BY DEF start_subprocess
<1>2. /\ item \in Runs /\ started < item /\ Reserved(item) /\ ~Has(item, "recorded")
      /\ launches[item] = 0 /\ proc[item] = "none"
      /\ started \in 0..N /\ item \in 1..N
  BY <1>1, RunnerConstants DEF IInv, LoopInv, LaunchInv, TypeOK
<1>3. SmokeInv'
  BY <1>1, <1>2, ProcessStep DEF IInv
<1>4. TypeOK'
  BY <1>1, <1>2, <1>3, RunnerConstants DEF IInv, TypeOK, SmokeInv
<1>5. LockInv'
  BY <1>1 DEF IInv, LockInv
<1>6. LoopInv'
  BY <1>1, <1>2 DEF IInv, LoopInv, TypeOK, Has, Reserved
<1>7. /\ launches'[item] = 1 /\ proc'[item] # "none"
      /\ \A w \in Runs : w # item => launches'[w] = launches[w] /\ proc'[w] = proc[w]
  BY <1>1, <1>2 DEF launch, IInv, TypeOK, SmokeTypeOK
<1>8. ledger' = ledger /\ pc' # "launch"
  BY <1>1
<1>9. LaunchInv'
  <2>1. ASSUME NEW w \in Runs
        PROVE  /\ launches'[w] \in {0, 1}
               /\ launches'[w] = 0 <=> proc'[w] = "none"
               /\ launches'[w] = 1 => Reserved(w)'
    <3>1. CASE w = item
      BY <1>2, <1>7, <1>8, <3>1 DEF Reserved, Has
    <3>2. CASE w # item
      BY <1>7, <1>8, <3>2 DEF IInv, LaunchInv, Reserved, Has
    <3> QED BY <3>1, <3>2
  <2> QED BY <1>8, <2>1 DEF LaunchInv
<1> QED BY <1>1, <1>2, <1>3, <1>4, <1>5, <1>6, <1>9, SubprocessMoves DEF IInv

\* A subprocess takes a step of its own.
LEMMA ChildStepInv ==
  ASSUME IInv, NEW w \in Runs, ChildStep(w)
  PROVE  IInv'
<1>1. /\ SmokeStep(w)
      /\ UNCHANGED <<pc, mode, item, started, lock, llock, ledger, recorded, responses,
                     resfile, prior, resolver, launches, crashes>>
  BY DEF ChildStep, runner, files
<1>2. SmokeInv'
  BY <1>1, SmokeStepInv DEF IInv
<1>3. TypeOK'
  BY <1>1, <1>2 DEF IInv, TypeOK, SmokeInv
<1>4. LockInv' /\ LoopInv'
  BY <1>1 DEF IInv, LockInv, LoopInv, Has, Reserved
<1>5. \A v \in Runs : proc'[v] = "none" <=> proc[v] = "none"
  BY <1>1, StaysLaunched DEF IInv
<1>6. LaunchInv'
  BY <1>1, <1>5 DEF IInv, LaunchInv, Reserved, Has
<1> QED BY <1>1, <1>2, <1>3, <1>4, <1>6, SubprocessMoves DEF IInv

\* The timeout kills the subprocess that the invocation waits for.
LEMMA TimeoutStep ==
  ASSUME IInv, timeout
  PROVE  IInv'
<1>1. /\ pc = "wait" /\ dies(item) /\ pc' = "timed_out"
      /\ UNCHANGED <<lock, llock, mode, item, started, ledger, prior, recorded, responses,
                     resolver, resfile, launches, crashes>>
  BY DEF timeout, goto
<1>2. item \in Runs /\ SmokeStep(item)
  BY <1>1 DEF IInv, LoopInv, SmokeStep
<1>3. SmokeInv'
  BY <1>2, SmokeStepInv DEF IInv
<1>4. TypeOK'
  BY <1>1, <1>3 DEF IInv, TypeOK, SmokeInv
<1>5. LockInv' /\ LoopInv'
  BY <1>1 DEF IInv, LockInv, LoopInv, Has, Reserved
<1>6. \A v \in Runs : proc'[v] = "none" <=> proc[v] = "none"
  BY <1>2, StaysLaunched DEF IInv
<1>7. LaunchInv'
  BY <1>1, <1>6 DEF IInv, LaunchInv, Reserved, Has
<1> QED BY <1>1, <1>2, <1>3, <1>4, <1>5, <1>7, SubprocessMoves DEF IInv

-----------------------------------------------------------------------------
(***************************************************************************)
(* The theorems.                                                           *)
(***************************************************************************)
\* IInv holds initially.
LEMMA InitIInv == Init => IInv
<1> SUFFICES ASSUME Init
             PROVE  IInv
  OBVIOUS
<1>1. SmokeInv
  BY SmokeInitInv DEF Init
<1>2. TypeOK
  BY <1>1, RunnerConstants DEF Init, TypeOK, SmokeInv
<1>3. \A w \in Runs : art[w] = "absent" /\ proc[w] = "none"
  BY DEF Init, SmokeInit
<1> QED BY <1>1, <1>2, <1>3 DEF Init, IInv, LockInv, LoopInv, LaunchInv, SourceInv, OrderInv,
           RecordStands, Has, Reserved, Source

\* Every step preserves IInv.
LEMMA NextIInv == IInv /\ [Next]_vars => IInv'
<1> SUFFICES ASSUME IInv, [Next]_vars
             PROVE  IInv'
  OBVIOUS
<1>1. CASE UNCHANGED vars
  <2>1. UNCHANGED <<smokevars, files, prior, resolver, launches>>
    BY <1>1 DEF vars, files
  <2>2. TypeOK' /\ LockInv' /\ LoopInv' /\ LaunchInv' /\ OrderInv'
    BY <1>1, <2>1, SameSmokeType DEF IInv, vars, TypeOK, LockInv, LoopInv, LaunchInv, OrderInv, Has, Reserved, smokevars
  <2>3. \A w : basis(w)' = basis(w)
    BY <2>1, SameArtifacts, SameBasis DEF Resolved, Has, files
  <2>4. SmokeInv' /\ SourceInv' /\ RecordStands'
    BY <1>1, <2>1, <2>3, SameSmoke, SameArtifacts DEF IInv, SourceInv, RecordStands, Has, files, vars
  <2> QED BY <2>2, <2>4 DEF IInv
<1>2. CASE Next
  BY <1>2, EnterLeaveStep, SkipRecoverStep, ReserveStep, LaunchStep, IncidentSteps,
     ResponseStep, FinalizeStep, ResolveStep, ResolutionStep, ChildStepInv, TimeoutStep
  DEF Next, RunnerStep
<1> QED BY <1>1, <1>2

\* The inductive invariant.
LEMMA IInvHolds == Spec => []IInv
  BY InitIInv, NextIInv, PTL DEF Spec

\* The state of the subprocesses, the runner and its files is well formed.
THEOREM TypeCorrect == Spec => []TypeOK
  BY IInvHolds, PTL DEF IInv

\* No crash, timeout, mode or number of invocations launches an item twice, or
\* without its reservation (the admission loop of run_real_exploratory_dataset).
THEOREM NeverLaunchedTwice == Spec => []LaunchedOnce
<1>1. IInv => LaunchedOnce
  <2> SUFFICES ASSUME IInv, NEW w \in Runs
               PROVE  launches[w] <= IF Has(w, "reservation") THEN 1 ELSE 0
    BY DEF LaunchedOnce
  <2> QED BY DEF IInv, LaunchInv, Reserved
<1> QED BY <1>1, IInvHolds, PTL

\* What a work item counts for in the books covers what the provider charges.
LEMMA CoveredByExposure ==
  ASSUME IInv, NEW w \in Runs
  PROVE  Billed(w) <= exposure(w)
<1> /\ Forecast \in Nat /\ 2 * ArmCost <= Forecast /\ ArmCost \in Nat
  BY RunnerConstants, LiveSmokeConstants
<1>1. Billed(w) <= Forecast
  BY CostBound
<1>2. CASE Source(w) /\ basis(w) = "actual"
  <2>1. AccountedSource(w)
    BY <1>2 DEF basis
  <2>2. Gathered(w) /\ LookedUp(w)
    BY <1>2 DEF IInv, SmokeInv, ProcInv, Source
  <2>3. ActualCost(w) = Billed(w)
    BY <2>1, <2>2, AccountedCost DEF IInv
  <2> QED BY <1>2, <2>3, CostBound DEF exposure
<1>3. CASE Source(w) /\ basis(w) # "actual"
  BY <1>1, <1>3 DEF exposure
<1>4. CASE ~Source(w) /\ Reserved(w)
  BY <1>1, <1>4 DEF exposure
<1>5. CASE ~Source(w) /\ ~Reserved(w)
  <2>1. proc[w] = "none"
    BY <1>5 DEF IInv, LaunchInv
  <2>2. Billed(w) = 0
    BY <2>1, NothingBeforeArms DEF IInv
  <2> QED BY <1>5, <2>2 DEF exposure
<1> QED BY <1>2, <1>3, <1>4, <1>5

\* At every moment the exposure of an item (scan_live_smoke_artifacts, the
\* reservations) covers its charges, those that arrive late included.
THEOREM SpendIsCovered == Spec => []ExposureCoversSpend
<1>1. IInv => ExposureCoversSpend
  BY CoveredByExposure DEF ExposureCoversSpend
<1> QED BY <1>1, IInvHolds, PTL

\* A source_artifact_recorded event keeps describing the files it names.
THEOREM RecordsStand == Spec => []RecordStands
  BY IInvHolds, PTL DEF IInv

\* Items run one after the other, orphans of a killed runner included.
THEOREM ItemsAreSequential == Spec => []StrictlySequential
<1>1. IInv => StrictlySequential
  <2>1. ASSUME IInv, NEW v \in Runs, NEW w \in Runs, v < w, Live(v), Live(w)
        PROVE  Source(v)
    <3>1. Reserved(w)
      BY <2>1 DEF IInv, LaunchInv, Live
    <3>2. Has(v, "recorded")
      BY <2>1, <3>1 DEF IInv, OrderInv
    <3> QED BY <2>1, <3>2 DEF IInv, RecordStands
  <2>2. \A v, w \in Runs : v < w \/ w < v \/ v = w
    BY RunnerConstants
  <2> QED BY <2>1, <2>2 DEF IInv, OrderInv, StrictlySequential
<1> QED BY <1>1, IInvHolds, PTL

\* recovery_state: what it calls safe to replay is free.
THEOREM ReplayCostsNothing == Spec => []SafeToReplayIsFree
<1>1. IInv => SafeToReplayIsFree
  BY ReplayIsFree DEF IInv
<1> QED BY <1>1, IInvHolds, PTL

-----------------------------------------------------------------------------
(***************************************************************************)
(* The rest of the block always fits: only an admission counts more, and   *)
(* it counts what remaining_block had counted for the item before.         *)
(***************************************************************************)
\* The resolver closes a source that counts in full, so that a resolution never
\* makes an item count for more.
ClosureInv == resolver # 0 => Unresolved(resolver)

\* What the runner itself computes for the whole block.
BlockCounted == (\E w \in Runs : Reserved(w)) => remaining_block <= Ceiling

BlockInv == IInv /\ prior \in Int /\ ClosureInv /\ BlockCounted

Unreserved == {w \in Runs : ~Reserved(w)}

\* A source is of a reserved item.
LEMMA SourceIsReserved ==
  ASSUME IInv, NEW w \in Runs, Source(w)
  PROVE  Reserved(w)
<1>1. proc[w] # "none"
  BY DEF IInv, SmokeInv, ProcInv, Source
<1> QED BY <1>1 DEF IInv, LaunchInv

\* What an item counts for is bounded by its forecast.
LEMMA ExposureBounds ==
  ASSUME NEW w \in Runs
  PROVE  /\ exposure(w) \in 0..Forecast
         /\ ActualCost(w) \in 0..Forecast
<1>1. ActualCost(w) \in 0..Forecast
  BY CostBound, RunnerConstants, LiveSmokeConstants
<1> QED BY <1>1, RunnerConstants DEF exposure

\* ExposureBounds after a step.
LEMMA ExposureBoundsNext ==
  ASSUME NEW w \in Runs
  PROVE  exposure(w)' \in 0..Forecast
  BY RunnerConstants, LiveSmokeConstants DEF exposure, ActualCost, Cost

\* Its terms are numbers, and so is the block.
LEMMA BlockType ==
  ASSUME prior \in Int
  PROVE  /\ IsFiniteSet(Runs) /\ IsFiniteSet(Unreserved)
         /\ DatasetExposure \in Int /\ Cardinality(Unreserved) \in Nat
         /\ remaining_block = prior + DatasetExposure + Forecast * Cardinality(Unreserved)
         /\ remaining_block \in Int
<1>1. IsFiniteSet(Runs)
  BY RunnerConstants, FS_Interval
<1>2. IsFiniteSet(Unreserved) /\ Cardinality(Unreserved) \in Nat
  BY <1>1, FS_Subset, FS_CardinalityType DEF Unreserved
<1>3. \A w \in Runs : [v \in Runs |-> exposure(v)][w] \in Int
  BY ExposureBounds, RunnerConstants
<1>4. DatasetExposure \in Int
  BY <1>1, <1>3, SumType DEF DatasetExposure
<1>5. remaining_block = prior + DatasetExposure + Forecast * Cardinality(Unreserved)
  BY DEF remaining_block, total_exposure_usd, Unreserved
<1> QED BY <1>1, <1>2, <1>4, <1>5, RunnerConstants

\* When nothing new is reserved and no item counts for more, the block does
\* not grow.
LEMMA BlockShrinks ==
  ASSUME BlockInv, prior' = prior, \A w \in Runs : Reserved(w)' <=> Reserved(w),
         \A w \in Runs : exposure(w)' <= exposure(w) /\ exposure(w)' \in Int
  PROVE  BlockCounted'
<1> DEFINE g == [w \in Runs |-> exposure(w)']
           h == [w \in Runs |-> exposure(w)]
<1>1. Unreserved' = Unreserved
  BY DEF Unreserved
<1>2. \A w \in Runs : g[w] \in Int /\ h[w] \in Int /\ g[w] <= h[w]
  BY ExposureBounds, RunnerConstants
<1>3. DatasetExposure' = SumFunctionOnSet(g, Runs) /\ DatasetExposure = SumFunctionOnSet(h, Runs)
  BY DEF DatasetExposure
<1>4. DatasetExposure' <= DatasetExposure /\ DatasetExposure' \in Int
  <2> HIDE DEF g, h
  <2> QED BY <1>2, <1>3, BlockType, SumBounded, SumType DEF BlockInv
<1>5. remaining_block' = prior + DatasetExposure' + Forecast * Cardinality(Unreserved)
  BY <1>1 DEF remaining_block, total_exposure_usd, Unreserved
<1>6. remaining_block' <= remaining_block /\ remaining_block' \in Int
  BY <1>4, <1>5, BlockType, RunnerConstants, SMTT(30) DEF BlockInv
<1>7. (\E w \in Runs : Reserved(w)') => remaining_block <= Ceiling
  BY DEF BlockInv, BlockCounted
<1> QED BY <1>6, <1>7, BlockType, RunnerConstants DEF BlockInv, BlockCounted

\* An admission moves the forecast of its item from the rest of the block to
\* the exposure.
LEMMA AdmissionBooks ==
  ASSUME IInv, reserve
  PROVE  /\ DatasetExposure' = DatasetExposure + Forecast /\ DatasetExposure \in Int
         /\ IsFiniteSet(Unreserved)
         /\ \E a \in Unreserved : Unreserved' = Unreserved \ {a}
<1> DEFINE g == [w \in Runs |-> exposure(w)']
           h == [w \in Runs |-> exposure(w)]
<1>0. PICK a \in Runs : a = item
  BY RunnerConstants DEF reserve, IInv, TypeOK
<1>1. ~Reserved(a) /\ append(a, "reservation") /\ UNCHANGED smokevars
  BY <1>0 DEF reserve, OnlyRunner
<1>2. /\ \A w \in Runs : Reserved(w)' <=> Reserved(w) \/ w = a
      /\ \A w \in Runs : Resolved(w)' <=> Resolved(w)
  BY <1>1 DEF append, IInv, TypeOK, Has, Reserved, Resolved
<1>3. ~Source(a)
  BY <1>1, SourceIsReserved
<1>4. ASSUME NEW w \in Runs
      PROVE  /\ Source(w)' <=> Source(w)
             /\ basis(w)' = basis(w)
             /\ ActualCost(w)' = ActualCost(w)
  <2>1. AccountedSource(w)' = AccountedSource(w) /\ (Source(w)' <=> Source(w))
    BY <1>1, SameArtifacts
  <2>2. ActualCost(w)' = ActualCost(w)
    BY <1>1 DEF ActualCost, Cost, smokevars
  <2>3. basis(w)' = basis(w)
    BY <1>2, <2>1 DEF basis
  <2> QED BY <2>1, <2>2, <2>3
<1>5. exposure(a) = 0 /\ exposure(a)' = Forecast
  BY <1>1, <1>2, <1>3, <1>4 DEF exposure
<1>6. ASSUME NEW w \in Runs \ {a}
      PROVE  exposure(w)' = exposure(w)
  BY <1>2, <1>4 DEF exposure
<1>7. \A w \in Runs : h[w] \in Int /\ g[w] \in Int
  BY ExposureBounds, ExposureBoundsNext, RunnerConstants
<1>8. h[a] = 0 /\ g[a] = Forecast /\ \A w \in Runs \ {a} : g[w] = h[w]
  BY <1>1, <1>5, <1>6
<1>9. DatasetExposure' = SumFunctionOnSet(g, Runs) /\ DatasetExposure = SumFunctionOnSet(h, Runs)
  BY DEF DatasetExposure
<1>10. DatasetExposure' = DatasetExposure + Forecast /\ DatasetExposure \in Int
  <2> HIDE DEF g, h
  <2>0. IsFiniteSet(Runs)
    BY RunnerConstants, FS_Interval
  <2>1. IsFiniteSet(Runs) /\ IsFiniteSet(Runs \ {a})
    BY <2>0, FS_Subset
  <2>2. SumFunctionOnSet(g, Runs) = Forecast + SumFunctionOnSet(g, Runs \ {a})
    BY <1>1, <1>7, <1>8, <2>1, SumRemove
  <2>3. SumFunctionOnSet(h, Runs) = 0 + SumFunctionOnSet(h, Runs \ {a})
    BY <1>1, <1>7, <1>8, <2>1, SumRemove
  <2>4. SumFunctionOnSet(g, Runs \ {a}) = SumFunctionOnSet(h, Runs \ {a})
    BY <1>7, <1>8, <2>1, SumSame
  <2>5. SumFunctionOnSet(h, Runs \ {a}) \in Int
    BY <1>7, <2>1, SumType
  <2> QED BY <1>9, <2>2, <2>3, <2>4, <2>5, RunnerConstants
<1>11. Unreserved' = Unreserved \ {a} /\ a \in Unreserved
  BY <1>1, <1>2 DEF Unreserved
<1>12. IsFiniteSet(Unreserved)
  <2>1. IsFiniteSet(Runs)
    BY RunnerConstants, FS_Interval
  <2> QED BY <2>1, FS_Subset DEF Unreserved
<1> QED BY <1>10, <1>11, <1>12

\* The admission was checked against the whole block.
LEMMA AdmissionFits ==
  ASSUME BlockInv, reserve
  PROVE  BlockCounted'
<1>1. remaining_block <= Ceiling /\ prior' = prior
  BY DEF reserve, OnlyRunner
<1>2. /\ DatasetExposure' = DatasetExposure + Forecast
      /\ Cardinality(Unreserved') = Cardinality(Unreserved) - 1
  BY AdmissionBooks, FS_RemoveElement DEF BlockInv
<1>3. remaining_block' = prior + DatasetExposure' + Forecast * Cardinality(Unreserved')
  BY <1>1 DEF remaining_block, total_exposure_usd, Unreserved
<1>4. remaining_block' = remaining_block
  <2> DEFINE n == Cardinality(Unreserved)
  <2>1. n \in Nat /\ DatasetExposure \in Int /\ prior \in Int /\ Forecast \in Nat
    BY BlockType, RunnerConstants DEF BlockInv
  <2>2. remaining_block = prior + DatasetExposure + Forecast * n
    BY BlockType DEF BlockInv
  <2>3. remaining_block' = prior + (DatasetExposure + Forecast) + Forecast * (n - 1)
    BY <1>2, <1>3
  <2> HIDE DEF n
  <2>4. Forecast * (n - 1) = Forecast * n - Forecast
    BY <2>1
  <2>5. Forecast * n \in Int
    BY <2>1
  <2> QED BY <2>1, <2>2, <2>3, <2>4, <2>5
<1> QED BY <1>1, <1>4 DEF BlockCounted

\* When neither the artifacts nor the reservations and resolutions change, no
\* item counts for more.
LEMMA SameBooks ==
  ASSUME BlockInv, IInv', UNCHANGED <<smokevars, prior>>,
         \A w \in Runs : (Reserved(w)' <=> Reserved(w)) /\ (Resolved(w)' <=> Resolved(w)),
         resolver' # 0 => resolver' = resolver \/ Unresolved(resolver')
  PROVE  BlockInv'
<1>1. ASSUME NEW w \in Runs
      PROVE  (Source(w)' <=> Source(w)) /\ basis(w)' = basis(w)
  <2>1. Resolved(w)' = Resolved(w)
    BY DEF Resolved, Has
  <2> QED BY <2>1, SameArtifacts, SameBasis
<1>2. ASSUME NEW w \in Runs
      PROVE  exposure(w)' = exposure(w)
  <2>1. ActualCost(w)' = ActualCost(w)
    BY DEF ActualCost, Cost, smokevars
  <2> QED BY <1>1, <2>1 DEF exposure
<1>3. BlockCounted'
  <2>1. \A w \in Runs : exposure(w)' <= exposure(w) /\ exposure(w)' \in Int
    BY <1>2, ExposureBounds, RunnerConstants
  <2> QED BY <2>1, BlockShrinks
<1>4. ClosureInv'
  <2>1. resolver' \in Runs \cup {0}
    BY DEF IInv, TypeOK
  <2> QED BY <1>1, <2>1 DEF BlockInv, ClosureInv, Unresolved
<1> QED BY <1>3, <1>4 DEF BlockInv

\* A subprocess moves: a source may take the place of a reservation, and then
\* counts for no more; what a source counts for stays.
LEMMA SubprocessExposure ==
  ASSUME IInv, IInv', NEW v \in Runs, SmokeStep(v) \/ (launch(v) /\ proc[v] = "none"),
         UNCHANGED ledger, NEW w \in Runs
  PROVE  /\ exposure(w)' <= exposure(w) /\ exposure(w)' \in Int /\ exposure(w) \in Int
         /\ Source(w) => Source(w)' /\ basis(w)' = basis(w)
<1>1. Reserved(w)' = Reserved(w) /\ Resolved(w)' = Resolved(w)
  BY DEF Reserved, Resolved, Has
<1>2. ASSUME Source(w)
      PROVE  Source(w)' /\ basis(w)' = basis(w) /\ exposure(w)' = exposure(w)
  <2>1. Source(w)' /\ basis(w)' = basis(w)
    BY <1>1, <1>2, SameWrittenArtifact, SameBasis DEF IInv
  <2>2. ActualCost(w)' = ActualCost(w)
    BY <1>2, WrittenIsFrozen DEF IInv, Source, ArmsOf, ActualCost, Cost
  <2> QED BY <1>2, <2>1, <2>2 DEF exposure
<1>3. ASSUME ~Source(w)
      PROVE  exposure(w)' <= exposure(w)
  <2>1. CASE Source(w)'
    <3>1. proc'[w] # "none"
      BY <2>1 DEF IInv, SmokeInv, ProcInv, Source
    <3>2. Reserved(w)'
      BY <3>1 DEF IInv, LaunchInv
    <3>3. exposure(w) = Forecast
      BY <1>1, <1>3, <3>2 DEF exposure
    <3> QED BY <3>3, ExposureBoundsNext, RunnerConstants
  <2>2. CASE ~Source(w)'
    BY <1>1, <1>3, <2>2, RunnerConstants DEF exposure
  <2> QED BY <2>1, <2>2
<1> QED BY <1>2, <1>3, ExposureBounds, ExposureBoundsNext, RunnerConstants

\* So the block does not grow, and an unresolved source stays unresolved.
LEMMA SubprocessBooks ==
  ASSUME BlockInv, IInv', NEW v \in Runs, SmokeStep(v) \/ (launch(v) /\ proc[v] = "none"),
         UNCHANGED <<ledger, prior, resolver>>
  PROVE  BlockInv'
<1>1. BlockCounted'
  <2>1. \A w \in Runs : exposure(w)' <= exposure(w) /\ exposure(w)' \in Int
    BY SubprocessExposure DEF BlockInv
  <2> QED BY <2>1, BlockShrinks DEF Reserved, Has
<1>2. ClosureInv'
  <2>1. resolver \in Runs \cup {0}
    BY DEF BlockInv, IInv, TypeOK
  <2> QED BY <2>1, SubprocessExposure DEF BlockInv, ClosureInv, Unresolved
<1> QED BY <1>1, <1>2 DEF BlockInv

\* A source that counted in full is closed at its full forecast.
LEMMA ResolutionBooks ==
  ASSUME BlockInv, IInv', record_resolution
  PROVE  BlockInv'
<1>0. PICK r \in Runs : r = resolver
  BY DEF record_resolution, BlockInv, IInv, TypeOK
<1>1. /\ Unresolved(r) /\ append(r, "resolution")
      /\ resolver' = 0 /\ UNCHANGED <<smokevars, prior>>
  BY <1>0, RunnerConstants DEF record_resolution, OnlyResolver, BlockInv, ClosureInv
<1>2. /\ \A w \in Runs : Reserved(w)' <=> Reserved(w)
      /\ \A w \in Runs : Resolved(w)' <=> Resolved(w) \/ w = r
  BY <1>1 DEF append, BlockInv, IInv, TypeOK, Has, Reserved, Resolved
<1>3. ASSUME NEW w \in Runs
      PROVE  /\ (Source(w)' <=> Source(w)) /\ AccountedSource(w)' = AccountedSource(w)
             /\ ActualCost(w)' = ActualCost(w)
  BY <1>1, SameArtifacts DEF ActualCost, Cost, smokevars
<1>4. exposure(r)' = exposure(r)
  BY <1>1, <1>2, <1>3 DEF Unresolved, exposure, basis
<1>5. ASSUME NEW w \in Runs \ {r}
      PROVE  exposure(w)' = exposure(w)
  <2>1. basis(w)' = basis(w)
    BY <1>2, <1>3 DEF basis
  <2> QED BY <1>2, <1>3, <2>1 DEF exposure
<1>6. \A w \in Runs : exposure(w)' <= exposure(w) /\ exposure(w)' \in Int
  BY <1>4, <1>5, ExposureBounds, RunnerConstants
<1>7. BlockCounted'
  BY <1>1, <1>2, <1>6, BlockShrinks
<1> QED BY <1>1, <1>7 DEF BlockInv, ClosureInv

\* An event that is neither a reservation nor a resolution leaves both alone.
LEMMA OtherEvents ==
  ASSUME TypeOK, UNCHANGED ledger \/ \E w \in Runs, e \in Incidents \cup {"recorded"} : append(w, e)
  PROVE  \A w \in Runs : (Reserved(w)' <=> Reserved(w)) /\ (Resolved(w)' <=> Resolved(w))
  BY DEF TypeOK, append, Incidents, Reserved, Resolved, Has

\* The steps of an invocation that admit nothing, and those that write nothing.
LEMMA QuietSteps ==
  ASSUME BlockInv, IInv',
         \/ \E m \in Modes : invoke(m)
         \/ lock_ledger \/ plan \/ loop_stops \/ skip_item \/ recover_source \/ loop_raises
         \/ record_timeout \/ no_artifact \/ postflight
         \/ \E c \in Arms : write_response(c)
         \/ finalize_source \/ finish \/ runner_crashes
  PROVE  BlockInv'
<1>1. UNCHANGED <<smokevars, prior, resolver>>
  BY DEF invoke, lock_ledger, plan, loop_stops, skip_item, recover_source, loop_raises,
         record_timeout, no_artifact, postflight, write_response, finalize_source, finish,
         runner_crashes, OnlyRunner
<1>2. UNCHANGED ledger \/ \E w \in Runs, e \in Incidents \cup {"recorded"} : append(w, e)
  <2>1. CASE record_timeout \/ no_artifact \/ postflight \/ finalize_source
    <3>1. item \in Runs
      BY <2>1 DEF BlockInv, IInv, LoopInv, record_timeout, no_artifact, postflight,
                  finalize_source
    <3> QED BY <2>1, <3>1 DEF record_timeout, no_artifact, postflight, finalize_source,
                              record_incident, Incidents
  <2>2. CASE \/ \E m \in Modes : invoke(m)
             \/ lock_ledger \/ plan \/ loop_stops \/ skip_item \/ recover_source
             \/ loop_raises \/ \E c \in Arms : write_response(c)
             \/ finish \/ runner_crashes
    BY <2>2 DEF invoke, lock_ledger, plan, loop_stops, skip_item, recover_source,
                loop_raises, write_response, finish, runner_crashes
  <2> QED BY <2>1, <2>2
<1> QED BY <1>1, <1>2, OtherEvents, SameBooks DEF BlockInv, IInv

\* Every step preserves BlockInv, IInv being an invariant.
LEMMA NextBlock == BlockInv /\ IInv' /\ [Next]_vars => BlockInv'
<1> SUFFICES ASSUME BlockInv, IInv', [Next]_vars
             PROVE  BlockInv'
  OBVIOUS
<1>1. CASE UNCHANGED vars
  BY <1>1, SameBooks DEF vars, Reserved, Resolved, Has
<1>2. CASE reserve
  <2>1. prior' = prior /\ resolver' = resolver /\ UNCHANGED smokevars /\ pc = "loop"
    BY <1>2 DEF reserve, OnlyRunner
  <2>2. resolver = 0
    BY <2>1 DEF BlockInv, IInv, LockInv
  <2> QED BY <1>2, <2>1, <2>2, AdmissionFits DEF BlockInv, ClosureInv
<1>3. CASE start_subprocess
  <2>1. /\ item \in Runs /\ launch(item) /\ proc[item] = "none"
        /\ UNCHANGED <<ledger, prior, resolver>>
    BY <1>3 DEF start_subprocess, BlockInv, IInv, LoopInv, LaunchInv
  <2> QED BY <2>1, SubprocessBooks
<1>4. CASE timeout
  <2>1. item \in Runs /\ SmokeStep(item) /\ UNCHANGED <<ledger, prior, resolver>>
    BY <1>4 DEF timeout, SmokeStep, BlockInv, IInv, LoopInv
  <2> QED BY <2>1, SubprocessBooks
<1>5. ASSUME NEW w \in Runs, ChildStep(w)
      PROVE  BlockInv'
  BY <1>5, SubprocessBooks DEF ChildStep, files
<1>6. CASE (\E w \in Runs : resolve(w)) \/ resolver_crashes
  <2>1. UNCHANGED <<smokevars, prior, ledger>>
    BY <1>6 DEF resolve, resolver_crashes, OnlyResolver
  <2>2. resolver' # 0 => Unresolved(resolver')
    BY <1>6 DEF resolve, resolvable, resolver_crashes
  <2> QED BY <2>1, <2>2, SameBooks DEF Reserved, Resolved, Has
<1>7. CASE record_resolution
  BY <1>7, ResolutionBooks
<1> QED BY <1>1, <1>2, <1>3, <1>4, <1>5, <1>6, <1>7, QuietSteps DEF Next, RunnerStep

\* What the items were charged is no more than what they count for.
LEMMA SpendUnderExposure ==
  ASSUME IInv
  PROVE  /\ SumFunctionOnSet([w \in Runs |-> Billed(w)], Runs) <= DatasetExposure
         /\ SumFunctionOnSet([w \in Runs |-> Billed(w)], Runs) \in Int
         /\ DatasetExposure \in Int
<1> DEFINE g == [w \in Runs |-> Billed(w)]
           h == [w \in Runs |-> exposure(w)]
<1>1. IsFiniteSet(Runs)
  BY RunnerConstants, FS_Interval
<1>2. \A w \in Runs : g[w] \in Int /\ h[w] \in Int /\ g[w] <= h[w]
  <2>1. ASSUME NEW w \in Runs
        PROVE  Billed(w) \in Int /\ exposure(w) \in Int /\ Billed(w) <= exposure(w)
    BY CostBound, CoveredByExposure, ExposureBounds, RunnerConstants, LiveSmokeConstants
  <2> QED BY <2>1
<1>3. DatasetExposure = SumFunctionOnSet(h, Runs)
  BY DEF DatasetExposure
<1> HIDE DEF g, h
<1>4. SumFunctionOnSet(g, Runs) <= DatasetExposure /\ SumFunctionOnSet(g, Runs) \in Int
      /\ DatasetExposure \in Int
  BY <1>1, <1>2, <1>3, SumBounded, SumType
<1> QED BY <1>4 DEF g

\* Once anything is reserved, what the contract runner holds, what the provider
\* has charged and the reserves of all items still to come fit under the
\* admission ceiling (the check of remaining_block before every reservation):
\* whatever the later items cost, the runner can still pay for all of them.
THEOREM BlockAlwaysFits == Spec => []BlockFits
<1>1. Init => BlockInv
  BY InitIInv, RunnerConstants DEF Init, BlockInv, ClosureInv, BlockCounted, Reserved, Has
<1>2. BlockInv => BlockFits
  <2> SUFFICES ASSUME BlockInv, \E w \in Runs : Reserved(w)
               PROVE  prior + SumFunctionOnSet([w \in Runs |-> Billed(w)], Runs)
                        + Forecast * Cardinality(Unreserved) <= Ceiling
    BY DEF BlockFits, Unreserved
  <2>1. remaining_block <= Ceiling /\ prior \in Int
    BY DEF BlockInv, BlockCounted
  <2>2. /\ remaining_block = prior + DatasetExposure + Forecast * Cardinality(Unreserved)
        /\ Cardinality(Unreserved) \in Nat
    BY <2>1, BlockType
  <2>3. Forecast * Cardinality(Unreserved) \in Int
    BY <2>2, RunnerConstants
  <2>4. /\ SumFunctionOnSet([w \in Runs |-> Billed(w)], Runs) <= DatasetExposure
        /\ SumFunctionOnSet([w \in Runs |-> Billed(w)], Runs) \in Int
        /\ DatasetExposure \in Int
    BY SpendUnderExposure DEF BlockInv
  <2> DEFINE charged == SumFunctionOnSet([w \in Runs |-> Billed(w)], Runs)
             rest == Forecast * Cardinality(Unreserved)
  <2>5. prior + charged + rest <= remaining_block
    <3> HIDE DEF charged, rest
    <3>1. charged <= DatasetExposure /\ charged \in Int /\ rest \in Int
      BY <2>3, <2>4 DEF charged, rest
    <3>2. remaining_block = prior + DatasetExposure + rest
      BY <2>2 DEF rest
    <3> QED BY <2>1, <2>4, <3>1, <3>2
  <2>6. prior + charged + rest \in Int /\ Ceiling \in Int /\ remaining_block \in Int
    BY <2>1, <2>3, <2>4, BlockType, RunnerConstants
  <2> HIDE DEF charged, rest
  <2> QED BY <2>1, <2>5, <2>6 DEF charged, rest
<1> QED BY <1>1, <1>2, NextBlock, IInvHolds, PTL DEF Spec, BlockInv

-----------------------------------------------------------------------------
(***************************************************************************)
(* The runner beside another one: what it keeps, whoever else writes prior *)
(* and takes the global lock.                                              *)
(***************************************************************************)
\* An invocation runs exactly while it holds the global lock.
HeldInv == pc # "idle" <=> lock = "dataset"

\* Every step keeps the lock with the invocation, and no step takes the lock from
\* somebody else or gives it to them.
LEMMA NextHeld ==
  ASSUME HeldInv, [Next]_vars
  PROVE  HeldInv' /\ (lock' = "contract" <=> lock = "contract")
<1> USE DEF HeldInv
<1>1. CASE UNCHANGED vars
  BY <1>1 DEF vars
<1>2. CASE \/ \E m \in Modes : invoke(m)
           \/ lock_ledger \/ plan \/ loop_stops \/ skip_item \/ recover_source \/ loop_raises
           \/ reserve \/ start_subprocess \/ timeout \/ record_timeout \/ no_artifact
           \/ postflight \/ (\E c \in Arms : write_response(c)) \/ finalize_source \/ finish
           \/ runner_crashes
  BY <1>2 DEF invoke, lock_ledger, plan, loop_stops, skip_item, recover_source, loop_raises,
    reserve, start_subprocess, timeout, record_timeout, no_artifact, postflight,
    write_response, finalize_source, finish, runner_crashes, record_incident, leave, goto,
    next_item, runner
<1>3. CASE (\E w \in Runs : ChildStep(w) \/ resolve(w)) \/ record_resolution \/ resolver_crashes
  BY <1>3 DEF ChildStep, resolve, record_resolution, resolver_crashes, OnlyResolver, runner
<1> QED BY <1>1, <1>2, <1>3 DEF Next, RunnerStep

\* What somebody else does to prior and to the lock disturbs no invariant.
LEMMA OutsideStep ==
  ASSUME IInv, UNCHANGED <<smokevars, files, llock, pc, mode, item, started, resolver,
                           launches, crashes>>,
         prior' \in Nat \cup {Unreadable}, lock' \in {"free", "dataset", "contract"}
  PROVE  IInv' /\ DatasetExposure' = DatasetExposure
<1> USE DEF files
<1>1. SmokeInv' /\ TypeOK'
  BY SameSmoke, SameSmokeType DEF IInv, TypeOK
<1>2. LockInv' /\ LoopInv' /\ LaunchInv' /\ OrderInv'
  BY DEF IInv, LockInv, LoopInv, LaunchInv, OrderInv, Reserved, Has, smokevars
<1>3. \A w : basis(w)' = basis(w)
  BY SameArtifacts, SameBasis DEF Resolved, Has
<1>4. SourceInv'
  BY <1>3, SameArtifacts DEF IInv, SourceInv, Has
<1>5. RecordStands'
  BY <1>3, SameArtifacts DEF IInv, RecordStands, Has
<1>6. \A w \in Runs : exposure(w)' = exposure(w)
  BY <1>3, SameArtifacts DEF exposure, Reserved, Has, ActualCost, Cost, smokevars
<1> QED BY <1>1, <1>2, <1>4, <1>5, <1>6 DEF IInv, DatasetExposure

\* At an admission what is counted, the new item included, is under the ceiling:
\* the block it was checked with is at least that.
LEMMA AdmissionIsUnderCeiling ==
  ASSUME IInv, reserve
  PROVE  prior \in Nat /\ prior' = prior /\ prior + DatasetExposure' <= Ceiling
<1>1. /\ prior \in Nat /\ prior' = prior /\ remaining_block <= Ceiling
  BY DEF reserve, OnlyRunner, StateLoads, FilesLoad, IInv, TypeOK
<1>2. /\ DatasetExposure' = DatasetExposure + Forecast /\ DatasetExposure \in Int
      /\ IsFiniteSet(Unreserved) /\ Unreserved # {}
  BY AdmissionBooks
<1>3. Cardinality(Unreserved) \in Nat /\ Cardinality(Unreserved) # 0
  BY <1>2, FS_EmptySet, FS_CardinalityType
<1>4. Forecast <= Forecast * Cardinality(Unreserved)
      /\ Forecast * Cardinality(Unreserved) \in Int
  <2>1. \A f, n \in Nat : n # 0 => f <= f * n /\ f * n \in Int
    OBVIOUS
  <2> QED BY <1>3, <2>1, RunnerConstants
<1>5. remaining_block = prior + DatasetExposure + Forecast * Cardinality(Unreserved)
  BY DEF remaining_block, total_exposure_usd, Unreserved
<1> QED BY <1>1, <1>2, <1>4, <1>5, RunnerConstants

\* An invocation that has admitted an item and waits for it has just admitted it,
\* or counts no more than before.
LEMMA AdmissionHeld ==
  ASSUME IInv, IInv', [Next]_vars, pc' \in {"launch", "wait"}
  PROVE  /\ \/ prior \in Nat /\ prior' = prior /\ prior + DatasetExposure' <= Ceiling
            \/ pc \in {"launch", "wait"} /\ DatasetExposure' <= DatasetExposure
         /\ DatasetExposure \in Int /\ DatasetExposure' \in Int
<1> DEFINE g == [w \in Runs |-> exposure(w)']
           h == [w \in Runs |-> exposure(w)]
<1>1. DatasetExposure' = SumFunctionOnSet(g, Runs) /\ DatasetExposure = SumFunctionOnSet(h, Runs)
  BY DEF DatasetExposure
<1>2. IsFiniteSet(Runs)
  BY RunnerConstants, FS_Interval
<1>3. DatasetExposure \in Int /\ DatasetExposure' \in Int
  <2>1. \A w \in Runs : g[w] \in Int /\ h[w] \in Int
    BY ExposureBounds, ExposureBoundsNext, RunnerConstants
  <2> HIDE DEF g, h
  <2> QED BY <1>1, <1>2, <2>1, SumType
<1>4. ASSUME NEW v \in Runs, SmokeStep(v) \/ (launch(v) /\ proc[v] = "none"), UNCHANGED ledger
      PROVE  DatasetExposure' <= DatasetExposure
  <2>1. \A w \in Runs : g[w] \in Int /\ h[w] \in Int /\ g[w] <= h[w]
    BY <1>4, SubprocessExposure
  <2> HIDE DEF g, h
  <2> QED BY <1>1, <1>2, <2>1, SumBounded
<1>5. CASE UNCHANGED vars
  <2>1. \A w \in Runs : g[w] \in Int /\ h[w] \in Int /\ g[w] = h[w]
    <3>1. \A w \in Runs : exposure(w)' = exposure(w)
      BY <1>5 DEF vars, smokevars, exposure, Source, basis, Resolved, Reserved, Has,
        AccountedSource, complete, fully_accounted, ActualCost, Cost
    <3> QED BY <3>1, ExposureBounds, RunnerConstants
  <2>2. pc \in {"launch", "wait"}
    BY <1>5 DEF vars
  <2> HIDE DEF g, h
  <2>3. SumFunctionOnSet(g, Runs) <= SumFunctionOnSet(h, Runs)
    BY <1>2, <2>1, SumBounded
  <2> QED BY <1>1, <1>3, <2>2, <2>3
<1>6. CASE start_subprocess
  <2>1. item \in Runs /\ launch(item) /\ proc[item] = "none" /\ UNCHANGED ledger /\ pc = "launch"
    BY <1>6 DEF start_subprocess, IInv, LoopInv, LaunchInv
  <2> QED BY <1>3, <1>4, <2>1
<1>7. CASE \E w \in Runs : ChildStep(w)
  <2>1. PICK w \in Runs : ChildStep(w)
    BY <1>7
  <2>2. SmokeStep(w) /\ UNCHANGED ledger /\ pc \in {"launch", "wait"}
    BY <2>1 DEF ChildStep, files, runner
  <2> QED BY <1>3, <1>4, <2>2
<1>8. ASSUME (\E w \in Runs : resolve(w)) \/ record_resolution \/ resolver_crashes
      PROVE  FALSE
  BY <1>8 DEF resolve, record_resolution, resolver_crashes, OnlyResolver, runner, IInv, LockInv
<1>9. ASSUME \/ \E m \in Modes : invoke(m)
             \/ lock_ledger \/ plan \/ loop_stops \/ skip_item \/ recover_source \/ loop_raises
             \/ timeout \/ record_timeout \/ no_artifact \/ postflight
             \/ (\E c \in Arms : write_response(c)) \/ finalize_source \/ finish
             \/ runner_crashes
      PROVE  FALSE
  BY <1>9 DEF invoke, lock_ledger, plan, loop_stops, skip_item, recover_source, loop_raises,
    timeout, record_timeout, no_artifact, postflight, write_response, finalize_source,
    finish, runner_crashes, record_incident, leave, goto, next_item, runner
<1> QED BY <1>3, <1>5, <1>6, <1>7, <1>8, <1>9, AdmissionIsUnderCeiling DEF Next, RunnerStep

-----------------------------------------------------------------------------
(***************************************************************************)
(* The subprocess implements PaidRun.                                      *)
(***************************************************************************)
ReportOf(r) == IF Source(r) /\ AccountedSource(r) THEN ActualCost(r) ELSE 0

\* How run r looks to its parent stays the same.
SameView(r) ==
  /\ PhaseOf(r)' = PhaseOf(r) /\ Billed(r)' = Billed(r)
  /\ FileOf(r)' = FileOf(r) /\ ReportOf(r)' = ReportOf(r)

\* A run whose state does not change looks the same.
LEMMA UntouchedView ==
  ASSUME NEW v, Untouched(v)
  PROVE  SameView(v)
  BY DEF Untouched, SameView, PhaseOf, Live, Billed, Cost, FileOf, ReportOf, Source,
         AccountedSource, ActualCost, complete, fully_accounted

\* A step of one subprocess touches no other.
LEMMA OthersUntouched ==
  ASSUME SmokeInv, NEW w \in Runs, SmokeStep(w) \/ launch(w), NEW v \in Runs, v # w
  PROVE  Untouched(v)
  BY DEF SmokeInv, SmokeTypeOK, Untouched, SmokeStep, RunStep, dies, create_journal,
    run_started, preflight_passes, preflight_fails, open_session, session_fails,
    send_request, request_ends, generation_cost, journal_event, gather, finalize_journal,
    open_artifact, write_artifact, exit, provider_bills, launch

\* Until its artifact is whole a run looks as its process and its charges do.
LEMMA UnwrittenView ==
  ASSUME NEW r, art[r] # "whole"
  PROVE  FileOf(r) = art[r] /\ ReportOf(r) = 0
  BY DEF FileOf, ReportOf, Source

\* The steps between preflight and artifact do not show, nor do those of the arms.
LEMMA InnerStep ==
  ASSUME SmokeInv, NEW r \in Runs,
         \/ create_journal(r) \/ run_started(r) \/ preflight_passes(r)
         \/ open_session(r) \/ session_fails(r)
         \/ \E c \in Arms : send_request(r, c)
         \/ \E c \in Arms, o \in Outcomes : request_ends(r, c, o)
         \/ \E c \in Arms, b \in BOOLEAN : generation_cost(r, c, b)
         \/ gather(r) \/ finalize_journal(r)
  PROVE  SameView(r)
<1>1. /\ proc[r] \in {"boot", "created", "preflight", "arms", "accounting"}
      /\ proc'[r] \in {"created", "preflight", "arms", "accounting", "finalized"}
      /\ UNCHANGED <<art, billed>>
  BY DEF SmokeInv, SmokeTypeOK, create_journal, run_started, preflight_passes, open_session,
    session_fails, send_request, request_ends, generation_cost, gather, finalize_journal
<1>2. art[r] # "whole"
  BY <1>1 DEF SmokeInv, ProcInv
<1>3. PhaseOf(r)' = PhaseOf(r)
  BY <1>1 DEF PhaseOf, Live
<1>4. Billed(r)' = Billed(r)
  BY <1>1 DEF Billed, Cost
<1>5. FileOf(r)' = FileOf(r) /\ ReportOf(r)' = ReportOf(r)
  BY <1>1, <1>2 DEF FileOf, ReportOf, Source
<1> QED BY <1>3, <1>4, <1>5 DEF SameView

\* The launch of a run that has no process.
LEMMA LaunchRefines ==
  ASSUME IInv, NEW r \in Runs, launch(r), proc[r] = "none"
  PROVE  Child!Launch(r)
<1>1. \A v \in Runs : v # r => SameView(v)
  BY OthersUntouched, UntouchedView DEF IInv
<1>2. proc'[r] = "boot" /\ UNCHANGED <<billed, arm, acct, last, events, art>> /\ art[r] = "absent"
  <2>1. /\ proc \in [Runs -> {"none", "boot", "created", "preflight", "arms", "accounting",
                              "finalized", "writing", "exiting", "exited", "dead", "refused"}]
        /\ art[r] \in {"absent", "torn", "whole"}
    BY DEF IInv, SmokeInv, SmokeTypeOK
  <2>2. art[r] \notin {"torn", "whole"}
    BY DEF IInv, SmokeInv, ProcInv
  <2> QED BY <2>1, <2>2 DEF launch
<1>3. PhaseOf(r) = "none" /\ PhaseOf(r)' = "live"
  BY <1>2 DEF PhaseOf, Live
<1>4. Billed(r)' = Billed(r) /\ FileOf(r)' = FileOf(r) /\ ReportOf(r)' = ReportOf(r)
  BY <1>2 DEF Billed, Cost, FileOf, ReportOf, Source
<1> QED BY <1>1, <1>3, <1>4 DEF SameView, Child!Launch, ReportOf

\* The steps in which the process of a run shows.
LEMMA VisibleStepRefines ==
  ASSUME IInv, NEW r \in Runs,
         preflight_fails(r) \/ open_artifact(r) \/ write_artifact(r) \/ exit(r) \/ dies(r)
  PROVE  Child!Refuse(r) \/ Child!Open(r) \/ Child!Write(r) \/ Child!Exit(r) \/ Child!Die(r)
<1>1. \A v \in Runs : v # r => SameView(v)
  BY OthersUntouched, UntouchedView DEF IInv, SmokeStep, RunStep
<1>2. /\ UNCHANGED <<billed, arm, acct, last, events>> /\ Live(r)
      /\ PhaseOf(r) = "live"
  BY DEF preflight_fails, open_artifact, write_artifact, exit, dies, Live, PhaseOf
<1>3. Billed(r)' = Billed(r)
  BY <1>2 DEF Billed, Cost
<1>4. UNCHANGED art => FileOf(r)' = FileOf(r) /\ ReportOf(r)' = ReportOf(r)
  BY <1>2 DEF FileOf, ReportOf, Source, AccountedSource, ActualCost, Cost, complete, fully_accounted
<1>5. CASE preflight_fails(r)
  <2>1. art[r] = "absent" /\ Billed(r) = 0
    BY <1>5, NothingBeforeArms DEF preflight_fails, IInv, SmokeInv, SmokeTypeOK, ProcInv
  <2>2. PhaseOf(r)' = "refused" /\ UNCHANGED art
    BY <1>5 DEF preflight_fails, PhaseOf, Live, IInv, SmokeInv, SmokeTypeOK
  <2>3. FileOf(r) = "absent"
    BY <2>1 DEF FileOf
  <2> QED BY <1>1, <1>2, <1>3, <1>4, <2>1, <2>2, <2>3 DEF SameView, Child!Refuse, ReportOf
<1>6. CASE open_artifact(r)
  <2>1. /\ art[r] = "absent" /\ art'[r] = "torn" /\ proc'[r] = "writing"
    <3>1. /\ proc[r] = "finalized" /\ art[r] \in {"absent", "torn", "whole"}
          /\ art'[r] = "torn" /\ proc'[r] = "writing"
      BY <1>6 DEF open_artifact, IInv, SmokeInv, SmokeTypeOK
    <3> QED BY <3>1 DEF IInv, SmokeInv, ProcInv
  <2>2. PhaseOf(r)' = "live"
    BY <2>1 DEF PhaseOf, Live
  <2>3. FileOf(r) = "absent" /\ FileOf(r)' = "torn" /\ ReportOf(r) = 0 /\ ReportOf(r)' = 0
    BY <2>1 DEF FileOf, ReportOf, Source
  <2> QED BY <1>1, <1>2, <1>3, <2>2, <2>3 DEF SameView, Child!Open, ReportOf
<1>7. CASE write_artifact(r)
  <2>1. /\ art[r] = "torn" /\ art'[r] = "whole" /\ proc'[r] = "exiting"
    BY <1>7 DEF write_artifact, IInv, SmokeInv, SmokeTypeOK, ProcInv
  <2>2. PhaseOf(r)' = "live" /\ FileOf(r) = "torn" /\ ReportOf(r) = 0
    BY <2>1 DEF PhaseOf, Live, FileOf, ReportOf, Source
  <2>3. Gathered(r) /\ LookedUp(r)
    BY <2>1 DEF IInv, SmokeInv, ProcInv
  <2>4. /\ complete(r)' = complete(r) /\ fully_accounted(r)' = fully_accounted(r)
        /\ ActualCost(r)' = ActualCost(r)
    BY <1>2 DEF complete, fully_accounted, ActualCost, Cost
  <2>5. CASE AccountedSource(r)
    <3>1. ActualCost(r) = Billed(r)
      BY <2>3, <2>5, AccountedCost DEF IInv
    <3>2. FileOf(r)' \in {"complete", "accounted"} /\ ReportOf(r)' = Billed(r)
      BY <2>1, <2>4, <2>5, <3>1 DEF FileOf, ReportOf, AccountedSource, Source
    <3> QED BY <1>1, <1>2, <1>3, <2>2, <3>2 DEF SameView, Child!Write, Child!Settled, ReportOf
  <2>6. CASE ~AccountedSource(r)
    <3>1. FileOf(r)' = "unsettled" /\ ReportOf(r)' = 0
      BY <2>1, <2>4, <2>6 DEF FileOf, ReportOf, AccountedSource, Source
    <3> QED BY <1>1, <1>2, <1>3, <2>2, <3>1 DEF SameView, Child!Write, ReportOf
  <2> QED BY <2>5, <2>6
<1>8. CASE exit(r)
  <2>1. PhaseOf(r)' = "exited" /\ UNCHANGED art /\ art[r] = "whole"
    BY <1>8 DEF exit, PhaseOf, Live, IInv, SmokeInv, SmokeTypeOK, ProcInv
  <2>2. FileOf(r) \in {"complete", "accounted", "unsettled"}
    BY <2>1 DEF FileOf
  <2> QED BY <1>1, <1>2, <1>3, <1>4, <2>1, <2>2
          DEF SameView, Child!Exit, Child!Written, Child!Settled, ReportOf
<1>9. CASE dies(r)
  <2>1. PhaseOf(r)' = "dead" /\ UNCHANGED art
    BY <1>9 DEF dies, PhaseOf, Live, IInv, SmokeInv, SmokeTypeOK
  <2> QED BY <1>1, <1>2, <1>3, <1>4, <2>1 DEF SameView, Child!Die, ReportOf
<1> QED BY <1>5, <1>6, <1>7, <1>8, <1>9

\* A charge, however late, is within the allowance and of a run whose artifact
\* does not claim to account for its cost.
LEMMA ChargeRefines ==
  ASSUME IInv, NEW r \in Runs, NEW c \in Arms, provider_bills(r, c)
  PROVE  Child!Charge(r)
<1>1. \A v \in Runs : v # r => SameView(v)
  BY OthersUntouched, UntouchedView DEF IInv, SmokeStep
<1>2. /\ arm[r][c] \in {"sent", "uncertain", "lost"} /\ ~billed[r][c]
      /\ UNCHANGED <<proc, arm, acct, last, events, art>>
      /\ billed'[r][c] /\ \A d \in Arms : d # c => billed'[r][d] = billed[r][d]
  BY DEF provider_bills, IInv, SmokeInv, SmokeTypeOK
<1>3. /\ PhaseOf(r) \notin {"none", "refused"} /\ PhaseOf(r)' = PhaseOf(r)
  BY <1>2 DEF PhaseOf, Live, IInv, SmokeInv, SmokeTypeOK, ProcInv
<1>4. Billed(r)' = Billed(r) + ArmCost
  <2>1. CASE c = "off"
    BY <1>2, <2>1, LiveSmokeConstants DEF Billed, Cost, Arms
  <2>2. CASE c = "on"
    BY <1>2, <2>2, LiveSmokeConstants DEF Billed, Cost, Arms
  <2> QED BY <2>1, <2>2 DEF Arms
<1>5. Billed(r)' \in (Billed(r) + 1)..Forecast
  <2>1. Billed(r) \in Nat /\ Billed(r)' \in 0..(2 * ArmCost)
    BY CostBound, LiveSmokeConstants DEF Billed, Cost
  <2> QED BY <1>4, <2>1, RunnerConstants, LiveSmokeConstants
<1>6. art[r] = "whole" => ~AccountedSource(r)
  BY <1>2, AccountedIsExact DEF IInv, SmokeInv, ProcInv
<1>7. /\ FileOf(r) \in {"absent", "torn", "unsettled"}
      /\ FileOf(r)' = FileOf(r) /\ ReportOf(r) = 0 /\ ReportOf(r)' = 0
  BY <1>2, <1>6 DEF FileOf, ReportOf, AccountedSource, Source, complete, fully_accounted,
                    IInv, SmokeInv, SmokeTypeOK
<1> QED BY <1>1, <1>3, <1>5, <1>7 DEF SameView, Child!Charge, Child!Settled, ReportOf

\* A run that looks the same to every parent is a stutter of PaidRun.
LEMMA SameViewStutters ==
  ASSUME \A r \in Runs : SameView(r)
  PROVE  UNCHANGED Child!runvars
  BY DEF SameView, Child!runvars, ReportOf

\* The initial states of the runner are initial states of PaidRun.
LEMMA InitRefines == Init => Child!RunInit
<1> SUFFICES ASSUME Init
             PROVE  Child!RunInit
  OBVIOUS
<1>1. \A r \in Runs : PhaseOf(r) = "none" /\ FileOf(r) = "absent" /\ ReportOf(r) = 0
  <2> SUFFICES ASSUME NEW r \in Runs
               PROVE  PhaseOf(r) = "none" /\ FileOf(r) = "absent" /\ ReportOf(r) = 0
    OBVIOUS
  <2>1. proc[r] = "none" /\ art[r] = "absent"
    BY DEF Init, SmokeInit
  <2> QED BY <2>1, UnwrittenView DEF PhaseOf, Live
<1>2. \A r \in Runs : Billed(r) = 0
  BY DEF Init, SmokeInit, Billed, Cost, Arms
<1> QED BY <1>1, <1>2 DEF Child!RunInit, ReportOf

\* Every step of the runner, the resolver or a subprocess is a step of PaidRun or
\* does not show in it.
LEMMA NextRefines == IInv /\ [Next]_vars => [Child!RunNext]_(Child!runvars)
<1> SUFFICES ASSUME IInv, [Next]_vars
             PROVE  Child!RunNext \/ UNCHANGED Child!runvars
  OBVIOUS
<1>1. CASE UNCHANGED smokevars
  <2>1. \A r \in Runs : Untouched(r)
    BY <1>1 DEF smokevars, Untouched
  <2> QED BY <2>1, UntouchedView, SameViewStutters
<1>2. CASE start_subprocess
  <2>1. item \in Runs /\ launch(item) /\ proc[item] = "none"
    BY <1>2 DEF start_subprocess, IInv, LoopInv, LaunchInv
  <2> QED BY <2>1, LaunchRefines DEF Child!RunNext
<1>3. ASSUME NEW r \in Runs, SmokeStep(r)
      PROVE  Child!RunNext \/ UNCHANGED Child!runvars
  <2>1. ASSUME NEW v \in Runs, v # r
        PROVE  SameView(v)
    BY <1>3, <2>1, OthersUntouched, UntouchedView DEF IInv
  <2>2. CASE preflight_fails(r) \/ open_artifact(r) \/ write_artifact(r) \/ exit(r) \/ dies(r)
    BY <2>2, VisibleStepRefines DEF Child!RunNext
  <2>3. CASE \E c \in Arms : provider_bills(r, c)
    BY <2>3, ChargeRefines DEF Child!RunNext
  <2>4. CASE \/ create_journal(r) \/ run_started(r) \/ preflight_passes(r)
             \/ open_session(r) \/ session_fails(r)
             \/ \E c \in Arms : send_request(r, c)
             \/ \E c \in Arms, o \in Outcomes : request_ends(r, c, o)
             \/ \E c \in Arms, b \in BOOLEAN : generation_cost(r, c, b)
             \/ gather(r) \/ finalize_journal(r)
    <3>1. SameView(r)
      BY <2>4, InnerStep DEF IInv
    <3> QED BY <2>1, <3>1, SameViewStutters
  <2> QED BY <1>3, <2>2, <2>3, <2>4 DEF SmokeStep, RunStep
<1>4. \/ UNCHANGED smokevars \/ start_subprocess \/ \E r \in Runs : SmokeStep(r)
  <2>1. ASSUME timeout
        PROVE  \E r \in Runs : SmokeStep(r)
    BY <2>1 DEF timeout, SmokeStep, IInv, LoopInv
  <2>2. ASSUME NEW w \in Runs, ChildStep(w)
        PROVE  \E r \in Runs : SmokeStep(r)
    BY <2>2 DEF ChildStep
  <2> QED BY <2>1, <2>2 DEF Next, RunnerStep, invoke, lock_ledger, plan, loop_stops, skip_item,
    recover_source, loop_raises, reserve, record_timeout, no_artifact, postflight,
    write_response, finalize_source, finish, runner_crashes, resolve, record_resolution,
    resolver_crashes, OnlyRunner, OnlyResolver, vars
<1> QED BY <1>1, <1>2, <1>3, <1>4

\* live_smoke under its parent implements what its parents rely on.
THEOREM SubprocessIsPaidRun == Spec => ChildIsPaidRun
<1>1. Spec => Child!RunSpec
  BY InitRefines, NextRefines, IInvHolds, PTL DEF Spec, Child!RunSpec
<1> QED BY <1>1 DEF ChildIsPaidRun
=============================================================================
