------------------------------ MODULE LiveSmoke ------------------------------
(***************************************************************************)
(* The paid subprocess of the offline runners: live_smoke.py with the run  *)
(* journal of run_journal.py.  One run asks one question of one endpoint,  *)
(* in two concurrent arms (Epicure off and on), journals every provider    *)
(* event before it acts on it, looks up what each generation cost, seals   *)
(* the journal and writes one artifact.                                    *)
(*                                                                         *)
(* The process can die between any two of these steps; files survive it,   *)
(* and the provider may still accept and bill a request it has received.   *)
(* An arm makes one billable request (the frozen dataset policy allows one *)
(* provider attempt; further tool rounds repeat the same protocol).        *)
(***************************************************************************)
EXTENDS Integers, FiniteSets

CONSTANTS
  Runs,      \* the runs that may be launched
  Outcomes,  \* what may become of a request that was sent
  ArmCost    \* what the provider charges for one accepted request

Arms == {"off", "on"}

\* The attempt ids of a run: one request per arm, and the MCP session that
\* the Epicure-on arm opens before its request.
Attempts == Arms \cup {"mcp"}

Received == {"response_received", "response_received_no_id"}
SafeTerminals == {"pre_send_failure", "request_rejected", "retry_scheduled"}
UnsafeTerminals == {"uncertain_delivery", "invalid_response"}

\* What _post journals for each fate of a request.  "answered": accepted with
\* a generation id and a usable answer; "misidentified": likewise, but the result
\* names another model or provider, which live_smoke notes as an error beside it;
\* "unusable": with an id, but generate() raises later; "cached": with an id, but refused by _post itself after it was
\* journaled, because a cache may have answered; "noid": HTTP 200 without a
\* generation id; "lost": a transport error that _post does not catch, so nothing
\* is journaled.
OutcomeEvent ==
  [answered      |-> {"response_received"},
   misidentified |-> {"response_received"},
   unusable      |-> {"response_received"},
   cached        |-> {"response_received", "invalid_response"},
   noid          |-> {"response_received_no_id"},
   invalid       |-> {"invalid_response"},
   uncertain     |-> {"uncertain_delivery"},
   lost          |-> {},
   rejected      |-> {"request_rejected"},
   presend       |-> {"pre_send_failure"}]

Charged == {"answered", "misidentified", "unusable", "noid"}
Refused == {"rejected", "presend"}

\* Arms whose generate() returns a result.
Results == {"answered", "misidentified"}

\* Generations with an id and no result: the metadata of their cost is incomplete.
Incomplete == {"unusable", "cached"}

ASSUME LiveSmokeConstants ==
  /\ Outcomes \subseteq DOMAIN OutcomeEvent
  /\ ArmCost \in Nat \ {0}

VARIABLES
  proc,     \* where the subprocess of a run is
  arm,      \* the two generate() coroutines
  billed,   \* the provider has accepted the request and charges for it
  acct,     \* generation metadata of the id an arm received
  last,     \* the attempt of the newest entry of attempt_events
  journal,  \* the journal file
  events,   \* the provider events in it, by attempt
  art       \* the artifact file

smokevars == <<proc, arm, billed, acct, last, journal, events, art>>

Live(r) == proc[r] \notin {"none", "exited", "dead", "refused"}

SmokeInit ==
  /\ proc = [r \in Runs |-> "none"]
  /\ arm = [r \in Runs |-> [c \in Arms |-> "idle"]]
  /\ billed = [r \in Runs |-> [c \in Arms |-> FALSE]]
  /\ acct = [r \in Runs |-> [c \in Arms |-> "none"]]
  /\ last = [r \in Runs |-> "none"]
  /\ journal = [r \in Runs |-> "absent"]
  /\ events = [r \in Runs |-> [t \in Attempts |-> {}]]
  /\ art = [r \in Runs |-> "absent"]

-----------------------------------------------------------------------------
(* The subprocess. *)

\* The parent spawns the subprocess.
launch(r) ==
  /\ proc' = [proc EXCEPT ![r] = "boot"]
  /\ UNCHANGED <<arm, billed, acct, last, journal, events, art>>

\* RunJournal.create: the file first, its run_started line in a second step.
create_journal(r) ==
  /\ proc[r] = "boot"
  /\ proc' = [proc EXCEPT ![r] = "created"]
  /\ journal' = [journal EXCEPT ![r] = "empty"]
  /\ UNCHANGED <<arm, billed, acct, last, events, art>>

run_started(r) ==
  /\ proc[r] = "created"
  /\ proc' = [proc EXCEPT ![r] = "preflight"]
  /\ journal' = [journal EXCEPT ![r] = "open"]
  /\ UNCHANGED <<arm, billed, acct, last, events, art>>

\* Key status, endpoint contract, forecast and Epicure attestation: all must
\* agree with what was frozen before an arm may start.
preflight_passes(r) ==
  /\ proc[r] = "preflight"
  /\ proc' = [proc EXCEPT ![r] = "arms"]
  /\ UNCHANGED <<arm, billed, acct, last, journal, events, art>>

preflight_fails(r) ==
  /\ proc[r] = "preflight"
  /\ proc' = [proc EXCEPT ![r] = "refused"]
  /\ UNCHANGED <<arm, billed, acct, last, journal, events, art>>

journal_event(r, t, E) ==
  /\ events' = [events EXCEPT ![r][t] = @ \cup E]
  /\ last' = IF E = {} THEN last ELSE [last EXCEPT ![r] = t]

\* The Epicure-on arm opens its MCP session; the arm ends when that fails.
open_session(r) ==
  /\ proc[r] = "arms" /\ arm[r]["on"] = "idle"
  /\ arm' = [arm EXCEPT ![r]["on"] = "session"]
  /\ journal_event(r, "mcp", {"mcp_session_started"})
  /\ UNCHANGED <<proc, billed, acct, journal, art>>

session_fails(r) ==
  /\ proc[r] = "arms" /\ arm[r]["on"] = "session"
  /\ arm' = [arm EXCEPT ![r]["on"] = "toolless"]
  /\ UNCHANGED <<proc, billed, acct, last, journal, events, art>>

\* Fault: the request leaves before it is journaled.
Mutant_send_request(r, c) ==
  /\ proc[r] = "arms"
  /\ arm[r][c] = IF c = "on" THEN "session" ELSE "idle"
  /\ arm' = [arm EXCEPT ![r][c] = "sent"]
  /\ UNCHANGED <<proc, billed, acct, last, journal, events, art>>

\* _post: request_started is on disk before the first byte leaves.
send_request(r, c) ==
  /\ proc[r] = "arms"
  /\ arm[r][c] = IF c = "on" THEN "session" ELSE "idle"
  /\ arm' = [arm EXCEPT ![r][c] = "sent"]
  /\ journal_event(r, c, {"request_started"})
  /\ UNCHANGED <<proc, billed, acct, journal, art>>

\* The provider accepts a request it was sent, perhaps long after the
\* process that sent it gave up on it.
provider_bills(r, c) ==
  /\ arm[r][c] \in {"sent", "uncertain", "lost"} /\ ~billed[r][c]
  /\ billed' = [billed EXCEPT ![r][c] = TRUE]
  /\ UNCHANGED <<proc, arm, acct, last, journal, events, art>>

\* _post sees the fate of its request and journals it.
request_ends(r, c, o) ==
  /\ proc[r] = "arms" /\ arm[r][c] = "sent"
  /\ o \in Charged => billed[r][c]
  /\ o \in Refused => ~billed[r][c]
  /\ arm' = [arm EXCEPT ![r][c] = o]
  /\ journal_event(r, c, OutcomeEvent[o])
  /\ UNCHANGED <<proc, billed, acct, journal, art>>

\* _generation_cost: an arm with a result looks its generation up at the end of
\* generate(), the ids of incomplete arms are looked up when both arms are done.
\* Only a reconciled cost is journaled.
generation_cost(r, c, reconciled) ==
  /\ \/ proc[r] = "arms" /\ arm[r][c] \in Results
     \/ proc[r] = "accounting" /\ arm[r][c] \in Incomplete
  /\ acct[r][c] = "none"
  /\ acct' = [acct EXCEPT ![r][c] = IF reconciled THEN "reconciled" ELSE "unreconciled"]
  /\ journal_event(r, c, IF reconciled THEN {"accounting_reconciled"} ELSE {})
  /\ UNCHANGED <<proc, arm, billed, journal, art>>

\* asyncio.gather returns when both arms have ended.
gather(r) ==
  /\ proc[r] = "arms"
  /\ \A c \in Arms : /\ arm[r][c] \notin {"idle", "session", "sent"}
                     /\ arm[r][c] \in Results => acct[r][c] # "none"
  /\ proc' = [proc EXCEPT ![r] = "accounting"]
  /\ UNCHANGED <<arm, billed, acct, last, journal, events, art>>

\* RunJournal.finalize: append run_finalized, rename to the content address.
finalize_journal(r) ==
  /\ proc[r] = "accounting"
  /\ \A c \in Arms : arm[r][c] \in Incomplete => acct[r][c] # "none"
  /\ proc' = [proc EXCEPT ![r] = "finalized"]
  /\ journal' = [journal EXCEPT ![r] = "final"]
  /\ UNCHANGED <<arm, billed, acct, last, events, art>>

\* write_text opens (and so creates) the artifact before it has content.
open_artifact(r) ==
  /\ proc[r] = "finalized"
  /\ proc' = [proc EXCEPT ![r] = "writing"]
  /\ art' = [art EXCEPT ![r] = "torn"]
  /\ UNCHANGED <<arm, billed, acct, last, journal, events>>

write_artifact(r) ==
  /\ proc[r] = "writing"
  /\ proc' = [proc EXCEPT ![r] = "exiting"]
  /\ art' = [art EXCEPT ![r] = "whole"]
  /\ UNCHANGED <<arm, billed, acct, last, journal, events>>

\* The path of the artifact reaches the parent on stdout.
exit(r) ==
  /\ proc[r] = "exiting"
  /\ proc' = [proc EXCEPT ![r] = "exited"]
  /\ UNCHANGED <<arm, billed, acct, last, journal, events, art>>

\* An exception of live_smoke (a journal append that fails, the key status
\* read after the paid arms) or a killed process.  An append under way may
\* leave a torn last line in an open journal.
dies(r) ==
  /\ Live(r)
  /\ proc' = [proc EXCEPT ![r] = "dead"]
  /\ \/ UNCHANGED journal
     \/ journal[r] = "open" /\ journal' = [journal EXCEPT ![r] = "torn"]
  /\ UNCHANGED <<arm, billed, acct, last, events, art>>

RunStep(r) ==
  \/ create_journal(r) \/ run_started(r) \/ preflight_passes(r) \/ preflight_fails(r)
  \/ open_session(r) \/ session_fails(r)
  \/ \E c \in Arms : send_request(r, c)
  \/ \E c \in Arms, o \in Outcomes : request_ends(r, c, o)
  \/ \E c \in Arms, reconciled \in BOOLEAN : generation_cost(r, c, reconciled)
  \/ gather(r) \/ finalize_journal(r)
  \/ open_artifact(r) \/ write_artifact(r) \/ exit(r)

SmokeStep(r) == RunStep(r) \/ dies(r) \/ \E c \in Arms : provider_bills(r, c)

-----------------------------------------------------------------------------
(* What the files say afterwards. *)

\* recovery_state: the verdict on a journal without its artifact.
generations(r) == {c \in Arms : "response_received" \in events[r][c]}
uncertain(r) ==
  {t \in Attempts : \/ "uncertain_delivery" \in events[r][t]
                    \/ /\ "request_started" \in events[r][t]
                       /\ events[r][t] \cap (SafeTerminals \cup Received) = {}}

safe_to_replay(r) ==
  \/ \A t \in Attempts : events[r][t] = {}
  \/ /\ generations(r) = {} /\ uncertain(r) = {}
     /\ \A t \in Attempts : events[r][t] # {} => events[r][t] \cap SafeTerminals # {}

\* _load_lines accepts every journal that has its first line and no torn one.
JournalLoads(r) == journal[r] \notin {"empty", "torn"}

\* status "complete": both arms have a result and every cost is reconciled.
complete(r) == \A c \in Arms : arm[r][c] = "answered" /\ acct[r][c] = "reconciled"

\* Fault: a generation id is taken for a reconciled cost.
Mutant_fully_accounted(r) ==
  \A c \in Arms :
    events[r][c] # {} => events[r][c] \cap ({"response_received"} \cup SafeTerminals) # {}

\* _failed_artifact_costs_are_fully_accounted.  The last loop of the function
\* reads attempt_id, left over from the loop over the events, where it means
\* its own _attempt_id: last, not c.
fully_accounted(r) ==
  /\ \A c \in Arms : /\ "response_received_no_id" \notin events[r][c]
                     /\ acct[r][c] # "unreconciled"
  /\ \A c \in {d \in Arms : events[r][d] # {}} :
       /\ "request_started" \in events[r][c]
       /\ events[r][c] \cap UnsafeTerminals = {}
       /\ IF "response_received" \in events[r][c]
          THEN last[r] \in Arms /\ acct[r][last[r]] = "reconciled"
          ELSE events[r][c] \cap {"pre_send_failure", "request_rejected"} # {}

\* scan_live_smoke_artifacts: the exposure basis of a whole artifact.
AccountedSource(r) == complete(r) \/ fully_accounted(r)
Cost(counts(_)) ==
  (IF counts("off") THEN ArmCost ELSE 0) + (IF counts("on") THEN ArmCost ELSE 0)
ActualCost(r) == Cost(LAMBDA c : acct[r][c] = "reconciled")
Billed(r) == Cost(LAMBDA c : billed[r][c])

-----------------------------------------------------------------------------
\* The processes, arms and files of the runs are well formed.
SmokeTypeOK ==
  /\ proc \in [Runs -> {"none", "boot", "created", "preflight", "arms", "accounting",
                        "finalized", "writing", "exiting", "exited", "dead", "refused"}]
  /\ arm \in [Runs -> [Arms -> DOMAIN OutcomeEvent \cup
                                 {"idle", "session", "toolless", "sent"}]]
  /\ billed \in [Runs -> [Arms -> BOOLEAN]]
  /\ acct \in [Runs -> [Arms -> {"none", "reconciled", "unreconciled"}]]
  /\ last \in [Runs -> Attempts \cup {"none"}]
  /\ journal \in [Runs -> {"absent", "empty", "open", "torn", "final"}]
  /\ events \in [Runs -> [Attempts -> SUBSET (Received \cup SafeTerminals \cup
                            UnsafeTerminals \cup {"request_started",
                            "accounting_reconciled", "mcp_session_started"})]]
  /\ art \in [Runs -> {"absent", "torn", "whole"}]

\* What recovery_state calls safe to replay has cost nothing and will cost
\* nothing: not even a request still under way when its process died.
SafeToReplayIsFree ==
  \A r \in Runs : (~Live(r) /\ JournalLoads(r) /\ safe_to_replay(r)) =>
    \A c \in Arms : ~billed[r][c] /\ arm[r][c] \notin {"sent", "uncertain", "lost"}
=============================================================================
