---------------------------- MODULE BudgetLedger ----------------------------
(***************************************************************************)
(* The governed spend of FlavourBench: every battle reserves the worst     *)
(* case of its two arms before a provider is called and is settled at what *)
(* the calls cost.  Four kinds of budget govern one battle: its season,    *)
(* its controlled run, the season's budget for each execution backend, and *)
(* the provider account behind that backend, which seasons share.          *)
(*                                                                         *)
(* Source: the PostgreSQL budget authority (alembic 0016, the functions    *)
(* that reserve, settle and adjust), the application's half of the same    *)
(* checks (arena._reserve_budget, engine._assert_paid_request_authorized,  *)
(* engine.reconcile_battle_cost), the audit assert_budget_integrity, and   *)
(* the account-authorization and season-freeze endpoints of main.py.       *)
(*                                                                         *)
(* A transaction that changes budgets first takes the locks of the season  *)
(* and of the account rows, so what it does after them is one atomic step. *)
(* It began earlier, though, and CURRENT_TIMESTAMP, which stamps the cost  *)
(* events it writes, is the time it BEGAN.  That is why begin_transaction  *)
(* is an action of its own: an authorization epoch may be created between  *)
(* the two, and the audit decides by these timestamps which events the     *)
(* epoch's checkpoint already contains.                                    *)
(***************************************************************************)
EXTENDS Integers, FiniteSets, FiniteSetsExt

CONSTANTS
    Seasons, Runs, Backends, Battles,
    NoRun,        \* controlled_run_id of a public battle
    SeasonOf,     \* Battle.season_id
    RunOf,        \* Battle.controlled_run_id
    RunSeason,    \* ControlledRun.season_id
    BackendOf,    \* ResponseArm.execution_backend
    Worst,        \* SeasonModel.worst_case_cost_micros of the arm's endpoint
    Cap,          \* budget_cap_micros of every budget
    Opening,      \* opening_used_micros of the provider accounts
    Bedrock,      \* the backends whose invoices are cross-checked
    Reported,     \* costs a provider may report, negative ones included
    Billed,       \* gross usage an invoice may show for an arm
    ToleranceFloor, \* the 10 000 micros of the billing tolerance
    Expiring,     \* bound: the budgets whose own validity may end in a behaviour
    MaxEpoch,     \* bound: authorization epochs of each account
    MaxChecks     \* bound: billing cross-checks of an arm

Arms == Battles \X {"left", "right"}

Budgets == ({"season"} \X Seasons) \cup ({"run"} \X Runs)
           \cup ({"provider"} \X Seasons \X Backends)
           \cup ({"account"} \X Backends)

ASSUME LedgerAssumption ==
    /\ IsFiniteSet(Battles)
    /\ NoRun \notin Runs
    /\ SeasonOf \in [Battles -> Seasons]
    /\ RunOf \in [Battles -> Runs \cup {NoRun}]
    /\ RunSeason \in [Runs -> Seasons]
    /\ \A b \in Battles : RunOf[b] \in Runs => RunSeason[RunOf[b]] = SeasonOf[b]
    /\ BackendOf \in [Arms -> Backends]
    /\ Worst \in [Arms -> Nat \ {0}]
    /\ Cap \in [Budgets -> Nat]
    /\ \A s \in Seasons, k \in Backends : Cap[<<"provider", s, k>>] <= Cap[<<"account", k>>]
    /\ Opening \in [Backends -> Nat]
    /\ \A k \in Backends : Opening[k] <= Cap[<<"account", k>>]
    /\ Bedrock \subseteq Backends
    /\ Reported \subseteq Int
    /\ Billed \subseteq Nat
    /\ ToleranceFloor \in Nat
    /\ Expiring \subseteq Budgets
    /\ MaxEpoch \in [Backends -> Nat \ {0}]
    /\ MaxChecks \in Nat

VARIABLES
    season,     \* Season.status: "draft", "active" ("pilot" admits alike) or "cost_halted"
    root,       \* epochs the season's provider budgets were authorized under
    closed,     \* the controlled runs whose status is no longer "active"
    used,       \* budget_used_micros of every budget
    reserved,   \* budget_reserved_micros of every budget
    battle,     \* "none", "reserved", "uncertain" or "settled"
    sent,       \* arms whose paid request was authorized
    cost,       \* ResponseArm.cost_micros
    billable,   \* arms priced from the rate card, open to billing evidence
    checks,     \* number of billing cross-checks of an arm
    difference, \* billing_difference_micros of the arm's active cross-check
    governed,   \* governed deltas its cross-checks have added
    auth,       \* head of the account's authorization chain
    counted,    \* account events the audit dates after the head
    expired,    \* provider budgets and account ledgers past valid_until
    txn         \* the open transaction about a battle, or NoTxn

vars == <<season, root, closed, used, reserved, battle, sent, cost, billable,
          checks, difference, governed, auth, counted, expired, txn>>

counters == <<used, reserved>>
billing == <<checks, difference, governed>>

-----------------------------------------------------------------------------
(* What a battle takes from a budget. *)

ArmsOf(b) == {b} \X {"left", "right"}

\* The budgets that an arm is charged to.
Governing(a) == {<<"season", SeasonOf[a[1]]>>,
                 <<"provider", SeasonOf[a[1]], BackendOf[a]>>,
                 <<"account", BackendOf[a]>>}
                \cup {<<"run", r>> : r \in {RunOf[a[1]]} \cap Runs}

Charge(amount, a, g) == IF g \in Governing(a) THEN amount[a] ELSE 0

\* What the two arms of b take from g: the total for the season and the run,
\* the sum per backend for a provider budget and an account.
Charged(amount, b, g) == Charge(amount, <<b, "left">>, g) + Charge(amount, <<b, "right">>, g)

\* The frozen reservation contract of a battle (reserved_cost_micros and
\* provider_reservations_json).
Contract == [b \in Battles |-> [g \in Budgets |-> Charged(Worst, b, g)]]

Share(b, g) == Contract[b][g]

GovernedBy(b) == UNION {Governing(a) : a \in ArmsOf(b)}

\* The budgets whose overrun halts season s: its own, those of its providers
\* and the accounts behind them.  The budget of a controlled run is not one.
HaltScope(s) == {<<"season", s>>} \cup ({"provider"} \X {s} \X Backends)
                \cup ({"account"} \X Backends)

Over(g) == used[g] + reserved[g] > Cap[g]

\* An admission must leave 15% of every budget free.
AdmissionOpen(b, g) ==
    (used[g] + reserved[g] + Share(b, g)) * 10000 < Cap[g] * 8500

-----------------------------------------------------------------------------
(* The audit. *)

Outstanding(b) == battle[b] \in {"reserved", "uncertain"}

BattlesReserved(g) ==
    SumFunctionOnSet([b \in Battles |-> Share(b, g)], {b \in Battles : Outstanding(b)})

\* Settled cost and governed billing deltas; a run is not charged the latter.
BattlesUsed(g) ==
    SumFunctionOnSet([b \in Battles |->
                        Charged(cost, b, g)
                        + IF g[1] = "run" THEN 0 ELSE Charged(governed, b, g)],
                     Battles)

\* The counter part of assert_budget_integrity for one season.  The rows of
\* season, run and provider must equal what the battles say; an account must
\* equal the checkpoint of its authorization head plus the events dated later.
CountersAgree(s) ==
    /\ \A g \in {<<"season", s>>} \cup ({"provider"} \X {s} \X Backends)
                \cup ({"run"} \X {r \in Runs : RunSeason[r] = s}) :
          /\ reserved[g] = BattlesReserved(g)
          /\ used[g] = BattlesUsed(g)
    /\ \A k \in Backends :
          /\ reserved[<<"account", k>>] = auth[k].reserved + counted[k].reserved
          /\ used[<<"account", k>>] = auth[k].used + counted[k].used

\* Its receipt part: a terminal arm without a reconciled receipt fails it.
ReceiptsComplete(s) == \A b \in Battles : SeasonOf[b] = s => battle[b] # "uncertain"

assert_budget_integrity(s) == CountersAgree(s) /\ ReceiptsComplete(s)

-----------------------------------------------------------------------------
(* Initial state: the accounts are authorized for the first time and the   *)
(* seasons are drafts.                                                     *)

NoTxn == [k \in Backends |-> 0]

Checkpoint(u, r, n) == [active |-> TRUE, lapsed |-> FALSE, epoch |-> n,
                        used |-> u, reserved |-> r]

Init ==
    /\ season = [s \in Seasons |-> "draft"]
    /\ root = [s \in Seasons |-> NoTxn]
    /\ closed = {}
    /\ used = [g \in Budgets |-> IF g[1] = "account" THEN Opening[g[2]] ELSE 0]
    /\ reserved = [g \in Budgets |-> 0]
    /\ battle = [b \in Battles |-> "none"]
    /\ sent = {}
    /\ cost = [a \in Arms |-> 0]
    /\ billable = {}
    /\ checks = [a \in Arms |-> 0]
    /\ difference = [a \in Arms |-> 0]
    /\ governed = [a \in Arms |-> 0]
    /\ auth = [k \in Backends |-> Checkpoint(Opening[k], 0, 1)]
    /\ counted = [k \in Backends |-> [used |-> 0, reserved |-> 0]]
    /\ expired = {}
    /\ txn = [b \in Battles |-> NoTxn]

-----------------------------------------------------------------------------
(* Transactions. *)

\* The first statement of a transaction fixes CURRENT_TIMESTAMP.  What the
\* audit will see of it is how many epochs each account had by then.
begin_transaction(b) ==
    /\ txn[b] = NoTxn
    /\ battle[b] # "settled" \/ \E a \in ArmsOf(b) : a \in billable /\ checks[a] < MaxChecks
    /\ txn' = [txn EXCEPT ![b] = [k \in Backends |-> auth[k].epoch]]
    /\ UNCHANGED <<season, root, closed, counters, battle, sent, cost, billable,
                   billing, auth, counted, expired>>

\* A refused check, a failed audit or a lost connection: nothing was written.
roll_back(b) ==
    /\ txn[b] # NoTxn
    /\ txn' = [txn EXCEPT ![b] = NoTxn]
    /\ UNCHANGED <<season, root, closed, counters, battle, sent, cost, billable,
                   billing, auth, counted, expired>>

\* The account events of b's transaction are dated after the head of account
\* k only if the head was already there when the transaction began.
Counts(b, k) == txn[b][k] = auth[k].epoch

Commit(b) == txn[b] # NoTxn /\ txn' = [txn EXCEPT ![b] = NoTxn]

\* Every transaction that moved budgets ends with the audit of its season and
\* is rolled back if that fails.
ClosingAudit(s) == assert_budget_integrity(s)'

-----------------------------------------------------------------------------
(* Admission. *)

\* admin_season_freeze: a season is authorized on every account through its
\* active epoch, which becomes the root its later epochs are traced back to.
freeze(s) ==
    /\ season[s] = "draft"
    /\ \A k \in Backends :
          auth[k].active /\ ~auth[k].lapsed /\ ~Over(<<"account", k>>)
    /\ season' = [season EXCEPT ![s] = "active"]
    /\ root' = [root EXCEPT ![s] = [k \in Backends |-> auth[k].epoch]]
    /\ UNCHANGED <<closed, counters, battle, sent, cost, billable, billing, auth,
                   counted, expired, txn>>

\* arena._reserve_budget: the application's checks.
ApplicationAdmits(b) ==
    /\ season[SeasonOf[b]] = "active"
    /\ RunOf[b] \notin closed
    /\ \A g \in GovernedBy(b) : AdmissionOpen(b, g)
    /\ \A a \in ArmsOf(b) :
          /\ auth[BackendOf[a]].active /\ ~auth[BackendOf[a]].lapsed
          /\ <<"provider", SeasonOf[b], BackendOf[a]>> \notin expired
    /\ assert_budget_integrity(SeasonOf[b])

\* The owner function repeats the amounts and the states, but takes the expiry
\* of the account from its ledger row and not from the authorization.
AuthorityAdmits(b) ==
    /\ season[SeasonOf[b]] = "active"
    /\ RunOf[b] \notin closed
    /\ \A g \in GovernedBy(b) : AdmissionOpen(b, g) /\ g \notin expired

\* create_battle: reserve the worst case of both arms in every budget, write
\* the reserve events, and audit the result before the commit.
reserve(b) ==
    /\ Commit(b)
    /\ battle[b] = "none"
    /\ ApplicationAdmits(b)
    /\ AuthorityAdmits(b)
    /\ reserved' = [g \in Budgets |-> reserved[g] + Share(b, g)]
    /\ battle' = [battle EXCEPT ![b] = "reserved"]
    /\ counted' = [k \in Backends |->
                     IF Counts(b, k)
                     THEN [counted[k] EXCEPT !.reserved = @ + Share(b, <<"account", k>>)]
                     ELSE counted[k]]
    /\ UNCHANGED <<season, root, closed, used, sent, cost, billable, billing, auth, expired>>
    /\ ClosingAudit(SeasonOf[b])

-----------------------------------------------------------------------------
(* Spending. *)

\* _assert_paid_request_authorized: the whole boundary is checked again before
\* every paid request.
dispatch(a) ==
    LET b == a[1]
        k == BackendOf[a]
    IN  /\ battle[b] = "reserved"
        /\ a \notin sent
        /\ season[SeasonOf[b]] = "active"
        /\ RunOf[b] \notin closed
        /\ auth[k].active /\ ~auth[k].lapsed
        /\ <<"provider", SeasonOf[b], k>> \notin expired
        /\ \A g \in Governing(a) : ~Over(g) /\ reserved[g] >= Share(b, g)
        /\ assert_budget_integrity(SeasonOf[b])
        /\ sent' = sent \cup {a}
        /\ UNCHANGED <<season, root, closed, counters, battle, cost, billable, billing,
                       auth, counted, expired, txn>>

\* The worker cannot price a paid request: the reservation stays.
leave_uncertain(b) ==
    /\ battle[b] = "reserved"
    /\ ArmsOf(b) \cap sent # {}
    /\ battle' = [battle EXCEPT ![b] = "uncertain"]
    /\ UNCHANGED <<season, root, closed, counters, sent, cost, billable, billing,
                   auth, counted, expired, txn>>

-----------------------------------------------------------------------------
(* Settlement. *)

\* Fault: the reported cost is stored as it comes.
Mutant_Recorded(c) == c

\* Costs are stored clamped: arm.cost_micros = max(0, reported).
Recorded(c) == IF c < 0 THEN 0 ELSE c

\* The costs of b's arms once the reported amounts are in: an arm that was
\* never sent is a known zero.
Costs(b, report) ==
    [a \in Arms |-> IF a[1] # b THEN cost[a]
                    ELSE IF a \in sent THEN Recorded(report[a[2]]) ELSE 0]

\* Fault: only the caps are looked at, not the battle's own overrun.
Mutant_SettlementHalts(b) == \E g \in HaltScope(SeasonOf[b]) : Over(g)'

\* The season is halted when b cost more than it had reserved, in total or on
\* one backend, or when a budget of HaltScope ends above its cap.
SettlementHalts(b) ==
    \/ \E g \in GovernedBy(b) : Charged(cost', b, g) > Share(b, g)
    \/ \E g \in HaltScope(SeasonOf[b]) : Over(g)'

\* flavourbench_settle_battle_budget followed by the audit.  unpriced: the
\* sent arms whose cost is settled by hand, without a rate-card receipt.
SettleBattle(b, report, unpriced) ==
    /\ Commit(b)
    /\ \A g \in GovernedBy(b) : reserved[g] >= Share(b, g)
    /\ cost' = Costs(b, report)
    /\ reserved' = [g \in Budgets |-> reserved[g] - Share(b, g)]
    /\ used' = [g \in Budgets |-> used[g] + Charged(cost', b, g)]
    /\ battle' = [battle EXCEPT ![b] = "settled"]
    /\ billable' = billable \cup
          {a \in (ArmsOf(b) \cap sent) \ unpriced : BackendOf[a] \in Bedrock}
    /\ counted' = [k \in Backends |->
                     IF Counts(b, k)
                     THEN [used |-> counted[k].used + Charged(cost', b, <<"account", k>>),
                           reserved |-> counted[k].reserved - Share(b, <<"account", k>>)]
                     ELSE counted[k]]
    /\ season' = IF SettlementHalts(b)
                 THEN [season EXCEPT ![SeasonOf[b]] = "cost_halted"]
                 ELSE season
    /\ UNCHANGED <<root, closed, sent, checks, difference, governed, auth, expired>>
    /\ ClosingAudit(SeasonOf[b])

\* reconcile_battle_cost by the worker or by recovery.
settle(b) ==
    /\ battle[b] = "reserved"
    /\ \E report \in [{"left", "right"} -> Reported] : SettleBattle(b, report, {})

\* admin_settle_uncertain_cost: only the battles of a controlled run can be
\* settled by hand.
settle_uncertain(b) ==
    /\ battle[b] = "uncertain"
    /\ RunOf[b] # NoRun
    /\ \E report \in [{"left", "right"} -> Reported],
          unpriced \in (SUBSET (ArmsOf(b) \cap sent)) \ {{}} :
             /\ \A a \in unpriced : report[a[2]] >= 0
             /\ SettleBattle(b, report, unpriced)

-----------------------------------------------------------------------------
(* Billing evidence. *)

\* Faults: a correction gives spend back; a correction charges nothing.
Mutant_GovernedDelta_signed(new, old) == new - old
Mutant_GovernedDelta_once(new, old) == IF old = 0 /\ new > 0 THEN new ELSE 0

\* Only an increase over the superseded cross-check is charged.
GovernedDelta(new, old) == IF new - old > 0 THEN new - old ELSE 0

Tolerance(rate) ==
    IF (rate + 49) \div 50 > ToleranceFloor THEN (rate + 49) \div 50 ELSE ToleranceFloor

Discrepant(diff, rate) == diff > Tolerance(rate) \/ -diff > Tolerance(rate)

\* Evidence beyond the tolerance, or a budget pushed above its cap, halts.
BillingHalts(a, diff) ==
    \/ Discrepant(diff, cost[a])
    \/ \E g \in Governing(a) : g[1] # "run" /\ Over(g)'

\* flavourbench_register_bedrock_billing_adjustment for a one-arm statement: the
\* first cross-check of the arm, or a correction that supersedes the active one.
register_billing(a, billed) ==
    LET b == a[1]
        s == SeasonOf[b]
        diff == billed - cost[a]
        delta == GovernedDelta(diff, difference[a])
    IN  /\ Commit(b)
        /\ a \in billable
        /\ checks[a] < MaxChecks
        /\ checks' = [checks EXCEPT ![a] = @ + 1]
        /\ difference' = [difference EXCEPT ![a] = diff]
        /\ governed' = [governed EXCEPT ![a] = @ + delta]
        /\ used' = [g \in Budgets |->
                      IF g \in Governing(a) /\ g[1] # "run" THEN used[g] + delta ELSE used[g]]
        /\ counted' = IF Counts(b, BackendOf[a])
                      THEN [counted EXCEPT ![BackendOf[a]].used = @ + delta]
                      ELSE counted
        /\ UNCHANGED <<root, closed, reserved, battle, sent, cost, billable, auth, expired>>
        /\ season' = IF BillingHalts(a, diff)
                     THEN [season EXCEPT ![s] = "cost_halted"]
                     ELSE season
        /\ assert_budget_integrity(s)
        /\ ClosingAudit(s)

-----------------------------------------------------------------------------
(* Account authorizations. *)

\* Faults: the audit goes on counting the events from before the new epoch; the
\* rotation installs the attested exposure in the ledger.
Mutant_rotate_recount(k, u, r) ==
    /\ auth[k].epoch < MaxEpoch[k]
    /\ u + r <= Cap[<<"account", k>>]
    /\ u = used[<<"account", k>>]
    /\ r = reserved[<<"account", k>>]
    /\ auth' = [auth EXCEPT ![k] = Checkpoint(u, r, auth[k].epoch + 1)]
    /\ UNCHANGED <<season, root, closed, counters, battle, sent, cost, billable, billing,
                   counted, expired, txn>>

Mutant_rotate(k, u, r) ==
    /\ auth[k].epoch < MaxEpoch[k]
    /\ u + r <= Cap[<<"account", k>>]
    /\ used' = [used EXCEPT ![<<"account", k>>] = u]
    /\ reserved' = [reserved EXCEPT ![<<"account", k>>] = r]
    /\ auth' = [auth EXCEPT ![k] = Checkpoint(u, r, auth[k].epoch + 1)]
    /\ counted' = [counted EXCEPT ![k] = [used |-> 0, reserved |-> 0]]
    /\ UNCHANGED <<season, root, closed, battle, sent, cost, billable, billing, expired, txn>>

\* admin_provider_account_authorization on an existing ledger: a new epoch
\* whose attested exposure must be the ledger's.  It locks the account alone.
rotate(k, u, r) ==
    /\ auth[k].epoch < MaxEpoch[k]
    /\ u + r <= Cap[<<"account", k>>]
    /\ u = used[<<"account", k>>]
    /\ r = reserved[<<"account", k>>]
    /\ auth' = [auth EXCEPT ![k] = Checkpoint(u, r, auth[k].epoch + 1)]
    /\ counted' = [counted EXCEPT ![k] = [used |-> 0, reserved |-> 0]]
    /\ UNCHANGED <<season, root, closed, counters, battle, sent, cost, billable, billing,
                   expired, txn>>

\* admin_revoke_provider_account_authorization.
revoke(k) ==
    /\ auth[k].active
    /\ auth' = [auth EXCEPT ![k].active = FALSE]
    /\ UNCHANGED <<season, root, closed, counters, battle, sent, cost, billable, billing,
                   counted, expired, txn>>

-----------------------------------------------------------------------------
(* The environment of the ledger. *)

\* Mutant: a provider budget may outlive the epoch it was authorized under.
Mutant_Rooted(k, e) == {}

\* The provider budgets that were authorized under epoch e of account k: they
\* end no later than it does.
Rooted(k, e) == {<<"provider", s, k>> : s \in {x \in Seasons : root[x][k] = e}}

\* A validity ends.  The ledger row keeps the expiry of the first epoch, so
\* those two pass together; a later epoch has an expiry of its own.
lapse(k) ==
    \/ /\ <<"account", k>> \in Expiring
       /\ auth[k].epoch > 1
       /\ ~auth[k].lapsed
       /\ auth' = [auth EXCEPT ![k].lapsed = TRUE]
       /\ expired' = expired \cup Rooted(k, auth[k].epoch)
    \/ /\ <<"account", k>> \in Expiring \ expired
       /\ expired' = expired \cup {<<"account", k>>} \cup Rooted(k, 1)
       /\ auth' = [auth EXCEPT ![k].lapsed = @ \/ auth[k].epoch = 1]

provider_lapse(s, k) ==
    /\ season[s] # "draft"
    /\ <<"provider", s, k>> \in Expiring \ expired
    /\ expired' = expired \cup {<<"provider", s, k>>}
    /\ UNCHANGED auth

Expire ==
    /\ \/ \E k \in Backends : lapse(k)
       \/ \E s \in Seasons, k \in Backends : provider_lapse(s, k)
    /\ UNCHANGED <<season, root, closed, counters, battle, sent, cost, billable, billing,
                   counted, txn>>

\* A controlled run is collected or revoked (module GenerationJobs).
close_run(r) ==
    /\ r \notin closed
    /\ closed' = closed \cup {r}
    /\ UNCHANGED <<season, root, counters, battle, sent, cost, billable, billing,
                   auth, counted, expired, txn>>

-----------------------------------------------------------------------------
BattleStep ==
    \E b \in Battles :
        \/ begin_transaction(b)
        \/ roll_back(b)
        \/ reserve(b)
        \/ leave_uncertain(b)
        \/ settle(b)
        \/ settle_uncertain(b)

ArmStep ==
    \E a \in Arms :
        \/ dispatch(a)
        \/ \E billed \in Billed : register_billing(a, billed)

AccountStep ==
    \E k \in Backends :
        \/ revoke(k)
        \/ \E u, r \in 0 .. Cap[<<"account", k>>] : rotate(k, u, r)

Next ==
    \/ BattleStep
    \/ ArmStep
    \/ AccountStep
    \/ Expire
    \/ \E s \in Seasons : freeze(s)
    \/ \E r \in Runs : close_run(r)

Spec == Init /\ [][Next]_vars

-----------------------------------------------------------------------------
(* Properties. *)

\* Counters are nonnegative integers, as the database's check constraints and
\* _require_nonnegative_budget (models.py) demand of every row; the clamp of
\* the recorded costs and the underflow checks of the settlement keep it so.
TypeOK ==
    /\ season \in [Seasons -> {"draft", "active", "cost_halted"}]
    /\ root \in [Seasons -> [Backends -> Nat]]
    /\ closed \subseteq Runs
    /\ used \in [Budgets -> Nat]
    /\ reserved \in [Budgets -> Nat]
    /\ battle \in [Battles -> {"none", "reserved", "uncertain", "settled"}]
    /\ sent \subseteq Arms
    /\ cost \in [Arms -> Nat]
    /\ billable \subseteq Arms
    /\ checks \in [Arms -> Nat]
    /\ difference \in [Arms -> Int]
    /\ governed \in [Arms -> Nat]
    /\ auth \in [Backends -> [active : BOOLEAN, lapsed : BOOLEAN, epoch : Nat,
                              used : Nat, reserved : Nat]]
    /\ counted \in [Backends -> [used : Int, reserved : Int]]
    /\ expired \subseteq Budgets
    /\ txn \in [Battles -> [Backends -> Nat]]

\* The seasons that draw on a budget.
DrawsOn(s, g) == g \in HaltScope(s) \cup ({"run"} \X {r \in Runs : RunSeason[r] = s})

\* No budget of any kind is overcommitted behind the governor's back: used plus
\* reserved passes the cap only once a season drawing on it has been halted,
\* whatever mix of seasons, reservations, overruns, invoices and corrections led
\* there (settle, 0016; register_billing, 0016 and main.py).
OverCapIsHalted ==
    \A g \in Budgets : Over(g) =>
        \E s \in Seasons : DrawsOn(s, g) /\ season[s] = "cost_halted"

\* The counters never lock a season out: in every committed state they pass the
\* audit of EVERY season.  A transaction is closed by the audit of its own
\* season only, although it moves the account rows that other seasons are audited
\* against, and a rotation by none; and the audit dates account events by the
\* start of their transaction, while an epoch may be created meanwhile.
AuditHolds == \A s \in Seasons : CountersAgree(s)

\* An account carries exactly what the battles of ALL seasons hold and have
\* spent on it, whatever epochs it went through: a rotation works
\* "without replacing its spend ledger" (admin_provider_account_authorization).
AccountCarriesAllSeasons ==
    \A k \in Backends :
        /\ reserved[<<"account", k>>] = BattlesReserved(<<"account", k>>)
        /\ used[<<"account", k>>] = Opening[k] + BattlesUsed(<<"account", k>>)

\* Along any chain of corrections the governed spend covers what the active
\* invoices say the settled arms cost.
ExposureCoversInvoices ==
    \A g \in Budgets :
        g[1] # "run" =>
            used[g] >= SumFunctionOnSet(
                          [b \in Battles |-> Charged(cost, b, g) + Charged(difference, b, g)],
                          Battles)

\* "A later invoice correction may reduce the reconciled bill, but it must never
\* restore spend authority": no step lowers the governed spend of any budget.
SpendAuthorityNotRestored ==
    [][\A g \in Budgets : used'[g] >= used[g]]_vars

\* Whoever passes the application's checks is admitted by the database's,
\* whichever validity ended and however the account was rotated, as long as the
\* season was frozen under the first authorization epoch of its accounts: the
\* ledger row keeps the expiry of that epoch, which only those provider budgets
\* are sure not to outlive (0016, reserve; main.py, freeze).
AuthorityAgreesWithApplication ==
    \A b \in Battles :
        /\ battle[b] = "none"
        /\ \A k \in Backends : root[SeasonOf[b]][k] = 1
        /\ ApplicationAdmits(b)
        => AuthorityAdmits(b)
=============================================================================
