------------------------- MODULE BudgetLedgerProofs -------------------------
(***************************************************************************)
(* Proofs about BudgetLedger for any seasons, runs, backends, battles, caps *)
(* and prices.  OverCapIsHalted needs no strengthening beyond TypeOK: the  *)
(* admission leaves room below the cap, and a settlement or an invoice     *)
(* that ends above it is seen by the halting rule of the same transaction. *)
(* The other invariants follow from BookInv, which says what every counter *)
(* is made of: the books of the battles, of all seasons together.          *)
(***************************************************************************)
EXTENDS BudgetLedger, SumLemmas

-----------------------------------------------------------------------------
(* What a battle takes from a budget. *)

\* An amount charged to a budget (a frozen reservation or a settled cost) is a
\* natural number if the amounts of the arms are.
LEMMA ChargedNat ==
  ASSUME NEW amount \in [Arms -> Nat], NEW b \in Battles, NEW g
  PROVE  Charged(amount, b, g) \in Nat
<1>1. <<b, "left">> \in Arms /\ <<b, "right">> \in Arms
  BY DEF Arms
<1> QED BY <1>1 DEF Charged, Charge

\* The contract of arena._reserve_budget holds nonnegative amounts.
LEMMA ShareNat ==
  ASSUME NEW b \in Battles, NEW g \in Budgets
  PROVE  Share(b, g) \in Nat /\ Share(b, g) = Charged(Worst, b, g)
<1>1. Share(b, g) = Charged(Worst, b, g)
  BY DEF Share, Contract
<1>2. Worst \in [Arms -> Nat]
  BY LedgerAssumption
<1> QED BY <1>1, <1>2, ChargedNat

\* A budget that governs neither arm is not charged.
LEMMA ChargedElsewhere ==
  ASSUME NEW amount, NEW b \in Battles, NEW g, g \notin GovernedBy(b)
  PROVE  Charged(amount, b, g) = 0
<1>1. g \notin Governing(<<b, "left">>) /\ g \notin Governing(<<b, "right">>)
  BY DEF GovernedBy, ArmsOf
<1> QED BY <1>1 DEF Charged, Charge

\* An arm is charged to budgets that exist.
LEMMA GoverningBudgets ==
  ASSUME NEW a \in Arms
  PROVE  Governing(a) \subseteq Budgets
<1>1. a[1] \in Battles /\ SeasonOf[a[1]] \in Seasons /\ BackendOf[a] \in Backends
  BY LedgerAssumption DEF Arms
<1> QED BY <1>1 DEF Governing, Budgets

\* The account behind a backend is a budget with a cap.
LEMMA AccountBudgets ==
  ASSUME NEW k \in Backends
  PROVE  <<"account", k>> \in Budgets /\ Cap[<<"account", k>>] \in Nat
BY LedgerAssumption DEF Budgets

\* Every budget an arm is charged to is one its season draws on.
LEMMA GoverningDraws ==
  ASSUME NEW a \in Arms, NEW g \in Governing(a)
  PROVE  /\ DrawsOn(SeasonOf[a[1]], g)
         /\ g \notin {<<"run", r>> : r \in Runs} => g \in HaltScope(SeasonOf[a[1]])
<1>1. a[1] \in Battles /\ SeasonOf[a[1]] \in Seasons /\ BackendOf[a] \in Backends
  BY LedgerAssumption DEF Arms
<1>2. CASE g \in {<<"run", r>> : r \in {RunOf[a[1]]} \cap Runs}
  BY <1>1, <1>2, LedgerAssumption DEF DrawsOn
<1>3. CASE g \notin {<<"run", r>> : r \in {RunOf[a[1]]} \cap Runs}
  BY <1>1, <1>3 DEF DrawsOn, Governing, HaltScope
<1> QED BY <1>2, <1>3

\* The same of a battle: its season draws on every budget that governs it.
LEMMA GovernedByDraws ==
  ASSUME NEW b \in Battles, NEW g \in GovernedBy(b)
  PROVE  g \in Budgets /\ DrawsOn(SeasonOf[b], g)
<1>1. PICK a \in ArmsOf(b) : g \in Governing(a)
  BY DEF GovernedBy
<1>2. a \in Arms /\ a[1] = b
  BY DEF ArmsOf, Arms
<1> QED BY <1>1, <1>2, GoverningDraws, GoverningBudgets

-----------------------------------------------------------------------------
(* Type correctness. *)

\* Drafts of seasons and accounts just authorized are well typed.
LEMMA TypeInit == Init => TypeOK
<1> SUFFICES ASSUME Init PROVE TypeOK
  OBVIOUS
<1>1. used \in [Budgets -> Nat]
  <2>1. \A g \in Budgets : g[1] = "account" => g[2] \in Backends
    BY DEF Budgets
  <2> QED BY <2>1, LedgerAssumption DEF Init
<1>2. auth \in [Backends -> [active : BOOLEAN, lapsed : BOOLEAN, epoch : Nat,
                             used : Nat, reserved : Nat]]
  BY LedgerAssumption DEF Init, Checkpoint
<1>3. txn \in [Battles -> [Backends -> Nat]] /\ root \in [Seasons -> [Backends -> Nat]]
  BY DEF Init, NoTxn
<1> QED BY <1>1, <1>2, <1>3 DEF Init, TypeOK

\* What flavourbench_settle_battle_budget leaves in the counters: the recorded
\* costs are clamped, and no reservation is smaller than what is released.
LEMMA SettleCounters ==
  ASSUME TypeOK, NEW b \in Battles,
         NEW report \in [{"left", "right"} -> Int], NEW unpriced,
         SettleBattle(b, report, unpriced)
  PROVE  /\ cost' \in [Arms -> Nat]
         /\ reserved' \in [Budgets -> Nat]
         /\ used' \in [Budgets -> Nat]
         /\ \A g \in Budgets :
              /\ Charged(cost', b, g) \in Nat
              /\ used'[g] = used[g] + Charged(cost', b, g)
              /\ reserved'[g] = reserved[g] - Share(b, g)
<1>1. cost' \in [Arms -> Nat]
  <2>1. cost' = Costs(b, report) /\ cost \in [Arms -> Nat]
    BY DEF SettleBattle, TypeOK
  <2>2. \A a \in Arms : a[2] \in {"left", "right"}
    BY DEF Arms
  <2>3. \A a \in Arms : Recorded(report[a[2]]) \in Nat
    BY <2>2 DEF Recorded
  <2> QED BY <2>1, <2>3 DEF Costs
<1>2. \A g \in Budgets : reserved[g] \in Nat /\ used[g] \in Nat
  BY DEF TypeOK
<1>3. \A g \in Budgets : reserved[g] >= Share(b, g)
  <2> SUFFICES ASSUME NEW g \in Budgets PROVE reserved[g] >= Share(b, g)
    OBVIOUS
  <2>1. CASE g \in GovernedBy(b)
    BY <2>1 DEF SettleBattle
  <2>2. CASE g \notin GovernedBy(b)
    BY <1>2, <2>2, ShareNat, ChargedElsewhere
  <2> QED BY <2>1, <2>2
<1>4. \A g \in Budgets : Charged(cost', b, g) \in Nat /\ Share(b, g) \in Nat
  BY <1>1, ChargedNat, ShareNat
<1>5. \A g \in Budgets : /\ used'[g] = used[g] + Charged(cost', b, g)
                         /\ reserved'[g] = reserved[g] - Share(b, g)
  BY DEF SettleBattle
<1>6. reserved' = [g \in Budgets |-> reserved[g] - Share(b, g)]
  BY DEF SettleBattle
<1>7. used' = [g \in Budgets |-> used[g] + Charged(cost', b, g)]
  BY DEF SettleBattle
<1> QED BY <1>1, <1>2, <1>3, <1>4, <1>5, <1>6, <1>7

\* A settlement keeps every row well typed.
LEMMA SettleType ==
  ASSUME TypeOK, NEW b \in Battles,
         NEW report \in [{"left", "right"} -> Reported], NEW unpriced,
         SettleBattle(b, report, unpriced)
  PROVE  TypeOK'
<1>1. report \in [{"left", "right"} -> Int]
  BY LedgerAssumption
<1>2. /\ cost' \in [Arms -> Nat]
      /\ reserved' \in [Budgets -> Nat]
      /\ used' \in [Budgets -> Nat]
      /\ \A g \in Budgets : Charged(cost', b, g) \in Nat
  BY <1>1, SettleCounters
<1>3. battle' \in [Battles -> {"none", "reserved", "uncertain", "settled"}]
  BY DEF SettleBattle, TypeOK
<1>4. billable' \subseteq Arms
  BY DEF SettleBattle, TypeOK, ArmsOf, Arms
<1>5. counted' \in [Backends -> [used : Int, reserved : Int]]
  <2>1. \A k \in Backends : /\ Charged(cost', b, <<"account", k>>) \in Nat
                            /\ Share(b, <<"account", k>>) \in Nat
    BY <1>2, AccountBudgets, ShareNat
  <2>2. \A k \in Backends : counted[k] \in [used : Int, reserved : Int]
    BY DEF TypeOK
  <2>3. \A k \in Backends :
          [used |-> counted[k].used + Charged(cost', b, <<"account", k>>),
           reserved |-> counted[k].reserved - Share(b, <<"account", k>>)]
             \in [used : Int, reserved : Int]
    <3> TAKE k \in Backends
    <3>1. counted[k].used \in Int /\ counted[k].reserved \in Int
      BY <2>2
    <3>2. /\ counted[k].used + Charged(cost', b, <<"account", k>>) \in Int
          /\ counted[k].reserved - Share(b, <<"account", k>>) \in Int
      BY <2>1, <3>1
    <3> QED BY <3>2
  <2>4. counted' = [k \in Backends |->
                     IF Counts(b, k)
                     THEN [used |-> counted[k].used + Charged(cost', b, <<"account", k>>),
                           reserved |-> counted[k].reserved - Share(b, <<"account", k>>)]
                     ELSE counted[k]]
    BY DEF SettleBattle
  <2> QED BY <2>2, <2>3, <2>4
<1>6. season' \in [Seasons -> {"draft", "active", "cost_halted"}]
  BY DEF SettleBattle, TypeOK
<1>7. txn' \in [Battles -> [Backends -> Nat]]
  BY DEF SettleBattle, Commit, NoTxn, TypeOK
<1>8. UNCHANGED <<root, closed, sent, checks, difference, governed, auth, expired>>
  BY DEF SettleBattle
<1> QED BY <1>2, <1>3, <1>4, <1>5, <1>6, <1>7, <1>8 DEF TypeOK

\* The worker's and the administrator's settlement are one database function.
LEMMA SettleEither ==
  ASSUME NEW b \in Battles, settle(b) \/ settle_uncertain(b)
  PROVE  \E report \in [{"left", "right"} -> Reported], unpriced \in SUBSET (ArmsOf(b) \cap sent) :
            SettleBattle(b, report, unpriced)
<1>1. CASE settle(b)
  BY <1>1 DEF settle
<1>2. CASE settle_uncertain(b)
  BY <1>2 DEF settle_uncertain
<1> QED BY <1>1, <1>2

\* A correction never charges a negative amount.
LEMMA DeltaNat ==
  ASSUME NEW new \in Int, NEW old \in Int
  PROVE  GovernedDelta(new, old) \in Nat
BY DEF GovernedDelta

\* What flavourbench_register_bedrock_billing_adjustment does to the counters.
LEMMA BillingCounters ==
  ASSUME TypeOK, NEW a \in Arms, NEW billed \in Billed, register_billing(a, billed)
  PROVE  /\ used' \in [Budgets -> Nat]
         /\ reserved' = reserved
         /\ \A g \in Budgets :
              /\ used'[g] >= used[g]
              /\ g \notin Governing(a) \/ g[1] = "run" => used'[g] = used[g]
         /\ GovernedDelta(billed - cost[a], difference[a]) \in Nat
         /\ billed - cost[a] \in Int
<1> DEFINE diff == billed - cost[a]
           delta == GovernedDelta(diff, difference[a])
<1>1. diff \in Int /\ difference[a] \in Int
  BY LedgerAssumption DEF TypeOK
<1>2. delta \in Nat
  BY <1>1, DeltaNat
<1>3. used \in [Budgets -> Nat]
  BY DEF TypeOK
<1>4. /\ reserved' = reserved
      /\ used' = [g \in Budgets |->
                    IF g \in Governing(a) /\ g[1] # "run" THEN used[g] + delta ELSE used[g]]
  BY DEF register_billing
<1> HIDE DEF delta
<1>5. used' \in [Budgets -> Nat]
  BY <1>2, <1>3, <1>4
<1>6. \A g \in Budgets : /\ used'[g] >= used[g]
                         /\ g \notin Governing(a) \/ g[1] = "run" => used'[g] = used[g]
  BY <1>2, <1>3, <1>4
<1> QED BY <1>1, <1>2, <1>4, <1>5, <1>6 DEF delta

\* An invoice keeps every row well typed.
LEMMA BillingType ==
  ASSUME TypeOK, NEW a \in Arms, NEW billed \in Billed, register_billing(a, billed)
  PROVE  TypeOK'
<1> DEFINE diff == billed - cost[a]
           delta == GovernedDelta(diff, difference[a])
<1>1. used' \in [Budgets -> Nat] /\ reserved' = reserved /\ delta \in Nat /\ diff \in Int
  BY BillingCounters
<1>2. a[1] \in Battles /\ BackendOf[a] \in Backends /\ SeasonOf[a[1]] \in Seasons
  BY LedgerAssumption DEF Arms
<1>3. /\ checks' = [checks EXCEPT ![a] = @ + 1]
      /\ difference' = [difference EXCEPT ![a] = diff]
      /\ governed' = [governed EXCEPT ![a] = @ + delta]
      /\ \/ counted' = [counted EXCEPT ![BackendOf[a]].used = @ + delta]
         \/ counted' = counted
      /\ \/ season' = [season EXCEPT ![SeasonOf[a[1]]] = "cost_halted"]
         \/ season' = season
      /\ txn' = [txn EXCEPT ![a[1]] = NoTxn]
      /\ UNCHANGED <<root, closed, reserved, battle, sent, cost, billable, auth, expired>>
  BY DEF register_billing, Commit
<1> HIDE DEF delta, diff
<1>4. checks' \in [Arms -> Nat] /\ difference' \in [Arms -> Int] /\ governed' \in [Arms -> Nat]
  BY <1>1, <1>3 DEF TypeOK
<1>5. counted' \in [Backends -> [used : Int, reserved : Int]]
  <2>1. counted \in [Backends -> [used : Int, reserved : Int]]
    BY DEF TypeOK
  <2>2. counted[BackendOf[a]].used + delta \in Int
    BY <1>1, <1>2, <2>1
  <2>3. [counted[BackendOf[a]] EXCEPT !.used = @ + delta] \in [used : Int, reserved : Int]
    BY <1>2, <2>1, <2>2
  <2>4. CASE counted' = [counted EXCEPT ![BackendOf[a]].used = @ + delta]
    BY <1>2, <2>1, <2>3, <2>4
  <2> QED BY <1>3, <2>1, <2>4
<1>6. season' \in [Seasons -> {"draft", "active", "cost_halted"}]
  BY <1>2, <1>3 DEF TypeOK
<1>7. txn' \in [Battles -> [Backends -> Nat]]
  BY <1>2, <1>3 DEF TypeOK, NoTxn
<1> QED BY <1>1, <1>3, <1>4, <1>5, <1>6, <1>7 DEF TypeOK

\* So does an admission.
LEMMA ReserveType ==
  ASSUME TypeOK, NEW b \in Battles, reserve(b)
  PROVE  TypeOK'
<1>1. reserved' \in [Budgets -> Nat]
  <2>1. \A g \in Budgets : reserved[g] \in Nat /\ Share(b, g) \in Nat
    BY ShareNat DEF TypeOK
  <2>2. reserved' = [g \in Budgets |-> reserved[g] + Share(b, g)]
    BY DEF reserve
  <2> QED BY <2>1, <2>2
<1>2. counted' \in [Backends -> [used : Int, reserved : Int]]
  <2>1. \A k \in Backends : Share(b, <<"account", k>>) \in Nat
    BY AccountBudgets, ShareNat
  <2>2. \A k \in Backends : counted[k] \in [used : Int, reserved : Int]
    BY DEF TypeOK
  <2>3. \A k \in Backends :
          [counted[k] EXCEPT !.reserved = @ + Share(b, <<"account", k>>)]
             \in [used : Int, reserved : Int]
    BY <2>1, <2>2
  <2>4. counted' = [k \in Backends |->
                      IF Counts(b, k)
                      THEN [counted[k] EXCEPT !.reserved = @ + Share(b, <<"account", k>>)]
                      ELSE counted[k]]
    BY DEF reserve
  <2> QED BY <2>2, <2>3, <2>4
<1>3. battle' \in [Battles -> {"none", "reserved", "uncertain", "settled"}]
  BY DEF reserve, TypeOK
<1>4. txn' \in [Battles -> [Backends -> Nat]]
  BY DEF reserve, Commit, NoTxn, TypeOK
<1>5. UNCHANGED <<season, root, closed, used, sent, cost, billable, checks, difference,
                  governed, auth, expired>>
  BY DEF reserve, billing
<1> QED BY <1>1, <1>2, <1>3, <1>4, <1>5 DEF TypeOK

\* The authorization endpoints change the head and what is dated after it.
LEMMA RotateType ==
  ASSUME TypeOK, NEW k \in Backends, NEW u \in 0 .. Cap[<<"account", k>>],
         NEW r \in 0 .. Cap[<<"account", k>>], rotate(k, u, r)
  PROVE  TypeOK'
<1>1. u \in Nat /\ r \in Nat
  BY AccountBudgets
<1>2. auth[k].epoch \in Nat
  BY DEF TypeOK
<1>3. auth' \in [Backends -> [active : BOOLEAN, lapsed : BOOLEAN, epoch : Nat,
                              used : Nat, reserved : Nat]]
  BY <1>1, <1>2 DEF rotate, TypeOK, Checkpoint
<1>4. counted' \in [Backends -> [used : Int, reserved : Int]]
  BY DEF rotate, TypeOK
<1> QED BY <1>3, <1>4 DEF rotate, TypeOK, counters, billing

\* The end of a validity touches the authorizations and nothing else.
LEMMA ExpireType ==
  ASSUME TypeOK, Expire
  PROVE  TypeOK'
<1>1. UNCHANGED <<season, root, closed, counters, battle, sent, cost, billable, billing,
                  counted, txn>>
  BY DEF Expire
<1>2. auth' \in [Backends -> [active : BOOLEAN, lapsed : BOOLEAN, epoch : Nat,
                              used : Nat, reserved : Nat]]
      /\ expired' \subseteq Budgets
  <2>1. CASE \E k \in Backends : lapse(k)
    <3>1. PICK k \in Backends : lapse(k)
      BY <2>1
    <3>2. PICK x \in BOOLEAN : auth' = [auth EXCEPT ![k].lapsed = x]
      BY <3>1, Zenon DEF lapse
    <3>3. expired' \subseteq Budgets
      <4>1. \A e : Rooted(k, e) \subseteq Budgets
        BY DEF Rooted, Budgets
      <4>2. <<"account", k>> \in Budgets
        BY AccountBudgets
      <4> QED BY <3>1, <4>1, <4>2, Zenon DEF lapse, TypeOK
    <3> QED BY <3>2, <3>3 DEF TypeOK
  <2>2. CASE \E s \in Seasons, k \in Backends : provider_lapse(s, k)
    BY <2>2, LedgerAssumption DEF provider_lapse, TypeOK
  <2> QED BY <2>1, <2>2 DEF Expire
<1> QED BY <1>1, <1>2 DEF TypeOK, counters, billing

\* Every step keeps the rows well typed.
LEMMA TypeNext == TypeOK /\ [Next]_vars => TypeOK'
<1> SUFFICES ASSUME TypeOK, [Next]_vars PROVE TypeOK'
  OBVIOUS
<1>1. ASSUME NEW b \in Battles, begin_transaction(b) PROVE TypeOK'
  BY <1>1 DEF begin_transaction, TypeOK, counters, billing
<1>2. ASSUME NEW b \in Battles, roll_back(b) PROVE TypeOK'
  BY <1>2 DEF roll_back, NoTxn, TypeOK, counters, billing
<1>3. ASSUME NEW b \in Battles, leave_uncertain(b) PROVE TypeOK'
  BY <1>3 DEF leave_uncertain, TypeOK, counters, billing
<1>4. ASSUME NEW b \in Battles, settle(b) \/ settle_uncertain(b) PROVE TypeOK'
  BY <1>4, SettleEither, SettleType
<1>5. ASSUME NEW a \in Arms, dispatch(a) PROVE TypeOK'
  BY <1>5 DEF dispatch, TypeOK, counters, billing
<1>6. ASSUME NEW k \in Backends, revoke(k) PROVE TypeOK'
  BY <1>6, ZenonT(60) DEF revoke, TypeOK, counters, billing
<1>7. ASSUME NEW r \in Runs, close_run(r) PROVE TypeOK'
  BY <1>7 DEF close_run, TypeOK, counters, billing
<1>8. CASE UNCHANGED vars
  BY <1>8 DEF vars, TypeOK, counters, billing
<1>9. ASSUME NEW s \in Seasons, freeze(s) PROVE TypeOK'
  BY <1>9 DEF freeze, TypeOK, counters, billing
<1>10. CASE BattleStep
  BY <1>10, <1>1, <1>2, <1>3, <1>4, ReserveType DEF BattleStep
<1>11. CASE ArmStep
  BY <1>11, <1>5, BillingType DEF ArmStep
<1>12. CASE AccountStep
  BY <1>12, <1>6, RotateType DEF AccountStep
<1> QED BY <1>7, <1>8, <1>9, <1>10, <1>11, <1>12, ExpireType DEF Next

\* No counter of any budget ever goes below zero and no row leaves its type
\* (_require_nonnegative_budget and the check constraints of models.py).
THEOREM TypeCorrect == Spec => []TypeOK
BY TypeInit, TypeNext, PTL DEF Spec

-----------------------------------------------------------------------------
(* No budget is overcommitted behind the governor's back. *)

\* Steps that leave the counters and the seasons alone keep the property.
LEMMA CapUnchanged ==
  ASSUME OverCapIsHalted, used' = used, reserved' = reserved, season' = season
  PROVE  OverCapIsHalted'
BY DEF OverCapIsHalted, Over

\* A freeze halts no season and starts no halted one again.
LEMMA CapFreeze ==
  ASSUME TypeOK, OverCapIsHalted, NEW s \in Seasons, freeze(s)
  PROVE  OverCapIsHalted'
<1>1. used' = used /\ reserved' = reserved
  BY DEF freeze, counters
<1>2. \A x \in Seasons : season[x] = "cost_halted" => season'[x] = "cost_halted"
  BY DEF freeze, TypeOK
<1> QED BY <1>1, <1>2 DEF OverCapIsHalted, Over, DrawsOn, HaltScope

\* The accounts are opened at most at their cap.
LEMMA CapInit == Init => OverCapIsHalted
<1> SUFFICES ASSUME Init, NEW g \in Budgets PROVE ~Over(g)
  BY DEF OverCapIsHalted
<1>1. Cap[g] \in Nat
  BY LedgerAssumption
<1>2. CASE g[1] = "account"
  <2>1. PICK k \in Backends : g = <<"account", k>>
    BY <1>2 DEF Budgets
  <2>2. Opening[k] \in Nat /\ Opening[k] <= Cap[g]
    BY <2>1, LedgerAssumption
  <2>3. used[g] = Opening[k] /\ reserved[g] = 0
    BY <1>2, <2>1 DEF Init
  <2> QED BY <1>1, <2>2, <2>3 DEF Over
<1>3. CASE g[1] # "account"
  BY <1>1, <1>3 DEF Init, Over
<1> QED BY <1>2, <1>3

\* The admission rule keeps 15% of every budget it touches free.
LEMMA CapReserve ==
  ASSUME TypeOK, OverCapIsHalted, NEW b \in Battles, reserve(b)
  PROVE  OverCapIsHalted'
<1> SUFFICES ASSUME NEW g \in Budgets, Over(g)'
             PROVE  \E s \in Seasons : DrawsOn(s, g) /\ season'[s] = "cost_halted"
  BY DEF OverCapIsHalted, DrawsOn, HaltScope
<1>1. used[g] \in Nat /\ reserved[g] \in Nat /\ Cap[g] \in Nat /\ Share(b, g) \in Nat
  BY ShareNat, LedgerAssumption DEF TypeOK
<1>2. reserved'[g] = reserved[g] + Share(b, g) /\ used' = used /\ season' = season
  BY DEF reserve
<1>3. CASE g \in GovernedBy(b)
  <2>1. (used[g] + reserved[g] + Share(b, g)) * 10000 < Cap[g] * 8500
    BY <1>3 DEF reserve, AuthorityAdmits, AdmissionOpen
  <2>2. ~Over(g)'
    BY <1>1, <1>2, <2>1 DEF Over
  <2> QED BY <2>2
<1>4. CASE g \notin GovernedBy(b)
  <2>1. Over(g)
    BY <1>1, <1>2, <1>4, ShareNat, ChargedElsewhere DEF Over
  <2> QED BY <1>2, <2>1 DEF OverCapIsHalted
<1> QED BY <1>3, <1>4

\* A settlement that ends above a cap either cost more than it had reserved or
\* touches a budget of HaltScope; otherwise it does not raise the exposure.
LEMMA CapSettle ==
  ASSUME TypeOK, OverCapIsHalted, NEW b \in Battles,
         NEW report \in [{"left", "right"} -> Reported], NEW unpriced,
         SettleBattle(b, report, unpriced)
  PROVE  OverCapIsHalted'
<1> SUFFICES ASSUME NEW g \in Budgets, Over(g)'
             PROVE  \E s \in Seasons : DrawsOn(s, g) /\ season'[s] = "cost_halted"
  BY DEF OverCapIsHalted, DrawsOn, HaltScope
<1>1. SeasonOf[b] \in Seasons /\ Cap[g] \in Nat
  BY LedgerAssumption
<1>2. used[g] \in Nat /\ reserved[g] \in Nat /\ Share(b, g) \in Nat
  BY ShareNat DEF TypeOK
<1>3. /\ Charged(cost', b, g) \in Nat
      /\ used'[g] = used[g] + Charged(cost', b, g)
      /\ reserved'[g] = reserved[g] - Share(b, g)
  <2>1. report \in [{"left", "right"} -> Int]
    BY LedgerAssumption
  <2> QED BY <2>1, SettleCounters
<1>4. SettlementHalts(b) => season'[SeasonOf[b]] = "cost_halted"
  BY <1>1 DEF SettleBattle, TypeOK
<1>5. \A s \in Seasons : season[s] = "cost_halted" => season'[s] = "cost_halted"
  BY <1>1 DEF SettleBattle, TypeOK
<1>6. CASE g \in HaltScope(SeasonOf[b])
  BY <1>1, <1>4, <1>6 DEF SettlementHalts, DrawsOn
<1>7. CASE g \in GovernedBy(b) /\ Charged(cost', b, g) > Share(b, g)
  BY <1>1, <1>4, <1>7, GovernedByDraws DEF SettlementHalts
<1>8. CASE g \notin GovernedBy(b) \/ ~(Charged(cost', b, g) > Share(b, g))
  <2>1. Charged(cost', b, g) <= Share(b, g)
    BY <1>2, <1>3, <1>8, ShareNat, ChargedElsewhere
  <2>2. Over(g)
    BY <1>1, <1>2, <1>3, <2>1 DEF Over
  <2> QED BY <1>5, <2>2 DEF OverCapIsHalted
<1> QED BY <1>6, <1>7, <1>8

\* An invoice raises only budgets whose caps it then looks at.
LEMMA CapBilling ==
  ASSUME TypeOK, OverCapIsHalted, NEW a \in Arms, NEW billed \in Billed,
         register_billing(a, billed)
  PROVE  OverCapIsHalted'
<1> SUFFICES ASSUME NEW g \in Budgets, Over(g)'
             PROVE  \E s \in Seasons : DrawsOn(s, g) /\ season'[s] = "cost_halted"
  BY DEF OverCapIsHalted, DrawsOn, HaltScope
<1>1. SeasonOf[a[1]] \in Seasons
  BY LedgerAssumption DEF Arms
<1>2. reserved' = reserved
  BY BillingCounters
<1>3. season' = IF BillingHalts(a, billed - cost[a])
                THEN [season EXCEPT ![SeasonOf[a[1]]] = "cost_halted"]
                ELSE season
  BY DEF register_billing
<1>4. CASE g \in Governing(a) /\ g[1] # "run"
  <2>1. BillingHalts(a, billed - cost[a])
    BY <1>4 DEF BillingHalts
  <2>2. season'[SeasonOf[a[1]]] = "cost_halted"
    BY <1>1, <1>3, <2>1 DEF TypeOK
  <2> QED BY <1>1, <1>4, <2>2, GoverningDraws
<1>5. CASE g \notin Governing(a) \/ g[1] = "run"
  <2>1. used'[g] = used[g]
    BY <1>5, BillingCounters
  <2>2. Over(g)
    BY <1>2, <2>1 DEF Over
  <2>3. \A s \in Seasons : season[s] = "cost_halted" => season'[s] = "cost_halted"
    BY <1>1, <1>3 DEF TypeOK
  <2> QED BY <2>2, <2>3 DEF OverCapIsHalted
<1> QED BY <1>4, <1>5

\* Every step keeps overcommitment halted.
LEMMA CapNext == TypeOK /\ OverCapIsHalted /\ [Next]_vars => OverCapIsHalted'
<1> SUFFICES ASSUME TypeOK, OverCapIsHalted, [Next]_vars PROVE OverCapIsHalted'
  OBVIOUS
<1>1. ASSUME NEW b \in Battles, settle(b) \/ settle_uncertain(b) PROVE OverCapIsHalted'
  BY <1>1, SettleEither, CapSettle
<1>2. ASSUME NEW b \in Battles, begin_transaction(b) \/ roll_back(b) \/ leave_uncertain(b)
      PROVE  OverCapIsHalted'
  BY <1>2, CapUnchanged DEF begin_transaction, roll_back, leave_uncertain, counters
<1>3. CASE BattleStep
  BY <1>1, <1>2, <1>3, CapReserve DEF BattleStep
<1>4. CASE ArmStep
  <2>1. ASSUME NEW a \in Arms, dispatch(a) PROVE OverCapIsHalted'
    BY <2>1, CapUnchanged DEF dispatch, counters
  <2> QED BY <1>4, <2>1, CapBilling DEF ArmStep
<1>5. CASE AccountStep
  BY <1>5, CapUnchanged DEF AccountStep, revoke, rotate, counters
<1>6. CASE Expire
  BY <1>6, CapUnchanged DEF Expire, counters
<1>7. CASE \E r \in Runs : close_run(r)
  BY <1>7, CapUnchanged DEF close_run, counters
<1>8. CASE UNCHANGED vars
  BY <1>8, CapUnchanged DEF vars
<1> QED BY <1>3, <1>4, <1>5, <1>6, <1>7, <1>8, CapFreeze DEF Next

\* Whatever seasons share an account and whatever their battles and invoices
\* cost, a budget above its cap has a halted season drawing on it: the halting
\* rules of settlement and billing miss no way past a cap.
THEOREM CapGoverned == Spec => []OverCapIsHalted
<1>1. Init => TypeOK /\ OverCapIsHalted
  BY TypeInit, CapInit
<1>2. TypeOK /\ OverCapIsHalted /\ [Next]_vars => (TypeOK /\ OverCapIsHalted)'
  BY TypeNext, CapNext
<1> QED BY <1>1, <1>2, PTL DEF Spec

-----------------------------------------------------------------------------
(* Governed spend only grows. *)

\* No step lowers a budget's used amount.
LEMMA SpendNext ==
  TypeOK /\ [Next]_vars => [\A g \in Budgets : used'[g] >= used[g]]_vars
<1> SUFFICES ASSUME TypeOK, [Next]_vars, NEW g \in Budgets
             PROVE  used'[g] >= used[g]
  OBVIOUS
<1>1. used[g] \in Nat
  BY DEF TypeOK
<1>2. CASE used' = used
  BY <1>1, <1>2
<1>3. ASSUME NEW b \in Battles, settle(b) \/ settle_uncertain(b)
      PROVE  used'[g] >= used[g]
  <2>1. PICK report \in [{"left", "right"} -> Reported],
             unpriced \in SUBSET (ArmsOf(b) \cap sent) :
               SettleBattle(b, report, unpriced)
    BY <1>3, SettleEither
  <2>2. report \in [{"left", "right"} -> Int]
    BY LedgerAssumption
  <2>3. Charged(cost', b, g) \in Nat /\ used'[g] = used[g] + Charged(cost', b, g)
    BY <2>1, <2>2, SettleCounters
  <2> QED BY <1>1, <2>3
<1>4. CASE BattleStep
  BY <1>2, <1>3, <1>4
  DEF BattleStep, begin_transaction, roll_back, reserve, leave_uncertain, counters
<1>5. CASE ArmStep
  BY <1>2, <1>5, BillingCounters DEF ArmStep, dispatch, counters
<1>6. CASE AccountStep
  BY <1>2, <1>6 DEF AccountStep, revoke, rotate, counters
<1>7. CASE Expire
  BY <1>2, <1>7 DEF Expire, counters
<1>8. CASE \E r \in Runs : close_run(r)
  BY <1>2, <1>8 DEF close_run, counters
<1>9. CASE UNCHANGED vars
  BY <1>2, <1>9 DEF vars
<1>10. CASE \E s \in Seasons : freeze(s)
  BY <1>2, <1>10 DEF freeze, counters
<1> QED BY <1>4, <1>5, <1>6, <1>7, <1>8, <1>9, <1>10 DEF Next

\* No chain of settlements, cross-checks, corrections and rotations gives spend
\* authority back to any budget (main.py, the billing endpoint; 0016).
THEOREM SpendGrows == Spec => SpendAuthorityNotRestored
BY TypeCorrect, SpendNext, PTL DEF Spec, SpendAuthorityNotRestored

-----------------------------------------------------------------------------
(***************************************************************************)
(* The books.                                                              *)
(***************************************************************************)
OpeningOf(g) == IF g[1] = "account" THEN Opening[g[2]] ELSE 0

\* A counter is what the battles of all seasons hold or have spent on it,
\* over what the account was opened with.
Books ==
  \A g \in Budgets : /\ reserved[g] = BattlesReserved(g)
                     /\ used[g] = OpeningOf(g) + BattlesUsed(g)

\* A battle has neither costs nor invoices before it is settled: that is why a
\* settlement adds exactly the costs it records.
Untouched ==
  \A a \in Arms : battle[a[1]] # "settled" =>
    /\ cost[a] = 0 /\ governed[a] = 0 /\ difference[a] = 0
    /\ a \notin billable

\* What an arm was charged in corrections covers its active cross-check.
Covering == \A a \in Arms : governed[a] >= difference[a]

\* An account is the checkpoint of its head plus what is dated after it.
Audited ==
  \A k \in Backends :
    /\ reserved[<<"account", k>>] = auth[k].reserved + counted[k].reserved
    /\ used[<<"account", k>>] = auth[k].used + counted[k].used

\* A ledger row that is past its expiry took with it the first epoch and every
\* provider budget authorized under that epoch.
Validity ==
  /\ \A g \in expired : g[1] \in {"account", "provider"}
  /\ \A k \in Backends :
       /\ auth[k].epoch > 0
       /\ <<"account", k>> \in expired =>
            /\ auth[k].epoch = 1 => auth[k].lapsed
            /\ \A s \in Seasons : root[s][k] = 1 => <<"provider", s, k>> \in expired

BookInv == TypeOK /\ Books /\ Untouched /\ Covering /\ Audited /\ Validity

-----------------------------------------------------------------------------
(* Sums over battles. *)

\* The arms of a battle are arms.
LEMMA ArmPair ==
  ASSUME NEW b \in Battles
  PROVE  /\ <<b, "left">> \in Arms /\ <<b, "right">> \in Arms
         /\ <<b, "left">>[1] = b /\ <<b, "right">>[1] = b
BY DEF Arms

\* Amounts that agree on the arms of a battle charge it alike, and larger
\* amounts charge it more.
LEMMA ChargedMonotone ==
  ASSUME NEW f \in [Arms -> Int], NEW h \in [Arms -> Int], NEW b \in Battles, NEW g
  PROVE  /\ Charged(f, b, g) \in Int
         /\ (\A a \in Arms : a[1] = b => f[a] <= h[a]) => Charged(f, b, g) <= Charged(h, b, g)
         /\ (\A a \in Arms : a[1] = b => f[a] = h[a]) => Charged(f, b, g) = Charged(h, b, g)
         /\ (\A a \in Arms : a[1] = b => f[a] = 0) => Charged(f, b, g) = 0
<1>1. <<b, "left">> \in Arms /\ <<b, "right">> \in Arms
  BY ArmPair
<1>2. <<b, "left">>[1] = b /\ <<b, "right">>[1] = b
  OBVIOUS
<1>3. f[<<b, "left">>] \in Int /\ f[<<b, "right">>] \in Int
  BY <1>1
<1>4. h[<<b, "left">>] \in Int /\ h[<<b, "right">>] \in Int
  BY <1>1
<1>5. \A p, q, r, s \in Int : p <= r /\ q <= s => p + q <= r + s
  OBVIOUS
<1> QED BY <1>1, <1>2, <1>3, <1>4, <1>5 DEF Charged, Charge

\* Raising the amount of one arm raises what its battle is charged, in the
\* budgets that govern the arm.
LEMMA ChargedRaised ==
  ASSUME NEW f \in [Arms -> Int], NEW a \in Arms, NEW d \in Int, NEW g,
         NEW h, h[a] = f[a] + d, \A x \in Arms \ {a} : h[x] = f[x]
  PROVE  Charged(h, a[1], g) =
           Charged(f, a[1], g) + (IF g \in Governing(a) THEN d ELSE 0)
<1> DEFINE l == <<a[1], "left">>
           r == <<a[1], "right">>
<1>1. l \in Arms /\ r \in Arms /\ l # r /\ (a = l \/ a = r)
  BY DEF Arms
<1>2. f[l] \in Int /\ f[r] \in Int
  BY <1>1
<1>3. /\ h[l] = IF a = l THEN f[l] + d ELSE f[l]
      /\ h[r] = IF a = r THEN f[r] + d ELSE f[r]
  BY <1>1
<1>4. /\ Charged(h, a[1], g) = Charge(h, l, g) + Charge(h, r, g)
      /\ Charged(f, a[1], g) = Charge(f, l, g) + Charge(f, r, g)
  BY DEF Charged
<1> HIDE DEF l, r
<1>5. CASE a = l
  BY <1>1, <1>2, <1>3, <1>4, <1>5 DEF Charge
<1>6. CASE a = r
  BY <1>1, <1>2, <1>3, <1>4, <1>6 DEF Charge
<1> QED BY <1>1, <1>5, <1>6

\* Changing one term of a sum changes the sum by the difference.
LEMMA SumChanged ==
  ASSUME NEW S, IsFiniteSet(S), NEW e \in S, NEW g, NEW h,
         \A x \in S : g[x] \in Int /\ h[x] \in Int,
         \A x \in S \ {e} : h[x] = g[x]
  PROVE  SumFunctionOnSet(h, S) = SumFunctionOnSet(g, S) - g[e] + h[e]
<1>1. IsFiniteSet(S \ {e})
  BY FS_Subset
<1>2. SumFunctionOnSet(g, S \ {e}) = SumFunctionOnSet(h, S \ {e})
  BY <1>1, SumSame
<1>3. /\ SumFunctionOnSet(g, S) = g[e] + SumFunctionOnSet(g, S \ {e})
      /\ SumFunctionOnSet(h, S) = h[e] + SumFunctionOnSet(h, S \ {e})
  BY SumRemove
<1>4. SumFunctionOnSet(g, S \ {e}) \in Int
  BY <1>1, SumType
<1>5. \A m, n, x, y, z \in Int : x = m + z /\ y = n + z => y = x - m + n
  OBVIOUS
<1>6. SumFunctionOnSet(g, S) \in Int /\ SumFunctionOnSet(h, S) \in Int
  BY SumType
<1> QED BY <1>2, <1>3, <1>4, <1>5, <1>6

-----------------------------------------------------------------------------
(* What the battles say, before and after a step. *)

\* What one battle spends on a budget: its costs c and governed deltas d.
Spent(c, d, b, g) == Charged(c, b, g) + IF g[1] = "run" THEN 0 ELSE Charged(d, b, g)

\* It is an integer, and so is the sum over the battles.
LEMMA SpentInt ==
  ASSUME NEW c \in [Arms -> Nat], NEW d \in [Arms -> Nat], NEW g
  PROVE  /\ \A b \in Battles : Spent(c, d, b, g) \in Int
         /\ SumFunctionOnSet([b \in Battles |-> Spent(c, d, b, g)], Battles) \in Int
<1>1. \A b \in Battles : Spent(c, d, b, g) \in Int
  <2>1. c \in [Arms -> Int] /\ d \in [Arms -> Int]
    OBVIOUS
  <2>2. \A b \in Battles : Charged(c, b, g) \in Int /\ Charged(d, b, g) \in Int
    BY <2>1, ChargedMonotone
  <2> QED BY <2>2 DEF Spent
<1>2. IsFiniteSet(Battles)
  BY LedgerAssumption
<1> QED BY <1>1, <1>2, SumType

\* The audit's sums are integers.
LEMMA BooksTyped ==
  ASSUME TypeOK, NEW g \in Budgets
  PROVE  /\ OpeningOf(g) \in Nat /\ OpeningOf(g) \in Int
         /\ BattlesReserved(g) \in Int /\ BattlesUsed(g) \in Int
<1>1. OpeningOf(g) \in Nat
  <2>1. CASE g[1] = "account"
    <3>1. g[2] \in Backends
      BY <2>1 DEF Budgets
    <3> QED BY <2>1, <3>1, LedgerAssumption DEF OpeningOf
  <2> QED BY <2>1 DEF OpeningOf
<1>3. BattlesUsed(g) =
        SumFunctionOnSet([b \in Battles |-> Spent(cost, governed, b, g)], Battles)
  BY DEF BattlesUsed, Spent
<1>4. IsFiniteSet(Battles)
  BY LedgerAssumption
<1>5. SumFunctionOnSet([b \in Battles |-> Spent(cost, governed, b, g)], Battles) \in Int
  BY SpentInt, ZenonT(60) DEF TypeOK
<1>6. BattlesReserved(g) \in Int
  <2> DEFINE S == {b \in Battles : Outstanding(b)}
             f == [b \in Battles |-> Share(b, g)]
  <2>1. IsFiniteSet(S)
    BY <1>4, FS_Subset
  <2>2. \A b \in S : f[b] \in Int
    BY ShareNat
  <2> HIDE DEF S, f
  <2>3. SumFunctionOnSet(f, S) \in Int
    BY <2>1, <2>2, SumType
  <2> QED BY <2>3 DEF BattlesReserved, S, f
<1> QED BY <1>1, <1>3, <1>5, <1>6

\* A step that makes b outstanding adds b's share to every reservation; one that
\* ends b's reservation takes it away; any other leaves the sums alone.
LEMMA ReservedFollows ==
  ASSUME NEW b \in Battles, NEW g \in Budgets,
         \A x \in Battles \ {b} : Outstanding(x)' <=> Outstanding(x)
  PROVE  BattlesReserved(g)' = BattlesReserved(g)
           + (IF Outstanding(b)' /\ ~Outstanding(b) THEN Share(b, g) ELSE 0)
           - (IF Outstanding(b) /\ ~Outstanding(b)' THEN Share(b, g) ELSE 0)
<1> DEFINE f == [x \in Battles |-> Share(x, g)]
           S == {x \in Battles : Outstanding(x)}
           T == {x \in Battles : Outstanding(x)'}
<1>1. BattlesReserved(g) = SumFunctionOnSet(f, S) /\ BattlesReserved(g)' = SumFunctionOnSet(f, T)
  BY DEF BattlesReserved, Outstanding, Share, Contract, Charged, Charge, Governing
<1>2. IsFiniteSet(S) /\ IsFiniteSet(T) /\ S \subseteq Battles /\ T \subseteq Battles
  BY LedgerAssumption, FS_Subset
<1>3. \A x \in Battles : f[x] \in Nat
  BY ShareNat
<1>4. f[b] = Share(b, g)
  OBVIOUS
<1>5. /\ b \in S <=> Outstanding(b)
      /\ b \in T <=> Outstanding(b)'
  OBVIOUS
<1>6. S \ {b} = T \ {b}
  OBVIOUS
<1> HIDE DEF f, S, T
<1>7. SumFunctionOnSet(f, S) \in Int /\ SumFunctionOnSet(f, T) \in Int
  BY <1>2, <1>3, SumType
<1>8. CASE (b \in S) <=> (b \in T)
  <2>1. S = T
    BY <1>6, <1>8
  <2> QED BY <1>1, <1>5, <1>7, <2>1
<1>9. CASE b \in T /\ b \notin S
  <2>1. T = S \cup {b}
    BY <1>6, <1>9
  <2>2. SumFunctionOnSet(f, T) = f[b] + SumFunctionOnSet(f, S)
    BY <1>2, <1>3, <1>9, <2>1, SumAdd
  <2> QED BY <1>1, <1>3, <1>4, <1>5, <1>7, <1>9, <2>2
<1>10. CASE b \in S /\ b \notin T
  <2>1. T = S \ {b}
    BY <1>6, <1>10
  <2>2. SumFunctionOnSet(f, S) = f[b] + SumFunctionOnSet(f, T)
    BY <1>2, <1>3, <1>10, <2>1, SumRemove
  <2> QED BY <1>1, <1>3, <1>4, <1>5, <1>7, <1>10, <2>2
<1> QED BY <1>8, <1>9, <1>10

\* A step that changes what one battle spent changes the sum by that much.
LEMMA UsedFollows ==
  ASSUME TypeOK, TypeOK', NEW b \in Battles, NEW g \in Budgets,
         \A x \in Battles \ {b} : Spent(cost', governed', x, g) = Spent(cost, governed, x, g)
  PROVE  BattlesUsed(g)' = BattlesUsed(g) - Spent(cost, governed, b, g)
                                          + Spent(cost', governed', b, g)
<1> DEFINE f == [x \in Battles |-> Spent(cost, governed, x, g)]
           h == [x \in Battles |-> Spent(cost', governed', x, g)]
<1>1. BattlesUsed(g) = SumFunctionOnSet(f, Battles)
  BY DEF BattlesUsed, Spent
<1>2. BattlesUsed(g)' = SumFunctionOnSet(h, Battles)
  BY DEF BattlesUsed, Spent, Charged, Charge, Governing
<1>3. IsFiniteSet(Battles)
  BY LedgerAssumption
<1>4. \A x \in Battles : /\ Spent(cost, governed, x, g) \in Int
                         /\ Spent(cost', governed', x, g) \in Int
  <2>1. cost \in [Arms -> Nat] /\ governed \in [Arms -> Nat]
    BY DEF TypeOK
  <2>2. cost' \in [Arms -> Nat] /\ governed' \in [Arms -> Nat]
    BY DEF TypeOK
  <2> QED BY <2>1, <2>2, SpentInt
<1>5. \A x \in Battles : f[x] \in Int /\ h[x] \in Int
  BY <1>4
<1>6. \A x \in Battles \ {b} : h[x] = f[x]
  OBVIOUS
<1>7. f[b] = Spent(cost, governed, b, g) /\ h[b] = Spent(cost', governed', b, g)
  OBVIOUS
<1> HIDE DEF f, h
<1>8. SumFunctionOnSet(h, Battles) = SumFunctionOnSet(f, Battles) - f[b] + h[b]
  BY <1>3, <1>5, <1>6, SumChanged
<1> QED BY <1>1, <1>2, <1>7, <1>8

-----------------------------------------------------------------------------
(* The books, step by step. *)

\* Steps that record no money and end no reservation keep the books.
LEMMA BooksUnchanged ==
  ASSUME Books, used' = used, reserved' = reserved, cost' = cost, governed' = governed,
         \A b \in Battles : Outstanding(b)' <=> Outstanding(b)
  PROVE  Books'
<1> SUFFICES ASSUME NEW g \in Budgets
             PROVE  BattlesReserved(g)' = BattlesReserved(g) /\ BattlesUsed(g)' = BattlesUsed(g)
  BY DEF Books, OpeningOf
<1>1. {b \in Battles : Outstanding(b)'} = {b \in Battles : Outstanding(b)}
  OBVIOUS
<1>2. BattlesReserved(g)' =
        SumFunctionOnSet([b \in Battles |-> Share(b, g)], {b \in Battles : Outstanding(b)'})
  BY DEF BattlesReserved, Outstanding, Share, Contract, Charged, Charge, Governing
<1>3. BattlesReserved(g)' = BattlesReserved(g)
  BY <1>1, <1>2 DEF BattlesReserved
<1>4. BattlesUsed(g)' = BattlesUsed(g)
  BY DEF BattlesUsed, Charged, Charge, Governing
<1> QED BY <1>3, <1>4

\* An admission writes the battle's contract into every budget.
LEMMA BooksReserve ==
  ASSUME TypeOK, Books, NEW b \in Battles, reserve(b)
  PROVE  Books'
<1> SUFFICES ASSUME NEW g \in Budgets
             PROVE  /\ reserved'[g] = BattlesReserved(g)'
                    /\ used'[g] = OpeningOf(g) + BattlesUsed(g)'
  BY DEF Books, OpeningOf
<1>1. /\ reserved'[g] = reserved[g] + Share(b, g) /\ used' = used
      /\ battle[b] = "none" /\ battle' = [battle EXCEPT ![b] = "reserved"]
      /\ cost' = cost /\ governed' = governed
  BY DEF reserve, billing
<1>2. /\ Outstanding(b)' /\ ~Outstanding(b)
      /\ \A x \in Battles \ {b} : Outstanding(x)' <=> Outstanding(x)
  BY <1>1 DEF Outstanding, TypeOK
<1>3. BattlesReserved(g)' = BattlesReserved(g) + Share(b, g)
  BY <1>2, ReservedFollows, BooksTyped, ShareNat
<1>4. BattlesUsed(g)' = BattlesUsed(g)
  BY <1>1 DEF BattlesUsed, Charged, Charge, Governing
<1> QED BY <1>1, <1>3, <1>4 DEF Books

\* A settlement gives the contract back and records the costs of a battle that
\* had spent nothing before.
LEMMA BooksSettle ==
  ASSUME TypeOK, Books, Untouched, NEW b \in Battles, Outstanding(b),
         NEW report \in [{"left", "right"} -> Reported], NEW unpriced,
         SettleBattle(b, report, unpriced)
  PROVE  Books'
<1> SUFFICES ASSUME NEW g \in Budgets
             PROVE  /\ reserved'[g] = BattlesReserved(g)'
                    /\ used'[g] = OpeningOf(g) + BattlesUsed(g)'
  BY DEF Books, OpeningOf
<1>1. TypeOK'
  BY SettleType
<1>2. /\ cost' = Costs(b, report) /\ governed' = governed
      /\ battle' = [battle EXCEPT ![b] = "settled"]
      /\ reserved'[g] = reserved[g] - Share(b, g)
      /\ used'[g] = used[g] + Charged(cost', b, g)
  BY DEF SettleBattle
<1>3. /\ ~Outstanding(b)'
      /\ \A x \in Battles \ {b} : Outstanding(x)' <=> Outstanding(x)
  BY <1>2 DEF Outstanding, TypeOK
<1>4. BattlesReserved(g)' = BattlesReserved(g) - Share(b, g)
  <2>1. BattlesReserved(g)' = BattlesReserved(g) + 0 - Share(b, g)
    BY <1>3, ReservedFollows
  <2>2. BattlesReserved(g) \in Int /\ Share(b, g) \in Int
    BY BooksTyped, ShareNat
  <2> QED BY <2>1, <2>2
<1>5. /\ cost \in [Arms -> Int] /\ governed \in [Arms -> Int] /\ cost' \in [Arms -> Int]
      /\ cost \in [Arms -> Nat] /\ governed \in [Arms -> Nat] /\ cost' \in [Arms -> Nat]
  BY <1>1 DEF TypeOK
<1>6. Spent(cost, governed, b, g) = 0 /\ Spent(cost', governed', b, g) = Charged(cost', b, g)
  <2>1. \A a \in Arms : a[1] = b => cost[a] = 0 /\ governed[a] = 0
    BY DEF Untouched, Outstanding
  <2>2. Charged(cost, b, g) = 0 /\ Charged(governed, b, g) = 0
    BY <1>5, <2>1, ChargedMonotone
  <2>3. Charged(cost', b, g) \in Int
    BY <1>5, ChargedMonotone
  <2> QED BY <1>2, <2>2, <2>3 DEF Spent
<1>7. ASSUME NEW x \in Battles \ {b}
      PROVE  Spent(cost', governed', x, g) = Spent(cost, governed, x, g)
  <2>1. \A a \in Arms : a[1] = x => cost'[a] = cost[a]
    BY <1>2 DEF Costs
  <2>2. Charged(cost', x, g) = Charged(cost, x, g)
    BY <1>5, <2>1, ChargedMonotone
  <2> QED BY <1>2, <2>2 DEF Spent
<1>8. BattlesUsed(g)' = BattlesUsed(g) + Charged(cost', b, g)
  <2>1. BattlesUsed(g)' = BattlesUsed(g) - 0 + Charged(cost', b, g)
    BY <1>1, <1>6, <1>7, UsedFollows
  <2>2. BattlesUsed(g) \in Int
    BY BooksTyped
  <2> QED BY <2>1, <2>2
<1>9. /\ reserved[g] = BattlesReserved(g) /\ used[g] = OpeningOf(g) + BattlesUsed(g)
      /\ OpeningOf(g) \in Int /\ BattlesUsed(g) \in Int /\ Charged(cost', b, g) \in Int
  <2>1. Charged(cost', b, g) \in Int
    BY <1>5, ChargedMonotone
  <2>2. OpeningOf(g) \in Int /\ BattlesUsed(g) \in Int
    BY BooksTyped
  <2> QED BY <2>1, <2>2 DEF Books
<1> QED BY <1>2, <1>4, <1>8, <1>9

\* An invoice charges its increase to the budgets that govern the arm, except
\* to the controlled run.
LEMMA BooksBilling ==
  ASSUME TypeOK, Books, NEW a \in Arms, NEW billed \in Billed, register_billing(a, billed)
  PROVE  Books'
<1> DEFINE delta == GovernedDelta(billed - cost[a], difference[a])
           d(g) == IF g \in Governing(a) /\ g[1] # "run" THEN delta ELSE 0
           b == a[1]
<1> SUFFICES ASSUME NEW g \in Budgets
             PROVE  /\ reserved'[g] = BattlesReserved(g)'
                    /\ used'[g] = OpeningOf(g) + BattlesUsed(g)'
  BY DEF Books, OpeningOf
<1>1. TypeOK'
  BY BillingType
<1>2. /\ cost' = cost /\ battle' = battle /\ reserved' = reserved
      /\ governed' = [governed EXCEPT ![a] = @ + delta]
      /\ used' = [x \in Budgets |->
                    IF x \in Governing(a) /\ x[1] # "run" THEN used[x] + delta ELSE used[x]]
  BY DEF register_billing
<1>3. delta \in Nat /\ b \in Battles
  BY BillingCounters DEF Arms
<1> HIDE DEF delta
<1>4. used'[g] = used[g] + d(g)
  BY <1>2, <1>3 DEF TypeOK
<1>5. BattlesReserved(g)' = BattlesReserved(g)
  BY <1>2 DEF BattlesReserved, Outstanding, Share, Contract, Charged, Charge, Governing
<1>6. cost \in [Arms -> Int] /\ governed \in [Arms -> Int] /\ governed' \in [Arms -> Int]
  BY <1>1 DEF TypeOK
<1>7. Spent(cost', governed', b, g) = Spent(cost, governed, b, g) + d(g)
  <2>1. Charged(governed', b, g) =
          Charged(governed, b, g) + (IF g \in Governing(a) THEN delta ELSE 0)
    <3>1. delta \in Int /\ governed'[a] = governed[a] + delta
      BY <1>2, <1>3, <1>6
    <3>2. \A x \in Arms \ {a} : governed'[x] = governed[x]
      BY <1>2, <1>6
    <3> QED BY <1>6, <3>1, <3>2, ChargedRaised
  <2>2. Charged(governed, b, g) \in Int /\ Charged(cost, b, g) \in Int
    BY <1>3, <1>6, ChargedMonotone
  <2> QED BY <1>2, <1>3, <2>1, <2>2 DEF Spent
<1>8. ASSUME NEW x \in Battles \ {b}
      PROVE  Spent(cost', governed', x, g) = Spent(cost, governed, x, g)
  <2>1. \A y \in Arms : y[1] = x => governed'[y] = governed[y]
    BY <1>2, <1>6
  <2>2. Charged(governed', x, g) = Charged(governed, x, g)
    BY <1>6, <2>1, ChargedMonotone
  <2> QED BY <1>2, <2>2 DEF Spent
<1>9. BattlesUsed(g)' = BattlesUsed(g) - Spent(cost, governed, b, g)
                                       + Spent(cost', governed', b, g)
  BY <1>1, <1>3, <1>8, UsedFollows
<1>10. /\ BattlesUsed(g) \in Int /\ OpeningOf(g) \in Int /\ Spent(cost, governed, b, g) \in Int
       /\ d(g) \in Int
       /\ reserved[g] = BattlesReserved(g) /\ used[g] = OpeningOf(g) + BattlesUsed(g)
  <2>1. BattlesUsed(g) \in Int /\ OpeningOf(g) \in Int
    BY BooksTyped
  <2>2. Spent(cost, governed, b, g) \in Int
    <3>1. cost \in [Arms -> Nat] /\ governed \in [Arms -> Nat]
      BY DEF TypeOK
    <3> QED BY <1>3, <3>1, SpentInt
  <2> QED BY <1>3, <2>1, <2>2 DEF Books
<1> QED
  <2> HIDE DEF d
  <2> QED BY <1>2, <1>4, <1>5, <1>7, <1>9, <1>10

\* Every step keeps the books.
LEMMA BooksNext == TypeOK /\ Books /\ Untouched /\ [Next]_vars => Books'
<1> SUFFICES ASSUME TypeOK, Books, Untouched, [Next]_vars PROVE Books'
  OBVIOUS
<1>1. ASSUME used' = used, reserved' = reserved, cost' = cost, governed' = governed,
             battle' = battle
      PROVE  Books'
  BY <1>1, BooksUnchanged DEF Outstanding
<1>2. ASSUME NEW b \in Battles, leave_uncertain(b) PROVE Books'
  BY <1>2, BooksUnchanged DEF leave_uncertain, Outstanding, TypeOK, counters, billing
<1>3. ASSUME NEW b \in Battles, settle(b) \/ settle_uncertain(b) PROVE Books'
  <2>1. Outstanding(b)
    BY <1>3 DEF settle, settle_uncertain, Outstanding
  <2> QED BY <1>3, <2>1, SettleEither, BooksSettle
<1>4. ASSUME NEW b \in Battles, begin_transaction(b) \/ roll_back(b) PROVE Books'
  BY <1>1, <1>4 DEF begin_transaction, roll_back, counters, billing
<1>5. CASE BattleStep
  BY <1>2, <1>3, <1>4, <1>5, BooksReserve DEF BattleStep
<1>6. CASE ArmStep
  <2>1. ASSUME NEW a \in Arms, dispatch(a) PROVE Books'
    BY <1>1, <2>1 DEF dispatch, counters, billing
  <2> QED BY <1>6, <2>1, BooksBilling DEF ArmStep
<1>7. CASE AccountStep
  BY <1>1, <1>7 DEF AccountStep, revoke, rotate, counters, billing
<1>8. CASE Expire
  BY <1>1, <1>8 DEF Expire, counters, billing
<1>9. CASE \E s \in Seasons : freeze(s)
  BY <1>1, <1>9 DEF freeze, counters, billing
<1>10. CASE \E r \in Runs : close_run(r)
  BY <1>1, <1>10 DEF close_run, counters, billing
<1>11. CASE UNCHANGED vars
  BY <1>1, <1>11 DEF vars
<1> QED BY <1>5, <1>6, <1>7, <1>8, <1>9, <1>10, <1>11 DEF Next

-----------------------------------------------------------------------------
(* What holds before a settlement, and of invoices. *)

\* Costs and invoices come with or after the settlement.
LEMMA UntouchedNext == TypeOK /\ Untouched /\ [Next]_vars => Untouched'
<1> SUFFICES ASSUME TypeOK, Untouched, [Next]_vars PROVE Untouched'
  OBVIOUS
<1>1. ASSUME UNCHANGED <<cost, governed, difference, billable>>,
             \A b \in Battles : battle[b] = "settled" => battle'[b] = "settled"
      PROVE  Untouched'
  <2>1. \A a \in Arms : a[1] \in Battles
    BY DEF Arms
  <2> QED BY <1>1, <2>1 DEF Untouched
<1>2. ASSUME NEW b \in Battles, NEW report, NEW unpriced, SettleBattle(b, report, unpriced)
      PROVE  Untouched'
  <2> SUFFICES ASSUME NEW a \in Arms, battle'[a[1]] # "settled"
               PROVE  /\ cost'[a] = 0 /\ governed'[a] = 0 /\ difference'[a] = 0
                      /\ a \notin billable'
    BY DEF Untouched
  <2>1. /\ cost' = Costs(b, report) /\ battle' = [battle EXCEPT ![b] = "settled"]
        /\ governed' = governed /\ difference' = difference
        /\ billable' \subseteq billable \cup ArmsOf(b)
    BY <1>2 DEF SettleBattle
  <2>2. a[1] \in Battles /\ a[1] # b /\ battle[a[1]] # "settled"
    BY <2>1 DEF Arms, TypeOK
  <2>3. cost'[a] = cost[a] /\ a \notin ArmsOf(b)
    BY <2>1, <2>2 DEF Costs, ArmsOf
  <2> QED BY <2>1, <2>2, <2>3 DEF Untouched
<1>3. ASSUME NEW a \in Arms, NEW billed \in Billed, register_billing(a, billed)
      PROVE  Untouched'
  <2>1. /\ battle' = battle /\ cost' = cost /\ billable' = billable /\ a \in billable
        /\ \A x \in Arms \ {a} : governed'[x] = governed[x] /\ difference'[x] = difference[x]
    BY <1>3 DEF register_billing, TypeOK
  <2>2. battle[a[1]] = "settled"
    BY <2>1 DEF Untouched
  <2> QED BY <2>1, <2>2 DEF Untouched
<1>4. ASSUME NEW b \in Battles,
             begin_transaction(b) \/ roll_back(b) \/ reserve(b) \/ leave_uncertain(b)
      PROVE  Untouched'
  BY <1>1, <1>4
  DEF begin_transaction, roll_back, reserve, leave_uncertain, billing, TypeOK
<1>5. CASE BattleStep
  BY <1>2, <1>4, <1>5, SettleEither DEF BattleStep
<1>6. CASE ArmStep
  <2>1. ASSUME NEW a \in Arms, dispatch(a) PROVE Untouched'
    BY <1>1, <2>1 DEF dispatch, billing
  <2> QED BY <1>3, <1>6, <2>1 DEF ArmStep
<1>7. CASE AccountStep
  BY <1>1, <1>7 DEF AccountStep, revoke, rotate, billing
<1>8. CASE Expire
  BY <1>1, <1>8 DEF Expire, billing
<1>9. CASE \E s \in Seasons : freeze(s)
  BY <1>1, <1>9 DEF freeze, billing
<1>10. CASE \E r \in Runs : close_run(r)
  BY <1>1, <1>10 DEF close_run, billing
<1>11. CASE UNCHANGED vars
  BY <1>1, <1>11 DEF vars
<1> QED BY <1>5, <1>6, <1>7, <1>8, <1>9, <1>10, <1>11 DEF Next

\* A correction charges at least what the cross-check rose by.
LEMMA CoveringNext == TypeOK /\ Covering /\ [Next]_vars => Covering'
<1> SUFFICES ASSUME TypeOK, Covering, [Next]_vars PROVE Covering'
  OBVIOUS
<1>1. ASSUME UNCHANGED <<governed, difference>> PROVE Covering'
  BY <1>1 DEF Covering
<1>2. ASSUME NEW a \in Arms, NEW billed \in Billed, register_billing(a, billed)
      PROVE  Covering'
  <2> DEFINE diff == billed - cost[a]
             delta == GovernedDelta(diff, difference[a])
  <2>1. diff \in Int /\ difference[a] \in Int /\ governed[a] \in Int /\ delta \in Nat
    BY <1>2, BillingCounters DEF TypeOK
  <2>2. delta >= diff - difference[a]
    BY <2>1 DEF GovernedDelta
  <2>3. /\ governed'[a] = governed[a] + delta /\ difference'[a] = diff
        /\ \A x \in Arms \ {a} : governed'[x] = governed[x] /\ difference'[x] = difference[x]
    BY <1>2 DEF register_billing, TypeOK
  <2> HIDE DEF diff, delta
  <2>4. governed'[a] >= difference'[a]
    BY <2>1, <2>2, <2>3 DEF Covering
  <2> QED BY <2>3, <2>4 DEF Covering
<1>3. CASE BattleStep
  BY <1>1, <1>3, SettleEither
  DEF BattleStep, SettleBattle, begin_transaction, roll_back, reserve, leave_uncertain, billing
<1>4. CASE ArmStep
  BY <1>1, <1>2, <1>4 DEF ArmStep, dispatch, billing
<1>5. CASE AccountStep
  BY <1>1, <1>5 DEF AccountStep, revoke, rotate, billing
<1>6. CASE Expire
  BY <1>1, <1>6 DEF Expire, billing
<1>7. CASE \E s \in Seasons : freeze(s)
  BY <1>1, <1>7 DEF freeze, billing
<1>8. CASE \E r \in Runs : close_run(r)
  BY <1>1, <1>8 DEF close_run, billing
<1>9. CASE UNCHANGED vars
  BY <1>1, <1>9 DEF vars, billing
<1> QED BY <1>3, <1>4, <1>5, <1>6, <1>7, <1>8, <1>9 DEF Next

-----------------------------------------------------------------------------
(* The accounts: their audit and their validity. *)

\* Every transaction that moves a counter is audited before it commits, and an
\* authorization endpoint that replaces the head takes the counters as they are.
LEMMA AuditedNext == TypeOK /\ Audited /\ [Next]_vars => Audited'
<1> SUFFICES ASSUME TypeOK, Audited, [Next]_vars PROVE Audited'
  OBVIOUS
<1>1. ASSUME UNCHANGED <<used, reserved, auth, counted>> PROVE Audited'
  BY <1>1 DEF Audited
<1>2. ASSUME NEW s \in Seasons, ClosingAudit(s) PROVE Audited'
  BY <1>2 DEF ClosingAudit, assert_budget_integrity, CountersAgree, Audited
<1>3. \A b \in Battles : SeasonOf[b] \in Seasons
  BY LedgerAssumption
<1>4. ASSUME NEW b \in Battles, reserve(b) \/ settle(b) \/ settle_uncertain(b)
      PROVE  Audited'
  <2>1. ClosingAudit(SeasonOf[b])
    BY <1>4, SettleEither DEF reserve, SettleBattle
  <2> QED BY <1>2, <1>3, <2>1
<1>5. ASSUME NEW a \in Arms, NEW billed \in Billed, register_billing(a, billed)
      PROVE  Audited'
  <2>1. ClosingAudit(SeasonOf[a[1]]) /\ a[1] \in Battles
    BY <1>5 DEF register_billing, Arms
  <2> QED BY <1>2, <1>3, <2>1
<1>6. CASE BattleStep
  BY <1>1, <1>4, <1>6 DEF BattleStep, begin_transaction, roll_back, leave_uncertain, counters
<1>7. CASE ArmStep
  BY <1>1, <1>5, <1>7 DEF ArmStep, dispatch, counters
<1>8. ASSUME NEW k \in Backends, NEW u, NEW r, rotate(k, u, r) PROVE Audited'
  <2> SUFFICES ASSUME NEW x \in Backends
               PROVE  /\ reserved'[<<"account", x>>] = auth'[x].reserved + counted'[x].reserved
                      /\ used'[<<"account", x>>] = auth'[x].used + counted'[x].used
    BY DEF Audited
  <2>1. /\ used' = used /\ reserved' = reserved
        /\ u = used[<<"account", k>>] /\ r = reserved[<<"account", k>>]
        /\ auth' = [auth EXCEPT ![k] = Checkpoint(u, r, auth[k].epoch + 1)]
        /\ counted' = [counted EXCEPT ![k] = [used |-> 0, reserved |-> 0]]
    BY <1>8 DEF rotate, counters
  <2>2. CASE x = k
    <3>1. /\ auth'[k].used = u /\ auth'[k].reserved = r
          /\ counted'[k].used = 0 /\ counted'[k].reserved = 0
      BY <2>1 DEF Checkpoint, TypeOK
    <3>2. u \in Nat /\ r \in Nat
      BY <2>1, AccountBudgets DEF TypeOK
    <3> QED BY <2>1, <2>2, <3>1, <3>2
  <2>3. CASE x # k
    <3>1. auth'[x] = auth[x] /\ counted'[x] = counted[x]
      BY <2>1, <2>3 DEF TypeOK
    <3> QED BY <2>1, <3>1 DEF Audited
  <2> QED BY <2>2, <2>3
<1>9. ASSUME UNCHANGED <<used, reserved, counted>>,
             NEW k \in Backends, NEW x, \/ auth' = [auth EXCEPT ![k].lapsed = x]
                                        \/ auth' = [auth EXCEPT ![k].active = x]
      PROVE  Audited'
  <2>1. \A y \in Backends : auth'[y].used = auth[y].used /\ auth'[y].reserved = auth[y].reserved
    <3>1. \A y \in Backends :
            auth[y] \in [active : BOOLEAN, lapsed : BOOLEAN, epoch : Nat,
                         used : Nat, reserved : Nat]
      BY DEF TypeOK
    <3>2. auth \in [Backends -> [active : BOOLEAN, lapsed : BOOLEAN, epoch : Nat,
                                 used : Nat, reserved : Nat]]
      BY DEF TypeOK
    <3>3. CASE auth' = [auth EXCEPT ![k].lapsed = x]
      BY <3>1, <3>2, <3>3
    <3>4. CASE auth' = [auth EXCEPT ![k].active = x]
      BY <3>1, <3>2, <3>4
    <3> QED BY <1>9, <3>3, <3>4
  <2> QED BY <1>9, <2>1 DEF Audited
<1>10. CASE AccountStep
  <2>1. ASSUME NEW k \in Backends, revoke(k) PROVE Audited'
    BY <1>9, <2>1 DEF revoke, counters
  <2> QED BY <1>8, <1>10, <2>1 DEF AccountStep
<1>11. CASE Expire
  <2>1. UNCHANGED <<used, reserved, counted>>
    BY <1>11 DEF Expire, counters
  <2>2. ASSUME NEW k \in Backends, lapse(k) PROVE Audited'
    <3>1. PICK x : auth' = [auth EXCEPT ![k].lapsed = x]
      BY <2>2, Zenon DEF lapse
    <3> QED BY <1>9, <2>1, <3>1
  <2>3. ASSUME NEW s \in Seasons, NEW k \in Backends, provider_lapse(s, k) PROVE Audited'
    BY <1>1, <2>1, <2>3 DEF provider_lapse
  <2> QED BY <1>11, <2>2, <2>3 DEF Expire
<1>12. CASE \E s \in Seasons : freeze(s)
  BY <1>1, <1>12 DEF freeze, counters
<1>13. CASE \E r \in Runs : close_run(r)
  BY <1>1, <1>13 DEF close_run, counters
<1>14. CASE UNCHANGED vars
  BY <1>1, <1>14 DEF vars
<1> QED BY <1>6, <1>7, <1>10, <1>11, <1>12, <1>13, <1>14 DEF Next

\* A season is frozen under the first epoch of an account only while that epoch
\* is valid, so the ledger row still is; and when the row's expiry passes, the
\* provider budgets rooted in that epoch go with it.
LEMMA ValidityNext == TypeOK /\ Validity /\ [Next]_vars => Validity'
<1> SUFFICES ASSUME TypeOK, Validity, [Next]_vars PROVE Validity'
  OBVIOUS
<1>1. ASSUME UNCHANGED <<expired, auth, root>> PROVE Validity'
  BY <1>1 DEF Validity
<1>2. ASSUME NEW s \in Seasons, freeze(s) PROVE Validity'
  <2>1. /\ auth' = auth /\ expired' = expired
        /\ root' = [root EXCEPT ![s] = [k \in Backends |-> auth[k].epoch]]
        /\ \A k \in Backends : ~auth[k].lapsed
    BY <1>2 DEF freeze
  <2>2. ASSUME NEW k \in Backends, NEW x \in Seasons, <<"account", k>> \in expired,
               root'[x][k] = 1
        PROVE  <<"provider", x, k>> \in expired
    <3>1. CASE x = s
      <4>1. auth[k].epoch = 1
        BY <2>1, <2>2, <3>1 DEF TypeOK
      <4> QED BY <2>1, <2>2, <4>1 DEF Validity
    <3>2. CASE x # s
      <4>1. root[x][k] = 1
        BY <2>1, <2>2, <3>2 DEF TypeOK
      <4> QED BY <2>2, <4>1 DEF Validity
    <3> QED BY <3>1, <3>2
  <2> QED BY <2>1, <2>2 DEF Validity
<1>3. ASSUME NEW k \in Backends, NEW u, NEW r, rotate(k, u, r) PROVE Validity'
  <2>1. /\ expired' = expired /\ root' = root
        /\ auth' = [auth EXCEPT ![k] = Checkpoint(u, r, auth[k].epoch + 1)]
    BY <1>3 DEF rotate
  <2>2. auth[k].epoch \in Nat /\ auth[k].epoch > 0
    BY DEF TypeOK, Validity
  <2>3. /\ auth'[k].epoch > 0 /\ auth'[k].epoch # 1
        /\ \A x \in Backends \ {k} : auth'[x] = auth[x]
    BY <2>1, <2>2 DEF TypeOK, Checkpoint
  <2> QED BY <2>1, <2>3 DEF Validity
<1>4. ASSUME NEW k \in Backends, revoke(k) PROVE Validity'
  <2>1. /\ expired' = expired /\ root' = root
        /\ \A x \in Backends : auth'[x].epoch = auth[x].epoch /\ auth'[x].lapsed = auth[x].lapsed
    BY <1>4 DEF revoke, TypeOK
  <2> QED BY <2>1 DEF Validity
<1>5. ASSUME NEW k \in Backends, lapse(k), root' = root PROVE Validity'
  <2>1. PICK e : \/ /\ auth[k].epoch > 1 /\ e = auth[k].epoch
                    /\ auth' = [auth EXCEPT ![k].lapsed = TRUE]
                    /\ expired' = expired \cup Rooted(k, e)
                 \/ /\ e = 1
                    /\ auth' = [auth EXCEPT ![k].lapsed = @ \/ auth[k].epoch = 1]
                    /\ expired' = expired \cup {<<"account", k>>} \cup Rooted(k, e)
    BY <1>5, Zenon DEF lapse
  <2>2. /\ \A x \in Backends : /\ auth'[x].epoch = auth[x].epoch
                               /\ auth[x].lapsed => auth'[x].lapsed
        /\ e = 1 /\ auth[k].epoch = 1 => auth'[k].lapsed
    <3>1. auth \in [Backends -> [active : BOOLEAN, lapsed : BOOLEAN, epoch : Nat,
                                 used : Nat, reserved : Nat]]
      BY DEF TypeOK
    <3>2. PICK z : /\ auth' = [auth EXCEPT ![k].lapsed = z]
                   /\ auth[k].lapsed => z
                   /\ e = 1 /\ auth[k].epoch = 1 => z
      <4>1. CASE auth' = [auth EXCEPT ![k].lapsed = TRUE]
        BY <4>1, Zenon
      <4>2. CASE auth' = [auth EXCEPT ![k].lapsed = @ \/ auth[k].epoch = 1]
        BY <4>2, Zenon
      <4> QED BY <2>1, <4>1, <4>2, Zenon
    <3>3. /\ auth'[k].epoch = auth[k].epoch /\ auth'[k].lapsed = z
          /\ \A x \in Backends \ {k} : auth'[x] = auth[x]
      BY <3>1, <3>2, Zenon
    <3> QED BY <3>2, <3>3, Zenon
  <2>3. /\ \A g \in expired' : g \in expired \/ g[1] \in {"account", "provider"}
        /\ expired \subseteq expired'
        /\ \A x \in Backends : <<"account", x>> \in expired' =>
             <<"account", x>> \in expired \/ (x = k /\ e = 1)
    BY <2>1 DEF Rooted
  <2>4. e = 1 => /\ auth[k].epoch = 1 => auth'[k].lapsed
                 /\ \A s \in Seasons : root[s][k] = 1 => <<"provider", s, k>> \in expired'
    <3> SUFFICES ASSUME e = 1
                 PROVE  /\ auth[k].epoch = 1 => auth'[k].lapsed
                        /\ \A s \in Seasons : root[s][k] = 1 => <<"provider", s, k>> \in expired'
      OBVIOUS
    <3>1. \A s \in Seasons : root[s][k] = 1 => <<"provider", s, k>> \in Rooted(k, e)
      BY DEF Rooted
    <3>2. Rooted(k, e) \subseteq expired'
      BY <2>1
    <3> QED BY <2>2, <3>1, <3>2
  <2> QED BY <1>5, <2>2, <2>3, <2>4 DEF Validity
<1>6. ASSUME NEW s \in Seasons, NEW k \in Backends, provider_lapse(s, k), root' = root
      PROVE  Validity'
  BY <1>6 DEF provider_lapse, Validity
<1>7. CASE BattleStep
  BY <1>1, <1>7, SettleEither
  DEF BattleStep, SettleBattle, begin_transaction, roll_back, reserve, leave_uncertain
<1>8. CASE ArmStep
  BY <1>1, <1>8 DEF ArmStep, dispatch, register_billing
<1>9. CASE AccountStep
  BY <1>3, <1>4, <1>9 DEF AccountStep
<1>10. CASE Expire
  BY <1>5, <1>6, <1>10 DEF Expire
<1>11. CASE \E r \in Runs : close_run(r)
  BY <1>1, <1>11 DEF close_run
<1>12. CASE UNCHANGED vars
  BY <1>1, <1>12 DEF vars
<1> QED BY <1>2, <1>7, <1>8, <1>9, <1>10, <1>11, <1>12 DEF Next

-----------------------------------------------------------------------------
(* The inductive invariant and what follows from it. *)

\* Before the first battle the books are the accounts' openings.
LEMMA BookInit == Init => BookInv
<1> SUFFICES ASSUME Init PROVE BookInv
  OBVIOUS
<1>1. TypeOK
  BY TypeInit
<1>2. Books
  <2> SUFFICES ASSUME NEW g \in Budgets
               PROVE  /\ reserved[g] = BattlesReserved(g)
                      /\ used[g] = OpeningOf(g) + BattlesUsed(g)
    BY DEF Books
  <2>1. BattlesReserved(g) = 0
    <3>1. {b \in Battles : Outstanding(b)} = {}
      BY DEF Init, Outstanding
    <3> QED BY <3>1, SumEmpty DEF BattlesReserved
  <2>2. BattlesUsed(g) = 0
    <3> DEFINE f == [b \in Battles |-> Spent(cost, governed, b, g)]
    <3>1. cost \in [Arms -> Int] /\ governed \in [Arms -> Int]
      BY DEF Init
    <3>2. \A a \in Arms : cost[a] = 0 /\ governed[a] = 0
      BY DEF Init
    <3>3. \A b \in Battles : Charged(cost, b, g) = 0 /\ Charged(governed, b, g) = 0
      BY <3>1, <3>2, ChargedMonotone
    <3>4. \A b \in Battles : f[b] = 0
      BY <3>3 DEF Spent
    <3>5. BattlesUsed(g) = SumFunctionOnSet(f, Battles)
      BY DEF BattlesUsed, Spent
    <3>6. IsFiniteSet(Battles)
      BY LedgerAssumption
    <3> HIDE DEF f
    <3>7. SumFunctionOnSet(f, Battles) = 0 * Cardinality(Battles)
      BY <3>4, <3>6, SumConstant
    <3> QED BY <3>5, <3>6, <3>7, FS_CardinalityType
  <2>3. used[g] = OpeningOf(g) /\ OpeningOf(g) \in Nat /\ reserved[g] = 0
    BY <1>1, BooksTyped DEF Init, OpeningOf
  <2> QED BY <2>1, <2>2, <2>3
<1>3. Untouched /\ Covering
  BY DEF Init, Untouched, Covering
<1>4. Audited
  <2> SUFFICES ASSUME NEW k \in Backends
               PROVE  /\ reserved[<<"account", k>>] = auth[k].reserved + counted[k].reserved
                      /\ used[<<"account", k>>] = auth[k].used + counted[k].used
    BY DEF Audited
  <2>1. used[<<"account", k>>] = Opening[k] /\ reserved[<<"account", k>>] = 0
    BY AccountBudgets DEF Init
  <2>2. /\ auth[k].used = Opening[k] /\ auth[k].reserved = 0
        /\ counted[k].used = 0 /\ counted[k].reserved = 0
    BY DEF Init, Checkpoint
  <2>3. Opening[k] \in Nat
    BY LedgerAssumption
  <2> QED BY <2>1, <2>2, <2>3
<1>5. Validity
  BY DEF Init, Validity, Checkpoint
<1> QED BY <1>1, <1>2, <1>3, <1>4, <1>5 DEF BookInv

\* BookInv is inductive.
LEMMA BookNext == BookInv /\ [Next]_vars => BookInv'
BY TypeNext, BooksNext, UntouchedNext, CoveringNext, AuditedNext, ValidityNext DEF BookInv

\* The books of every reachable state are in order.
THEOREM BooksInOrder == Spec => []BookInv
BY BookInit, BookNext, PTL DEF Spec

\* The books of the accounts are an instance of the books.
LEMMA AccountsFollow == BookInv => AccountCarriesAllSeasons
<1> SUFFICES ASSUME BookInv, NEW k \in Backends
             PROVE  /\ reserved[<<"account", k>>] = BattlesReserved(<<"account", k>>)
                    /\ used[<<"account", k>>] = Opening[k] + BattlesUsed(<<"account", k>>)
  BY DEF AccountCarriesAllSeasons
<1>1. OpeningOf(<<"account", k>>) = Opening[k]
  BY DEF OpeningOf
<1> QED BY <1>1, AccountBudgets DEF BookInv, Books

\* Whatever epochs an account went through, it carries what the battles of all
\* seasons hold and have spent on it: a rotation replaces no ledger
\* (main.py, admin_provider_account_authorization).
THEOREM AccountsCarryAllSeasons == Spec => []AccountCarriesAllSeasons
BY BooksInOrder, AccountsFollow, PTL

\* The audit recomputes the books.
LEMMA AuditFollows == BookInv => AuditHolds
<1> SUFFICES ASSUME BookInv, NEW s \in Seasons PROVE CountersAgree(s)
  BY DEF AuditHolds
<1>1. ASSUME NEW g \in {<<"season", s>>} \cup ({"provider"} \X {s} \X Backends)
                       \cup ({"run"} \X {r \in Runs : RunSeason[r] = s})
      PROVE  reserved[g] = BattlesReserved(g) /\ used[g] = BattlesUsed(g)
  <2>1. g \in Budgets /\ g[1] # "account"
    BY <1>1 DEF Budgets
  <2>2. OpeningOf(g) = 0
    BY <2>1 DEF OpeningOf
  <2>3. BattlesUsed(g) \in Int
    BY <2>1, BooksTyped DEF BookInv
  <2> QED BY <2>1, <2>2, <2>3 DEF BookInv, Books
<1>2. \A k \in Backends :
        /\ reserved[<<"account", k>>] = auth[k].reserved + counted[k].reserved
        /\ used[<<"account", k>>] = auth[k].used + counted[k].used
  BY DEF BookInv, Audited
<1> QED BY <1>1, <1>2 DEF CountersAgree

\* assert_budget_integrity never finds a counter off, however authorization
\* epochs and transactions interleave.
THEOREM AuditNeverFails == Spec => []AuditHolds
BY BooksInOrder, AuditFollows, PTL

\* What the invoices say is at most what the budgets were charged.
LEMMA InvoicesFollow == BookInv => ExposureCoversInvoices
<1> SUFFICES ASSUME BookInv, NEW g \in Budgets, g[1] # "run"
             PROVE  used[g] >= SumFunctionOnSet(
                      [b \in Battles |-> Charged(cost, b, g) + Charged(difference, b, g)],
                      Battles)
  BY DEF ExposureCoversInvoices
<1> DEFINE f == [b \in Battles |-> Spent(cost, governed, b, g)]
           i == [b \in Battles |-> Charged(cost, b, g) + Charged(difference, b, g)]
<1>1. /\ cost \in [Arms -> Int] /\ governed \in [Arms -> Int]
      /\ difference \in [Arms -> Int]
  BY DEF BookInv, TypeOK
<1>2. \A a \in Arms : difference[a] <= governed[a]
  BY <1>1 DEF BookInv, Covering
<1>3. ASSUME NEW b \in Battles
      PROVE  f[b] \in Int /\ i[b] \in Int /\ i[b] <= f[b]
  <2>1. Charged(difference, b, g) <= Charged(governed, b, g)
    BY <1>1, <1>2, ChargedMonotone
  <2>2. /\ Charged(cost, b, g) \in Int /\ Charged(governed, b, g) \in Int
        /\ Charged(difference, b, g) \in Int
    BY <1>1, ChargedMonotone
  <2> QED BY <2>1, <2>2 DEF Spent
<1>4. IsFiniteSet(Battles)
  BY LedgerAssumption
<1>5. BattlesUsed(g) = SumFunctionOnSet(f, Battles)
  BY DEF BattlesUsed, Spent
<1> HIDE DEF f, i
<1>6. /\ SumFunctionOnSet(i, Battles) <= SumFunctionOnSet(f, Battles)
      /\ SumFunctionOnSet(i, Battles) \in Int /\ SumFunctionOnSet(f, Battles) \in Int
  BY <1>3, <1>4, SumBounded, SumType
<1>7. used[g] = OpeningOf(g) + BattlesUsed(g) /\ OpeningOf(g) \in Nat
  BY BooksTyped DEF BookInv, Books
<1>8. used[g] >= SumFunctionOnSet(i, Battles)
  BY <1>5, <1>6, <1>7
<1> QED BY <1>8 DEF i

\* Along any chain of cross-checks and corrections, each up or down, governed
\* spend covers what the active invoices say the settled arms cost.
THEOREM InvoicesAreCovered == Spec => []ExposureCoversInvoices
BY BooksInOrder, InvoicesFollow, PTL

\* A budget the application has not seen expire is not expired for the database.
LEMMA AuthorityFollows == BookInv => AuthorityAgreesWithApplication
<1> SUFFICES ASSUME BookInv, NEW b \in Battles,
                    \A k \in Backends : root[SeasonOf[b]][k] = 1, ApplicationAdmits(b)
             PROVE  AuthorityAdmits(b)
  BY DEF AuthorityAgreesWithApplication
<1>1. ASSUME NEW g \in GovernedBy(b)
      PROVE  g \notin expired
  <2>1. PICK a \in ArmsOf(b) : g \in Governing(a)
    BY <1>1 DEF GovernedBy
  <2>2. a[1] = b /\ BackendOf[a] \in Backends /\ SeasonOf[b] \in Seasons
    BY LedgerAssumption DEF ArmsOf, Arms
  <2>3. <<"provider", SeasonOf[b], BackendOf[a]>> \notin expired
    BY DEF ApplicationAdmits
  <2>4. <<"account", BackendOf[a]>> \notin expired
    BY <2>2, <2>3 DEF BookInv, Validity
  <2>5. CASE g[1] \in {"account", "provider"}
    BY <2>1, <2>2, <2>3, <2>4, <2>5 DEF Governing
  <2>6. CASE g[1] \notin {"account", "provider"}
    BY <2>6 DEF BookInv, Validity
  <2> QED BY <2>5, <2>6
<1> QED BY <1>1 DEF ApplicationAdmits, AuthorityAdmits

\* The owner function never refuses for an expiry what the application admitted
\* in a season rooted in the first epochs of its accounts (0016, reserve).
THEOREM AuthorityAgrees == Spec => []AuthorityAgreesWithApplication
BY BooksInOrder, AuthorityFollows, PTL
=============================================================================
