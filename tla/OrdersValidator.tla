--------------------------- MODULE OrdersValidator ---------------------------
(***************************************************************************)
(* The deterministic checks between a Step 4 answer and the order files,   *)
(* and the open orders they are to protect.  Each week the audited packet  *)
(* brings plans, the operator copies the open orders into section (2a) of  *)
(* the portfolio snapshot, and the rows of an accepted answer are entered  *)
(* at the broker.  Money is counted in cents and a row by shares times     *)
(* limit price; plan_type and step_name are one ladder slot.  An amount    *)
(* may be Absent, or Damaged where it stands there and is no number a row, *)
(* a plan or a setting may have.  Plans without a ticker, blocks, column   *)
(* formats and the diagnostic texts of exec_summary are left out.          *)
(***************************************************************************)
EXTENDS Integers, FiniteSets, Functions

CONSTANTS
  Tickers, Base, Extended,   \* tradable names, and the two settings lists
  Damaged,      \* an amount or a line of section (2a) that cannot be read
  Absent,       \* a field or a line that is not there
  Settings,     \* the operator's settings: cap, target, limits and universe
  PlanChoices, RowChoices,   \* what the two models may write
  BudgetChoices,             \* the budgets the operator may note in (2a)
  MaxPlans, MaxRows,         \* how much of it
  MaxOpen,      \* bound on a ticker's open orders, to keep weeks finite
  Tolerance     \* what two notionals may differ by

Number == Int \cup {Absent, Damaged}

ASSUME SettingsAssumption ==
  /\ IsFiniteSet(Tickers) /\ Base \subseteq Tickers /\ Extended \subseteq Tickers
  /\ \A s \in Settings :
       s.universe \subseteq Tickers /\ s.cap \in Number /\ s.target \in Number
ASSUME ChoicesAssumption ==
  /\ \A c \in RowChoices : c.ticker \in Tickers /\ c.notional \in Number
  /\ \A p \in PlanChoices : p.ticker \in Tickers /\ p.compiled \in Number /\ p.target \in Number
ASSUME BoundsAssumption ==
  /\ {MaxPlans, MaxRows, MaxOpen, Tolerance} \subseteq Nat
  /\ Absent \notin Int /\ Damaged \notin Int

VARIABLES
  open,      \* the notional of each ticker's open buy orders, at the broker
  settings,  \* strategy_settings.yaml and the effective universe
  plans,     \* compile-ready final_execution_plans of the audited packet, a list
  snapshot,  \* section (2a): the budget and the notional noted, or Damaged
  covered    \* history: every accepted packet dealt with every open order

book == <<open, settings, plans, snapshot, covered>>

NetNewBuyIntents == {"NEW_ORDER", "BUY", "SUBMIT_BUY", "EXECUTE_BUY"}
ReplaceActions == {"REPLACE_EXISTING", "REPLACE"}
SubmitBuyIntents ==
  NetNewBuyIntents \cup ReplaceActions \cup {"REPLACE_EXISTING_SUBMIT_LEG", "SUBMIT"}
CancelIntents == {"CANCEL_EXISTING", "REPLACE_EXISTING_CANCEL_LEG"}

\* The final_actions a row may have at all, and the intents of its rows.
RowActions == NetNewBuyIntents \cup ReplaceActions \cup {"CANCEL_EXISTING"}
RowIntents(action) ==
  CASE action \in NetNewBuyIntents -> NetNewBuyIntents
    [] action \in ReplaceActions ->
         ReplaceActions \cup {"REPLACE_EXISTING_CANCEL_LEG", "REPLACE_EXISTING_SUBMIT_LEG"}
    [] action = "CANCEL_EXISTING" -> {"CANCEL_EXISTING"}

\* The final_actions whose rows must add up to what was compiled.
CrossChecked == NetNewBuyIntents \cup ReplaceActions \cup {"SUBMIT"}

Packets == UNION { [1..n -> PlanChoices] : n \in 0..MaxPlans }
Line == [budget : BudgetChoices, notional : 1..MaxOpen]

BookInit ==
  /\ open = [t \in Tickers |-> 0]
  /\ settings \in Settings
  /\ plans = <<>> /\ snapshot = [t \in Tickers |-> Absent]
  /\ covered = TRUE

BookTypeOK ==
  /\ open \in [Tickers -> 0..MaxOpen]
  /\ settings \in Settings
  /\ plans \in Packets
  /\ snapshot \in [Tickers -> Line \cup {Absent, Damaged}]
  /\ covered \in BOOLEAN

-----------------------------------------------------------------------------
(* An answer: its rows by line number. *)

Answers == UNION { [1..n -> RowChoices] : n \in 0..MaxRows }

Intent(rows, intents) == { i \in DOMAIN rows : rows[i].intent \in intents }
RowsFor(rows, t) == { i \in DOMAIN rows : rows[i].ticker = t }

\* A row without price or shares counts nothing.
Amount(row) == IF row.notional = Absent THEN 0 ELSE row.notional
Notional(rows, I) == SumFunction([i \in I |-> Amount(rows[i])])

SubmitNotional(rows, t) == Notional(rows, Intent(rows, SubmitBuyIntents) \cap RowsFor(rows, t))
NewTickers(rows) == { rows[i].ticker : i \in Intent(rows, NetNewBuyIntents) }

NumericsValid(rows) ==
  \A i \in DOMAIN rows :
    /\ rows[i].notional # Damaged
    /\ Amount(rows[i]) >= 0
    /\ rows[i].intent \in SubmitBuyIntents /\ rows[i].notional # Absent => rows[i].notional > 0

\* No two rows alike, and one intent to a slot: no two rows in a slot.
NoDuplicateRows(rows) ==
  \A i, j \in DOMAIN rows :
    i # j => rows[i].ticker # rows[j].ticker \/ rows[i].slot # rows[j].slot

NoConflictingActions(rows) ==
  \A i \in Intent(rows, NetNewBuyIntents), j \in Intent(rows, {"CANCEL_EXISTING"}) :
    rows[i].ticker # rows[j].ticker

SafetyContextPresent(rows) ==
  /\ Intent(rows, SubmitBuyIntents) # {} => settings.cap # Absent
  /\ Intent(rows, NetNewBuyIntents) # {} => settings.limits # Absent /\ settings.target # Absent

\* Mutant: only orders that open a position are looked up.
NewInUniverse(rows) ==
  \A i \in Intent(rows, NetNewBuyIntents) : rows[i].ticker \in settings.universe

InUniverse(rows) ==
  \A i \in Intent(rows, SubmitBuyIntents) : rows[i].ticker \in settings.universe

\* A sum against a setting, which must then be a number.
Fits(sum, ceiling) == ceiling # Absent => ceiling # Damaged /\ sum <= ceiling

\* Mutant: the run's new money is held against the cap.
WithinCapOnly(rows) == Fits(Notional(rows, Intent(rows, SubmitBuyIntents)), settings.cap)

WithinBudgets(rows) ==
  /\ Fits(Notional(rows, Intent(rows, SubmitBuyIntents)), settings.cap)
  /\ Fits(Notional(rows, Intent(rows, NetNewBuyIntents)), settings.target)

\* Per bucket, a ticker on both lists counting as base; the aggregate ceiling
\* is the sum of the two.  Limits that are no two integers refuse any answer.
WithinNewTickers(rows) ==
  settings.limits # Absent =>
    /\ settings.limits # Damaged
    /\ NewTickers(rows) \subseteq Base \cup Extended
    /\ Cardinality(NewTickers(rows) \cap Base) <= settings.limits.base
    /\ Cardinality(NewTickers(rows) \ Base) <= settings.limits.extended

MatchesPlans(rows) ==
  \A i \in DOMAIN rows : \E j \in DOMAIN plans :
    /\ plans[j].ticker = rows[i].ticker
    /\ plans[j].action \in RowActions /\ rows[i].intent \in RowIntents(plans[j].action)

Near(a, b) == a - b <= Tolerance /\ b - a <= Tolerance

CompiledTotal == SumFunction([j \in DOMAIN plans |-> plans[j].compiled])
TargetTotal == SumFunction([j \in DOMAIN plans |-> plans[j].target])

SubmitsMatch(rows) ==
  \A j \in DOMAIN plans :
    plans[j].action \in CrossChecked =>
      Near(SubmitNotional(rows, plans[j].ticker), plans[j].compiled)

NonNegative(x) == x \notin {Absent, Damaged} /\ x >= 0

\* Runs only against a cap; an empty packet has nothing to reconcile.
ExposureReconciled(rows) ==
  plans # <<>> /\ settings.cap # Absent =>
    /\ settings.cap # Damaged
    /\ \A j \in DOMAIN plans : NonNegative(plans[j].compiled) /\ NonNegative(plans[j].target)
    /\ SubmitsMatch(rows)
    /\ TargetTotal <= settings.cap
    /\ CompiledTotal <= TargetTotal

\* A line is Damaged too when it has no budget, no notional, or two that differ.
KeepMatchesSnapshot ==
  \A j \in DOMAIN plans :
    LET plan == plans[j]
        line == snapshot[plan.ticker]
    IN plan.action = "KEEP_EXISTING" =>
         /\ line \notin {Absent, Damaged}
         /\ NonNegative(plan.existing) /\ NonNegative(plan.compiled)
         /\ Near(plan.existing, line.budget) /\ Near(plan.compiled, line.notional)

Accepted(rows) ==
  /\ KeepMatchesSnapshot /\ MatchesPlans(rows)
  /\ \A i \in DOMAIN rows : rows[i].intent # ""
  /\ NumericsValid(rows) /\ NoDuplicateRows(rows) /\ NoConflictingActions(rows)
  /\ SafetyContextPresent(rows)
  /\ InUniverse(rows) /\ WithinBudgets(rows) /\ WithinNewTickers(rows)
  /\ ExposureReconciled(rows)

-----------------------------------------------------------------------------
(* The week. *)

NoSnapshot == [t \in Tickers |-> Absent]

EndWeek == plans' = <<>> /\ snapshot' = NoSnapshot

\* The audited packet, and the snapshot the operator noted: a line may be
\* missing or damaged, but not wrong.
BeginWeek ==
  /\ plans = <<>> /\ snapshot = NoSnapshot
  /\ plans' \in Packets
  /\ snapshot' \in [Tickers -> Line \cup {Absent, Damaged}]
  /\ \A t \in Tickers :
       snapshot'[t] \notin {Absent, Damaged} => snapshot'[t].notional = open[t]
  /\ UNCHANGED <<open, settings, covered>>

\* The orders of t leave the broker: on a cancel row or a whole replacement.
Cancels(rows, t) ==
  RowsFor(rows, t) \cap Intent(rows, CancelIntents \cup ReplaceActions) # {}

\* An open order of t is kept on the books of the packet, or leaves.
Covers(rows, t) ==
  \/ open[t] = 0 \/ Cancels(rows, t)
  \/ \E j \in DOMAIN plans : plans[j].ticker = t /\ plans[j].action = "KEEP_EXISTING"

\* An accepted answer is published and entered as it stands.
ParseStep4 ==
  \E rows \in Answers :
    /\ Accepted(rows)
    /\ open' = [t \in Tickers |->
                  (IF Cancels(rows, t) THEN 0 ELSE open[t]) + SubmitNotional(rows, t)]
    /\ \A t \in Tickers : open'[t] <= MaxOpen
    /\ covered' = (covered /\ \A t \in Tickers : Covers(rows, t))
    /\ EndWeek
    /\ UNCHANGED settings

\* No answer was accepted.
Abandon == EndWeek /\ UNCHANGED <<open, settings, covered>>

\* The market takes an order.
Fill ==
  /\ \E t \in Tickers : open[t] > 0 /\ open' = [open EXCEPT ![t] = 0]
  /\ UNCHANGED <<settings, plans, snapshot, covered>>

BookNext == BeginWeek \/ ParseStep4 \/ Abandon \/ Fill

BookSpec == BookInit /\ [][BookNext]_book

-----------------------------------------------------------------------------
(* Properties. *)

TotalOpen == SumFunction(open)
WithinCap == settings.cap \notin {Absent, Damaged} /\ TotalOpen <= settings.cap + Tolerance * MaxPlans

\* Week after week, as long as every accepted packet kept, cancelled or
\* replaced each open order, all open orders together stay within the cap,
\* cents for each plan apart; without a cap nothing is ever open (G3 and G4).
CoveredWithinCap == covered => TotalOpen = 0 \/ WithinCap

\* Whatever was placed in whatever week, the book holds allowed tickers only.
OpenInUniverse == \A t \in Tickers : open[t] > 0 => t \in settings.universe

\* What the validator protects week after week: the cap and the universe
\* (validate_orders_output.py, G3 to G5).
OpenSound == BookTypeOK /\ CoveredWithinCap /\ OpenInUniverse

Added(t) == IF open'[t] > open[t] THEN open'[t] - open[t] ELSE 0
Planned(t) == {plans[j].action : j \in {k \in DOMAIN plans : plans[k].ticker = t}}
Fresh == {t \in Tickers : Planned(t) \cap ReplaceActions = {}}

\* Without a target no position is opened or added to, and with one a run adds
\* no more than it, over the tickers it does not replace (G5).
NewMoneyInRun ==
  LET added == SumFunction([t \in Fresh |-> Added(t)])
  IN added = 0 \/ (settings.target \notin {Absent, Damaged} /\ added <= settings.target)

NewMoneyBounded == [][NewMoneyInRun]_book

\* What the runbook says of the cap (docs/weekly_run_operator_runbook.md:95): all
\* open buy orders, kept and replaced ones included, are held against it.  A
\* packet may leave an open order out.
OpenWithinCap == TotalOpen = 0 \/ WithinCap

\* What the docstring of _net_new_buy_notional says of a replacement: it is
\* budget-neutral, the re-anchoring of exposure that already had its budget.
ReplacementInRun ==
  \A t \in Tickers :
    Planned(t) # {} /\ Planned(t) \subseteq ReplaceActions
      => open'[t] <= open[t] + Tolerance

ReplacementIsNeutral == [][ReplacementInRun]_book
=============================================================================
