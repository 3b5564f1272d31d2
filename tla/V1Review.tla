------------------------------ MODULE V1Review ------------------------------
(***************************************************************************)
(* The V1 review (cli/run_v1_buy_review.py).  A proposal is made from the  *)
(* H1 context, the strategy, the portfolio, the ceiling X, the fraction r  *)
(* and the valuation capture (workflow/step3_h1_v1_proposal.py and the     *)
(* report_only owners), compiled to whole shares                           *)
(* (h1_v1_buy_compiler_dry_run.py), verified a second time                 *)
(* (h1_v1_postcompile_final_safety.py) and published under the digest of   *)
(* its content (the p7 and p8 modules).  The files are edited meanwhile,   *)
(* sessions close, and another command captures marks                      *)
(* (market/us_equity_yfinance_valuation_capture.py).                       *)
(*                                                                         *)
(* An operator's file is the number of its version: no edit brings an old  *)
(* content back.  A pinned read is one read of the version the digest      *)
(* names.  Diagnostics are left out, as are files no version of which      *)
(* parses; the schedule of sessions is a constant.                         *)
(*                                                                         *)
(* The code computes with exact decimals.  Here every number is counted    *)
(* on a scale that is a parameter: shares, offsets, weights and r in parts *)
(* of one, amounts and marks in units of which Cent make a cent.  Any      *)
(* finite set of decimals is whole on a scale that is fine enough.  The    *)
(* refusal of numbers of too many digits (mmi/canonical.py) is left out.   *)
(***************************************************************************)
EXTENDS Integers, Sequences, FiniteSets, FiniteSetsExt

CONSTANTS
  Parts,                    \* the scale: parts of a share, of an offset, a weight or r
  Cent,                     \* the scale: units of an amount in a cent
  Core, Satellite, Others,  \* the base tickers and the rest
  Priority,                 \* V1_PRIORITY_ORDER
  Strategies,   \* the versions of the strategy: its roles and its ladders, in parts
  Portfolios,   \* the versions of the portfolio: its shares, in parts, and open BUY commitments
  Ceilings,     \* the versions of X
  Fractions,    \* the versions of r, in parts
  Close,        \* the closing mark of a share of each ticker in each session
  Unresolved,   \* the role of a ticker the strategy does not name
  MaxPublished, \* bound: the artifacts published
  None

Base == Core \cup Satellite
Tickers == Base \cup Others
Roles == {"CORE", "SATELLITE", "APPROVED_EXTENDED"}
Sessions == DOMAIN Close
Versions == [strategy |-> DOMAIN Strategies, portfolio |-> DOMAIN Portfolios,
             ceiling |-> DOMAIN Ceilings, fraction |-> DOMAIN Fractions]
\* The owner of the increment's account of a generation.
Capacities == [X : Nat, H : Nat, E : Nat, R : Nat,
               A : Nat \cup {None}, Z : Nat \cup {None}, C : Nat \cup {None}]

ASSUME TickerAssumption ==
  /\ Core \cap Satellite = {} /\ Base \cap Others = {}
  /\ IsFiniteSet(Tickers)
  /\ Priority \in Seq(Base) /\ Range(Priority) = Base /\ Len(Priority) = Cardinality(Base)
ASSUME StrategyAssumption == \A v \in DOMAIN Strategies :
  /\ Strategies[v].role \in [Tickers -> Roles \cup {Unresolved}]
  /\ \A t \in Base : LET ladder == Strategies[v].ladder[t] IN
       /\ ladder \in Seq([offset : (1 - Parts)..(-1), weight : 1..Parts])
       /\ SumFunction([i \in DOMAIN ladder |-> ladder[i].weight]) = Parts
ASSUME AmountAssumption ==
  /\ MaxPublished \in Nat /\ None \notin Int /\ None \notin Capacities
  /\ \A v \in DOMAIN Portfolios : Portfolios[v].shares \in [Tickers -> Nat] /\ Portfolios[v].open \in [Tickers -> Nat]
  /\ Ceilings \in Seq(Nat) /\ Fractions \in Seq(0..Parts)
\* The unit is so fine that neither a part of a share nor the fraction r of the
\* holdings falls between two units: a choice of Cent, of any positive marks.
ASSUME ScaleAssumption ==
  /\ Parts \in Nat \ {0} /\ Cent \in Nat \ {0}
  /\ \A s \in Sessions, t \in Tickers : Close[s][t] \in Nat \ {0} /\ Close[s][t] % (Parts * Parts) = 0

VARIABLES
  at,         \* the version of each file
  session,    \* the last completed session
  capture,    \* the valuation capture: the portfolio it names, its session
  fetch,      \* the running capture command
  cmd,        \* the running review: its next step and the generation it has read
  published,  \* the artifacts of both publishers
  stood       \* (for the properties) the versions that stood together

vars == <<at, session, capture, fetch, cmd, published, stood>>

\* A generation: what the snapshot, the budget owner, the exposure owner and the
\* increment owner have read.
Empty == [h1 |-> None, strategy |-> None, portfolio |-> None, budget |-> None, ceiling |-> None,
          policy |-> None, holdings |-> None, capture |-> None, session |-> None, fraction |-> None]
Idle == [step |-> "idle", gen |-> Empty, result |-> None]

Init ==
  /\ at \in [DOMAIN Versions -> Nat \cap UNION {Versions[f] : f \in DOMAIN Versions}]
  /\ \A f \in DOMAIN Versions : at[f] \in Versions[f]
  /\ session \in Sessions
  /\ capture = None /\ fetch = None
  /\ cmd = Idle
  /\ published = {}
  /\ stood = {at}

-----------------------------------------------------------------------------
(* The operator, the market and the capture command.                       *)

Edit(f) ==
  /\ at[f] + 1 \in Versions[f]
  /\ at' = [at EXCEPT ![f] = @ + 1]
  /\ stood' = stood \cup {at'}
  /\ UNCHANGED <<session, capture, fetch, cmd, published>>

CloseSession ==
  /\ session + 1 \in Sessions
  /\ session' = session + 1
  /\ UNCHANGED <<at, capture, fetch, cmd, published, stood>>

\* The holdings of the portfolio the operator names by its digest.
BeginCapture ==
  /\ fetch = None
  /\ fetch' = [portfolio |-> at.portfolio, session |-> None]
  /\ UNCHANGED <<at, session, capture, cmd, published, stood>>

ResolveSession ==
  /\ fetch # None /\ fetch.session = None
  /\ fetch' = [fetch EXCEPT !.session = session]
  /\ UNCHANGED <<at, session, capture, cmd, published, stood>>

\* One closing mark of each ticker held, all or none; the capture is replaced.
WriteCapture ==
  /\ fetch # None /\ fetch.session # None
  /\ capture' = fetch
  /\ fetch' = None
  /\ UNCHANGED <<at, session, cmd, published, stood>>

FailCapture ==
  /\ fetch # None
  /\ fetch' = None
  /\ UNCHANGED <<at, session, capture, cmd, published, stood>>

-----------------------------------------------------------------------------
(* The proposal of a complete generation g.                                *)

HeldIn(portfolio) == {t \in Tickers : Portfolios[portfolio].shares[t] > 0}
Held(g) == HeldIn(g.holdings)
Mark(g, t) == Close[g.capture.session][t]
Worth(shares, mark) == (shares * mark) \div Parts
Holding(g, t) == Worth(Portfolios[g.holdings].shares[t], Mark(g, t))
Role(g, t) == Strategies[g.strategy].role[t]

\* Mutant: open orders for a ticker that is not held are forgotten.
OpenOfHeld(g, t) == IF t \in HeldIn(g.budget) THEN Portfolios[g.budget].open[t] ELSE 0
Open(g, t) == Portfolios[g.budget].open[t]

Exposed(g) == Held(g) \cup {t \in Tickers : Open(g, t) > 0}
IsUnresolved(g) == \E t \in Exposed(g) : Role(g, t) \notin Roles
X(g) == Ceilings[g.ceiling]
H(g) == SumFunction([t \in Held(g) |-> Holding(g, t)])
E(g) == SumFunction([t \in Tickers |-> Open(g, t)])
R(g) == (Fractions[g.fraction] * H(g)) \div Parts

\* What the core and the rest come to with n more of ticker s.
OnSide(g, core) == {t \in Exposed(g) : (Role(g, t) = "CORE") = core}
Side(g, core, s, n) ==
  SumFunction([t \in OnSide(g, core) |->
                 Holding(g, t) + Open(g, t) + IF t = s THEN n ELSE 0])

Capacity(g) ==
  LET blocked == IsUnresolved(g) \/ g.h1 = None \/ E(g) > X(g) \/ E(g) > R(g)
                 \/ Side(g, FALSE, None, 0) > Side(g, TRUE, None, 0)
  IN [X |-> X(g), H |-> H(g), E |-> E(g), R |-> R(g),
      A |-> IF IsUnresolved(g) THEN None ELSE Side(g, FALSE, None, 0),
      Z |-> IF IsUnresolved(g) THEN None ELSE Side(g, TRUE, None, 0),
      C |-> IF blocked THEN None ELSE Min({X(g), R(g)}) - E(g)]

Eligible(g, cap, t) ==
  /\ t \in Base /\ cap.C # None
  /\ g.h1 # None => t \in g.h1      \* an entry of the context is about it
  /\ cap.C > 0
  /\ Role(g, t) = "SATELLITE" => cap.Z - cap.A > 0

Disposition(g, cap, t) ==
  CASE Role(g, t) \notin Roles -> "UNRESOLVED"
    [] Role(g, t) \in Roles /\ t \notin Base -> "EXCLUDE"
    [] Role(g, t) \in Roles /\ Eligible(g, cap, t) -> "INCREMENT_ELIGIBLE"
    [] OTHER -> "MAINTAIN_ONLY"

First(S) == Priority[Min({i \in DOMAIN Priority : Priority[i] \in S})]

Target(g, cap, t) ==
  IF Role(g, t) = "SATELLITE" THEN Min({cap.C, cap.Z - cap.A}) ELSE cap.C

Unproposed(terminal, reason, cap, rows) ==
  [terminal |-> terminal, reason |-> reason, cap |-> cap, rows |-> rows, ticker |-> None, target |-> None]
NoProposal(terminal, reason) == Unproposed(terminal, reason, None, <<>>)

CompleteProposal(g) ==
  LET cap == Capacity(g)
      rows == [t \in Held(g) |-> Disposition(g, cap, t)]
      eligible == {t \in Held(g) : rows[t] = "INCREMENT_ELIGIBLE"}
      stop(terminal, reason) == Unproposed(terminal, reason, cap, rows)
  IN CASE g.h1 = None -> stop("NO_TRADE", "H1_CONTEXT_NOT_CURRENT")
       [] g.h1 # None /\ IsUnresolved(g) -> stop("NO_TRADE", "REQUIRED_EXPOSURE_ROLE_UNRESOLVED")
       [] g.h1 # None /\ ~IsUnresolved(g) /\ cap.C = None -> stop("NO_TRADE", "INITIAL_CAP_EXCEEDED")
       [] cap.C # None /\ cap.C = 0 -> stop("HOLD", "NO_SHARED_CAPACITY")
       [] cap.C # None /\ cap.C # 0 /\ eligible = {} -> stop("HOLD", "NO_INCREMENT_ELIGIBLE_TICKER")
       [] cap.C # None /\ cap.C # 0 /\ eligible # {} ->
            [terminal |-> "POSITIVE", reason |-> "POSITIVE", cap |-> cap, rows |-> rows,
             ticker |-> First(eligible), target |-> Target(g, cap, First(eligible))]

\* _validate_h1_v1_proposal_result: what the proposal must say by itself.
CapacityValid(cap) ==
  /\ cap.R <= cap.H
  /\ (cap.A = None) = (cap.Z = None)
  /\ cap.A # None => cap.A + cap.Z = cap.H + cap.E
  /\ cap.C # None => /\ cap.A # None /\ cap.E <= cap.X /\ cap.E <= cap.R
                     /\ cap.C = Min({cap.X, cap.R}) - cap.E

ProposalValid(p) ==
  LET eligible == {t \in DOMAIN p.rows : p.rows[t] = "INCREMENT_ELIGIBLE"}
  IN /\ p.cap # None => CapacityValid(p.cap)
     /\ eligible \subseteq Base
     /\ p.terminal = "HOLD" => p.cap # None /\ p.cap.C # None
     /\ p.terminal = "NO_TRADE" => (p.cap # None => p.cap.C = None) /\ eligible = {}
     /\ p.terminal # "POSITIVE" => p.ticker = None /\ p.target = None
     /\ p.terminal = "POSITIVE" =>
          /\ p.cap.C > 0 /\ p.cap.A <= p.cap.Z
          /\ p.ticker \in eligible /\ p.ticker = First(eligible)
          /\ p.target > 0
          /\ p.target = IF p.ticker \in Core THEN p.cap.C ELSE Min({p.cap.C, p.cap.Z - p.cap.A})

-----------------------------------------------------------------------------
(* The compiler and its verifier.                                          *)

\* Half a cent rounds up.
Price(mark, step) ==
  Cent * ((2 * mark * (Parts + step.offset) + Parts * Cent) \div (2 * Parts * Cent))
Prices(mark, ladder) == {Price(mark, ladder[i]) : i \in DOMAIN ladder}
Quantity(target, price, step) == (target * step.weight) \div (Parts * price)

\* A step too small for one share has no leg.
Legs(target, mark, ladder) ==
  LET price(i) == Price(mark, ladder[i])
      shares(i) == Quantity(target, price(i), ladder[i])
  IN [i \in {j \in DOMAIN ladder : shares(j) > 0} |-> [price |-> price(i), shares |-> shares(i)]]

Notional(legs) == SumFunction([i \in DOMAIN legs |-> legs[i].price * legs[i].shares])

Compiled(g, p) ==
  LET legs == Legs(p.target, Mark(g, p.ticker), Strategies[g.strategy].ladder[p.ticker])
      n == Notional(legs)
  IN [legs |-> legs, notional |-> n, open |-> E(g) + n,
      alpha |-> Side(g, FALSE, p.ticker, n), core |-> Side(g, TRUE, p.ticker, n)]

\* The invariants the compiler raises on.
CompiledValid(g, p, c) ==
  /\ \A i \in DOMAIN c.legs :
       Parts * c.legs[i].price * c.legs[i].shares
         <= p.target * Strategies[g.strategy].ladder[p.ticker][i].weight
  /\ c.notional <= p.target
  /\ c.open <= p.cap.X /\ c.open <= p.cap.R
  /\ c.alpha <= c.core
  /\ p.cap.H = H(g) /\ p.cap.E = E(g) /\ p.cap.X = X(g) /\ p.cap.R = R(g)
  /\ p.cap.A = Side(g, FALSE, None, 0) /\ p.cap.Z = Side(g, TRUE, None, 0)

\* The verifier computes everything a second time from the generation.
DueLeg(g, p, i) ==
  LET step == Strategies[g.strategy].ladder[p.ticker][i]
      price == Price(Mark(g, p.ticker), step)
  IN [price |-> price, shares |-> Quantity(p.target, price, step)]
DueLegs(g, p) ==
  LET due == {i \in DOMAIN Strategies[g.strategy].ladder[p.ticker] : DueLeg(g, p, i).shares > 0}
  IN [i \in due |-> DueLeg(g, p, i)]

LegsAgree(g, p, c) == c.legs = DueLegs(g, p) /\ c.notional = Notional(DueLegs(g, p))

ExposuresAgree(g, p, c) ==
  LET n == Notional(DueLegs(g, p))
  IN /\ c.open = E(g) + n
     /\ c.alpha = Side(g, FALSE, p.ticker, n) /\ c.core = Side(g, TRUE, p.ticker, n)

Verified(g, p, c) ==
  /\ Role(g, p.ticker) \in {"CORE", "SATELLITE"}
  /\ LegsAgree(g, p, c) /\ ExposuresAgree(g, p, c)

\* The marks are those of the session that was complete when the exposure was derived.
Fresh(g) == g.capture.session = g.session

SameRoles(g) == \A t \in Held(g) : Strategies[g.policy].role[t] = Role(g, t)
SameGeneration(g) == g.budget = g.portfolio /\ g.holdings = g.portfolio

Outcome(g, p) ==
  LET c == Compiled(g, p)
      end(terminal, reason, legs) ==
        [terminal |-> terminal, reason |-> reason, ticker |-> p.ticker, legs |-> legs, gen |-> g]
  IN IF ~ProposalValid(p) THEN end("ERROR", "PROPOSAL_CONTRACT", <<>>)
     ELSE IF p.terminal # "POSITIVE" THEN end(p.terminal, p.reason, <<>>)
     ELSE IF 0 \in Prices(Mark(g, p.ticker), Strategies[g.strategy].ladder[p.ticker])
          THEN end("ERROR", "LIMIT_PRICE_INVALID", <<>>)
     ELSE IF ~CompiledValid(g, p, c) THEN end("ERROR", "COMPILER_CONTRACT", <<>>)
     ELSE IF ~SameGeneration(g) \/ ~Fresh(g) THEN end("NO_TRADE", "INPUT_GENERATION_MISMATCH", <<>>)
     ELSE IF ~Verified(g, p, c) THEN end("ERROR", "FINAL_SAFETY_CONTRACT", <<>>)
     ELSE IF c.legs = <<>> THEN end("HOLD", "NO_WHOLE_SHARE_FEASIBILITY", <<>>)
     ELSE end("CANDIDATE_VALID", "CANDIDATE_VALID", c.legs)

-----------------------------------------------------------------------------
(* The review command.                                                     *)

\* An error, or the operator, ends the command.
Stop ==
  /\ cmd # Idle
  /\ cmd' = Idle
  /\ UNCHANGED <<at, session, capture, fetch, published, stood>>

Read(step, gen) ==
  /\ cmd' = [step |-> step, gen |-> gen, result |-> None]
  /\ UNCHANGED <<at, session, capture, fetch, published, stood>>

Conclude(gen, p) ==
  /\ cmd' = [step |-> "publish", gen |-> Empty, result |-> Outcome(gen, p)]
  /\ UNCHANGED <<at, session, capture, fetch, published, stood>>

\* An owner that is not valid, or a source that moved, ends in NO_TRADE.
GiveUp(reason) == Conclude(Empty, NoProposal("NO_TRADE", reason))

\* Whatever the H1 context is when the command starts.
ReadContext ==
  /\ cmd = Idle
  /\ Cardinality(published) < MaxPublished
  /\ \E h1 \in {None} \cup SUBSET Base : Read("strategy digest", [Empty EXCEPT !.h1 = h1])

DigestStrategy ==
  /\ cmd.step = "strategy digest"
  /\ Read("strategy", [cmd.gen EXCEPT !.strategy = at.strategy])

PinStrategy ==
  /\ cmd.step = "strategy"
  /\ IF at.strategy = cmd.gen.strategy THEN Read("portfolio digest", cmd.gen)
     ELSE GiveUp("INPUT_SOURCE_CONTRACT_NOT_VALID")

DigestPortfolio ==
  /\ cmd.step = "portfolio digest"
  /\ Read("portfolio", [cmd.gen EXCEPT !.portfolio = at.portfolio])

\* The base tickers must have their roles.
PinPortfolio ==
  /\ cmd.step = "portfolio"
  /\ IF /\ at.portfolio = cmd.gen.portfolio
        /\ \A t \in Base : Role(cmd.gen, t) = IF t \in Core THEN "CORE" ELSE "SATELLITE"
     THEN Read("budget", cmd.gen)
     ELSE GiveUp("INPUT_SOURCE_CONTRACT_NOT_VALID")

BudgetOwner ==
  /\ cmd.step = "budget"
  /\ IF at.portfolio = cmd.gen.portfolio THEN Read("ceiling", [cmd.gen EXCEPT !.budget = at.portfolio])
     ELSE GiveUp("INPUT_OWNER_NOT_VALID")

ReadCeiling ==
  /\ cmd.step = "ceiling"
  /\ Read("exposure strategy", [cmd.gen EXCEPT !.ceiling = at.ceiling])

\* The session is that of the time the owner starts at.
ExposureStrategy ==
  /\ cmd.step = "exposure strategy"
  /\ IF at.strategy = cmd.gen.strategy
     THEN Read("exposure portfolio", [cmd.gen EXCEPT !.policy = at.strategy, !.session = session])
     ELSE GiveUp("INPUT_OWNER_NOT_VALID")

ExposurePortfolio ==
  /\ cmd.step = "exposure portfolio"
  /\ IF at.portfolio = cmd.gen.portfolio THEN Read("marks", [cmd.gen EXCEPT !.holdings = at.portfolio])
     ELSE GiveUp("INPUT_OWNER_NOT_VALID")

\* A capture of these holdings, each of a known role, of the last session.
ReadMarks ==
  /\ cmd.step = "marks"
  /\ LET g == [cmd.gen EXCEPT !.capture = capture]
     IN IF capture # None /\ capture.portfolio = g.holdings
           /\ (\A t \in Held(g) : Strategies[g.policy].role[t] \in Roles) /\ Fresh(g)
        THEN Read("fraction", g) ELSE GiveUp("INPUT_OWNER_NOT_VALID")

\* The last owner; the rest is computed in memory.
IncrementOwner ==
  /\ cmd.step = "fraction"
  /\ LET g == [cmd.gen EXCEPT !.fraction = at.fraction]
     IN IF ~SameGeneration(g) THEN GiveUp("INPUT_GENERATION_MISMATCH")
        ELSE IF ~SameRoles(g) THEN Stop
        ELSE Conclude(g, CompleteProposal(g))

\* Each publisher takes its own outcomes; the artifact is named by its content, so
\* that a second one is the first.
PublishAs(terminals) ==
  /\ cmd.step = "publish"
  /\ cmd.result.terminal \in terminals
  /\ published' = published \cup {cmd.result}
  /\ cmd' = Idle
  /\ UNCHANGED <<at, session, capture, fetch, stood>>

PublishOrder == PublishAs({"CANDIDATE_VALID"})
PublishHold == PublishAs({"HOLD", "NO_TRADE"})

Owners ==
  \/ ReadContext \/ DigestStrategy \/ PinStrategy \/ DigestPortfolio \/ PinPortfolio
  \/ BudgetOwner \/ ReadCeiling \/ ExposureStrategy \/ ExposurePortfolio \/ ReadMarks
  \/ IncrementOwner
Next ==
  \/ \E f \in DOMAIN Versions : Edit(f)
  \/ CloseSession \/ BeginCapture \/ ResolveSession \/ WriteCapture \/ FailCapture
  \/ Owners \/ Stop \/ PublishOrder \/ PublishHold

Spec == Init /\ [][Next]_vars

-----------------------------------------------------------------------------
(* Properties.                                                             *)

Orders == {o \in published : o.terminal = "CANDIDATE_VALID"}

\* With every open BUY order of the portfolio it names, the order stays below the
\* ceiling and below the fraction of the holdings it names, at its marks, and leaves
\* the core at least as large as the rest.
WithinCaps(o) ==
  LET book == Portfolios[o.gen.portfolio]
      mark == Close[o.gen.capture.session]
      core == {t \in Tickers : Strategies[o.gen.strategy].role[t] = "CORE"}
      open == [t \in Tickers |-> book.open[t] + IF t = o.ticker THEN Notional(o.legs) ELSE 0]
      owned == [t \in Tickers |-> Worth(book.shares[t], mark[t])]
      both == [t \in Tickers |-> owned[t] + open[t]]
  IN /\ o.legs # <<>>
     /\ SumFunction(open) <= Ceilings[o.gen.ceiling]
     /\ Parts * SumFunction(open) <= Fractions[o.gen.fraction] * SumFunction(owned)
     /\ SumFunctionOnSet(both, Tickers \ core) <= SumFunctionOnSet(both, core)

\* An order that is published for review is within the operator's caps.
PublishedWithinCaps == \A o \in Orders : WithinCaps(o)

\* The strategy, the portfolio and the ceiling an order names stood together at one
\* time, and its marks are of these holdings.
StoodTogether(o) ==
  /\ \E v \in stood : v.strategy = o.gen.strategy /\ v.portfolio = o.gen.portfolio
                      /\ v.ceiling = o.gen.ceiling
  /\ o.gen.policy = o.gen.strategy /\ o.gen.budget = o.gen.portfolio
  /\ o.gen.holdings = o.gen.portfolio /\ o.gen.capture.portfolio = o.gen.portfolio

\* A published order is of sources that stood together.
BoundStoodTogether == \A o \in Orders : StoodTogether(o)

\* No generation is refused by a later stage for what an earlier stage made of it:
\* the proposal, the compiler and the verifier, which compute everything anew, agree.
\* Only a limit price that rounds to nothing is an error.  This is about numbers within
\* the digits that mmi/canonical.py keeps.
StagesAgree ==
  cmd.result # None /\ cmd.result.terminal = "ERROR" => cmd.result.reason = "LIMIT_PRICE_INVALID"

\* What a published review promises: sources that stood together, amounts
\* within the operator's caps, and stages of one mind (v1_review.py).
ReviewSound == PublishedWithinCaps /\ BoundStoodTogether /\ StagesAgree
=============================================================================
