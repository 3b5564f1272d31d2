--------------------------- MODULE DecisionPacket ---------------------------
(***************************************************************************)
(* A Step 2 decision packet, judged on its own                             *)
(* (validators/validate_step2_decision_packet_semantics.py over            *)
(* validate_step2_decision_packet_v2.py).  The packet is an object its     *)
(* holder may still change: its structure is checked as it is, a copy is   *)
(* taken, the copy is checked again and must be the same packet, and the   *)
(* copy is what is judged.  Copying is one step here; ObjectCapture is     *)
(* about that step.  A budget or a quantity that is null is Null.          *)
(***************************************************************************)
EXTENDS Integers, FiniteSetsExt, SequencesExt, Functions

CONSTANTS
  Packets,    \* sets of packets a holder may hold, one for each part that varies
  Others,     \* bound: what it may become while it is judged
  Whole       \* the sum of a ladder's weights (10,000 basis points)

VARIABLES
  value,      \* the packet the holder holds
  at,         \* the next step of the validation
  first,      \* the identity of what was checked
  snapshot,   \* the copy
  findings,   \* what the judgement found
  indegree,   \* of the rotation graph's nodes that are not yet taken
  verdict     \* "valid", "invalid", or why it was not judged

vars == <<value, at, first, snapshot, findings, indegree, verdict>>

Nothing == {}
Null == -1

(***************************************************************************)
(* The structure: in this order the first thing wrong is named.            *)
(***************************************************************************)
NeedMarket == {"NO_ELIGIBLE_CHANGE", "STALE_MARKET_DATA", "FUTURE_DATED_DATA", "SOURCE_CONFLICT"}

MarketStands(p) ==
  \/ p.market # Nothing
  \/ p.mode = "NO_TRADE" /\ p.reason \notin NeedMarket

\* Every row says only what its own part of the schema lets it say.
RowsFit(p) ==
  /\ \A r \in ToSet(p.buy) : r.action \in {"KEEP_EXISTING", "HOLD_NO_NEW_BUDGET", "WATCHLIST_NO_TRADE",
                                         "NEW_ORDER", "REPLACE_EXISTING", "CANCEL_EXISTING"}
  /\ \A r \in ToSet(p.sell) : r.action \in {"HOLD_NO_SELL", "SELL"}
  /\ \A r \in ToSet(p.buy) \cup ToSet(p.rotation) \cup p.redeploy : r.budget \in Nat \cup {Null}
  /\ \A r \in ToSet(p.sell) \cup ToSet(p.sellX) : r.quantity \in Nat \cup {Null}
  /\ \A r \in ToSet(p.shortlist) : r.rank \in 1..128 /\ r.status \in {"SELECTED", "WATCH_ONLY"}
  /\ \A r \in ToSet(p.buyX) :
       /\ r.action \in {"KEEP_EXISTING", "NEW_ORDER", "REPLACE_EXISTING", "CANCEL_EXISTING"}
       /\ r.until \in {"DAY", "GTD"}
       /\ \A s \in ToSet(r.steps) : s.weight \in 0..Whole

SchemaFits(p) ==
  LET decisions == <<p.buy, p.rotation, p.sell, p.buyX, p.sellX>> IN
  /\ RowsFit(p)
  /\ \/ /\ p.mode = "DECISION_DRAFT" /\ p.reason = "none" /\ p.market # Nothing
        /\ \E i \in DOMAIN decisions : decisions[i] # <<>>
     \/ /\ p.mode = "NO_TRADE" /\ p.reason # "none"
        /\ \A i \in DOMAIN decisions : decisions[i] = <<>>
        /\ p.universe = {} /\ p.shortlist = <<>> /\ p.exposure = <<>>
        /\ p.cold = Nothing /\ p.redeploy = Nothing /\ p.gaps

Structure(p) ==
  CASE p.shape \in {"missing", "structure_invalid", "size_exceeded", "version_invalid", "mode_invalid"} -> p.shape
    [] ~MarketStands(p) -> "market_observations_invalid"
    [] ~SchemaFits(p)   -> "schema_invalid"
    [] OTHER            -> "ok"

(***************************************************************************)
(* Rows.                                                                   *)
(***************************************************************************)
Count(rows, t) == Cardinality({i \in DOMAIN rows : rows[i].ticker = t})
Tickers(rows) == {rows[i].ticker : i \in DOMAIN rows}
Repeats(values) == ~IsInjective(values)
Column(rows, f) == [i \in DOMAIN rows |-> rows[i][f]]

\* The row of a ticker that has one; a repeated ticker is left to its own finding.
UniqueRows(rows) == {rows[i] : i \in {i \in DOMAIN rows : Count(rows, rows[i].ticker) = 1}}
Row(rows, t) == {r \in UniqueRows(rows) : r.ticker = t}

If(finding, condition) == IF condition THEN {finding} ELSE {}

Opening == {"NEW_ORDER", "REPLACE_EXISTING"}
PlanKind == [KEEP_EXISTING |-> "KEEP_EXISTING_LADDER", NEW_ORDER |-> "NEW_LIMIT_LADDER",
             REPLACE_EXISTING |-> "REPLACE_EXISTING_LADDER", CANCEL_EXISTING |-> "CANCEL_EXISTING_ORDER"]

(***************************************************************************)
(* What is looked at, part by part.                                        *)
(***************************************************************************)
IssueContradicted(r) ==
  \/ "MISSING_LAST_CLOSE" \in r.codes /\ "close" \in r.has
  \/ "MISSING_PRICE_DATE" \in r.codes /\ "asof" \in r.has
  \/ "MISSING_CLOSE_SOURCE" \in r.codes /\ {"closeSource", "priceSource"} \subseteq r.has
  \/ "MISSING_TECHNICALS" \in r.codes /\ {"ma", "low", "high"} \subseteq r.has
  \/ "MISSING_TECHNICAL_SOURCE" \in r.codes /\ "technicalSource" \in r.has
  \/ "MISSING_RETRIEVED" \in r.codes /\ "retrieved" \in r.has

Technical(r) == r.has \cap {"ma", "low", "high"} # {}

MarketFindings(rows) ==
  LET Some(P(_)) == \E i \in DOMAIN rows : P(rows[i]) IN
  If("duplicate_market", Repeats(Column(rows, "ticker")))
  \cup If("close_incomplete", Some(LAMBDA r : "close" \in r.has /\ ~({"asof", "closeSource", "priceSource"} \subseteq r.has)))
  \cup If("retrieval_missing", Some(LAMBDA r : ("close" \in r.has \/ Technical(r)) /\ "retrieved" \notin r.has))
  \cup If("technical_source_missing", Some(LAMBDA r : Technical(r) /\ "technicalSource" \notin r.has))
  \cup If("range_invalid", Some(LAMBDA r : {"low", "high"} \subseteq r.has /\ r.low > r.high))
  \cup If("issue_inconsistent", Some(IssueContradicted))

ShortlistFindings(p) ==
  If("duplicate_shortlist", Repeats(Column(p.shortlist, "ticker")))
  \cup If("duplicate_rank", Repeats(Column(p.shortlist, "rank")))
  \cup If("shortlist_outside", \E r \in ToSet(p.shortlist) : r.status = "SELECTED" /\ r.ticker \notin p.universe)

ExposureFindings(p) ==
  If("duplicate_exposure", Repeats(Column(p.exposure, "ticker")))
  \cup If("exposure_self", \E r \in ToSet(p.exposure) : r.ticker \in r.overlaps)

BuyFindings(p) ==
  LET opening == {r \in ToSet(p.buy) : r.action \in Opening} IN
  If("duplicate_buy", Repeats(Column(p.buy, "ticker")))
  \cup If("buy_outside", \E r \in opening : r.ticker \notin p.universe)
  \cup If("buy_budget", \E r \in opening : r.budget = 0)

SellFindings(p) ==
  LET selling == {r \in ToSet(p.sell) : r.action = "SELL"}
      holding == ToSet(p.sell) \ selling
  IN If("duplicate_sell", Repeats(Column(p.sell, "ticker")))
     \cup If("sell_fields", \/ \E r \in holding : r.quantity \notin {Null, 0} \/ r.replacement # "none"
                            \/ \E r \in selling : r.quantity = 0)
     \cup If("sell_self", \E r \in selling : r.replacement = r.ticker)
     \cup If("sell_outside", \E r \in selling : r.replacement # "none" /\ r.replacement \notin p.universe)

SameTickerFindings(p) ==
  If("buy_and_sell", \E b \in UniqueRows(p.buy), s \in UniqueRows(p.sell) :
                       b.ticker = s.ticker /\ b.action \in Opening /\ s.action = "SELL")

Pairs(p) == {<<r.from, r.to>> : r \in ToSet(p.rotation)}
PairCount(p, pair) == Cardinality({i \in DOMAIN p.rotation : <<p.rotation[i].from, p.rotation[i].to>> = pair})

SourceSupported(p, t) ==
  (\E r \in Row(p.buy, t) : r.action = "CANCEL_EXISTING") # (\E r \in Row(p.sell, t) : r.action = "SELL")
DestinationSupported(p, t) == t \in p.universe /\ \E r \in Row(p.buy, t) : r.action \in Opening

RotationFindings(p) ==
  LET Judged(pair) ==
        /\ PairCount(p, pair) = 1
        /\ Count(p.buy, pair[1]) <= 1 /\ Count(p.sell, pair[1]) <= 1 /\ Count(p.buy, pair[2]) <= 1
  IN If("duplicate_pair", \E pair \in Pairs(p) : PairCount(p, pair) > 1)
     \cup If("rotation_self", \E pair \in Pairs(p) : pair[1] = pair[2])
     \cup If("rotation_budget", \E r \in ToSet(p.rotation) : r.budget = 0)
     \cup If("rotation_endpoint", \E pair \in Pairs(p) :
               Judged(pair) /\ ~(SourceSupported(p, pair[1]) /\ DestinationSupported(p, pair[2])))

StepsConsistent(r) ==
  LET steps == r.steps
      sum == FoldLeft(LAMBDA acc, s : acc + s.weight, 0, steps)
  IN CASE r.kind = "CANCEL_EXISTING_ORDER" -> steps = <<>> /\ r.until = "DAY"
       [] r.kind # "CANCEL_EXISTING_ORDER" /\ steps = <<>> -> r.kind = "KEEP_EXISTING_LADDER"
       [] OTHER -> /\ ~Repeats(Column(steps, "label")) /\ ~Repeats(Column(steps, "offset"))
                   /\ \A s \in ToSet(steps) : s.weight > 0
                   /\ sum = Whole

BuyExecutionFindings(p) ==
  LET rows == ToSet(p.buyX)
      Judged(t) == Count(p.buy, t) <= 1 /\ Count(p.buyX, t) <= 1
      Corresponds(t) ==
        IF Row(p.buy, t) = {} THEN Row(p.buyX, t) = {}
        ELSE \A b \in Row(p.buy, t) :
               /\ b.action \in Opening \cup {"CANCEL_EXISTING"} => Row(p.buyX, t) # {}
               /\ b.action \in {"HOLD_NO_NEW_BUDGET", "WATCHLIST_NO_TRADE"} => Row(p.buyX, t) = {}
               /\ \A x \in Row(p.buyX, t) : x.action = b.action
  IN If("duplicate_buy_execution", Repeats(Column(p.buyX, "ticker")))
     \cup If("buy_outside", \E r \in rows : r.action \in Opening /\ r.ticker \notin p.universe)
     \cup If("plan_kind", \E r \in rows : r.kind # PlanKind[r.action])
     \cup If("plan_steps", \E r \in rows : ~StepsConsistent(r))
     \cup If("buy_execution", \E t \in Tickers(p.buy) \cup Tickers(p.buyX) : Judged(t) /\ ~Corresponds(t))

SellExecutionFindings(p) ==
  LET Judged(t) == Count(p.sell, t) <= 1 /\ Count(p.sellX, t) <= 1
      Corresponds(t) == \E s \in Row(p.sell, t) : (s.action = "SELL") = (Row(p.sellX, t) # {})
      QuantityFits(t) == \A s \in Row(p.sell, t), x \in Row(p.sellX, t) :
                           s.quantity = x.quantity /\ (s.quantity = Null \/ s.quantity > 0)
      judged == {t \in Tickers(p.sell) \cup Tickers(p.sellX) : Judged(t)}
  IN If("duplicate_sell_execution", Repeats(Column(p.sellX, "ticker")))
     \cup If("sell_execution", \E t \in judged : ~Corresponds(t))
     \cup If("sell_quantity", \E t \in judged : Corresponds(t) /\ ~QuantityFits(t))

ColdFindings(p) ==
  LET Fits(c) == \/ ~c.triggered /\ c.conclusion = "NOT_TRIGGERED" /\ c.candidates = {}
                 \/ c.triggered /\ c.conclusion \in {"PRESERVE_HEADROOM", "INSUFFICIENT_EVIDENCE"}
                 \/ c.triggered /\ c.conclusion = "PROPOSE_DEPLOYMENT" /\ c.candidates # {}
  IN If("cold_inconsistent", \E c \in p.cold : ~Fits(c))
     \cup If("cold_outside", \E c \in p.cold : Fits(c) /\ c.conclusion = "PROPOSE_DEPLOYMENT" /\ ~(c.candidates \subseteq p.universe))

RedeploymentFindings(p) ==
  LET Fits(d) == \/ d.proposal # "REDEPLOY" /\ d.to = {} /\ d.budget = Null
                 \/ /\ d.proposal = "REDEPLOY" /\ d.from # {} /\ d.to # {}
                    /\ d.from \cap d.to = {} /\ d.budget > 0
      Gives(t) == Count(p.buy, t) > 1 \/ \E r \in Row(p.buy, t) : r.action \in {"CANCEL_EXISTING", "REPLACE_EXISTING"}
      Takes(t) == Count(p.buy, t) > 1 \/ DestinationSupported(p, t)
  IN If("redeploy_overlap", \E d \in p.redeploy : d.from \cap d.to # {})
     \cup If("redeploy_inconsistent", \E d \in p.redeploy : ~Fits(d))
     \cup If("redeploy_endpoint", \E d \in p.redeploy :
               /\ Fits(d) /\ d.proposal = "REDEPLOY"
               /\ ~((\A t \in d.from : Gives(t)) /\ (\A t \in d.to : Takes(t))))

Findings(p) ==
  (IF p.market = Nothing THEN {} ELSE UNION {MarketFindings(rows) : rows \in p.market})
  \cup ShortlistFindings(p) \cup ExposureFindings(p) \cup BuyFindings(p) \cup SellFindings(p)
  \cup SameTickerFindings(p) \cup RotationFindings(p) \cup BuyExecutionFindings(p) \cup SellExecutionFindings(p)
  \cup ColdFindings(p) \cup RedeploymentFindings(p)

(***************************************************************************)
(* The validation.                                                         *)
(***************************************************************************)
Init ==
  /\ \E i \in DOMAIN Packets : value \in Packets[i]
  /\ at = "check"
  /\ first = Nothing /\ snapshot = Nothing
  /\ findings = {}
  /\ indegree = <<>>
  /\ verdict = "none"

Become ==
  /\ at \in {"check", "capture"}
  /\ value' \in Others \ {value}
  /\ UNCHANGED <<at, first, snapshot, findings, indegree, verdict>>

Refuse(why) == at' = "done" /\ verdict' = why

Check ==
  /\ at = "check"
  /\ IF Structure(value) # "ok"
     THEN Refuse("structural_prerequisite_failed") /\ UNCHANGED first
     ELSE at' = "capture" /\ first' = {value} /\ UNCHANGED verdict
  /\ UNCHANGED <<value, snapshot, findings, indegree>>

CaptureSnapshot ==
  /\ at = "capture"
  /\ IF value.shape = "structure_invalid"
     THEN Refuse("snapshot_capture_failed") /\ UNCHANGED snapshot
     ELSE at' = "check again" /\ snapshot' = {value} /\ UNCHANGED verdict
  /\ UNCHANGED <<value, first, findings, indegree>>

\* Mutant: the copy is judged without asking whether it is what was checked.
SameAny(s) == s \in snapshot

SameAsChecked(s) == s \in first

CheckSnapshot ==
  /\ at = "check again"
  /\ \E s \in snapshot :
       CASE Structure(s) # "ok" -> Refuse("snapshot_revalidation_failed")
         [] Structure(s) = "ok" /\ ~SameAsChecked(s) -> Refuse("snapshot_identity_mismatch")
         [] OTHER -> at' = "evaluate" /\ UNCHANGED verdict
  /\ UNCHANGED <<value, first, snapshot, findings, indegree>>

\* The rotation graph, without its loops.
Edges(p) == {pair \in Pairs(p) : pair[1] # pair[2]}
Nodes(edges) == UNION {{e[1], e[2]} : e \in edges}

Evaluate ==
  /\ at = "evaluate"
  /\ \E s \in snapshot :
       /\ findings' = Findings(s)
       /\ indegree' = [t \in Nodes(Edges(s)) |-> Cardinality({e \in Edges(s) : e[2] = t})]
  /\ at' = "cycle"
  /\ UNCHANGED <<value, first, snapshot, verdict>>

\* A node nothing leads to is taken away, whichever comes first.
TakeNode(t) ==
  /\ at = "cycle" /\ t \in DOMAIN indegree /\ indegree[t] = 0
  /\ \E s \in snapshot :
       indegree' = [u \in DOMAIN indegree \ {t} |-> indegree[u] - (IF <<t, u>> \in Edges(s) THEN 1 ELSE 0)]
  /\ UNCHANGED <<value, at, first, snapshot, findings, verdict>>

Conclude ==
  /\ at = "cycle" /\ \A t \in DOMAIN indegree : indegree[t] # 0
  /\ findings' = findings \cup If("rotation_cycle", DOMAIN indegree # {})
  /\ at' = "done" /\ verdict' = IF findings' = {} THEN "valid" ELSE "invalid"
  /\ UNCHANGED <<value, first, snapshot, indegree>>

Ended == at = "done" /\ UNCHANGED vars

Next ==
  \/ Become \/ Check \/ CaptureSnapshot \/ CheckSnapshot \/ Evaluate
  \/ (\E t \in DOMAIN indegree : TakeNode(t))
  \/ Conclude \/ Ended

Spec == Init /\ [][Next]_vars

-----------------------------------------------------------------------------
TypeOK ==
  /\ value \in Others \/ \E i \in DOMAIN Packets : value \in Packets[i]
  /\ Cardinality(first) <= 1 /\ Cardinality(snapshot) <= 1
  /\ verdict # "none" <=> at = "done"

\* What a valid packet says, row by row and with no ticker excused: every
\* rotation moves from one thing given up to one thing opened, nothing opened
\* is also sold, every order has exactly its plan, and a ladder is whole.
OneRowEach(p) ==
  \A rows \in {p.buy, p.sell, p.buyX, p.sellX, p.shortlist, p.exposure} \cup p.market :
    \A i, j \in DOMAIN rows : rows[i].ticker = rows[j].ticker => i = j

Does(rows, t, actions) == \E r \in ToSet(rows) : r.ticker = t /\ r.action \in actions

LadderIsWhole(steps) ==
  /\ FoldLeft(LAMBDA acc, s : acc + s.weight, 0, steps) = Whole
  /\ \A s \in ToSet(steps) : s.weight \in 1..Whole
  /\ \A i, j \in DOMAIN steps : i # j => steps[i].label # steps[j].label /\ steps[i].offset # steps[j].offset

BuysCohere(p) ==
  /\ \A b \in ToSet(p.buy) :
       /\ b.action \in Opening => b.ticker \in p.universe /\ b.budget # 0 /\ ~Does(p.sell, b.ticker, {"SELL"})
       /\ b.action \notin {"KEEP_EXISTING", "HOLD_NO_NEW_BUDGET", "WATCHLIST_NO_TRADE"} => Does(p.buyX, b.ticker, {b.action})
  /\ \A x \in ToSet(p.buyX) :
       /\ Does(p.buy, x.ticker, {x.action}) /\ x.kind = PlanKind[x.action]
       /\ x.action = "CANCEL_EXISTING" => x.until = "DAY" /\ x.steps = <<>>
       /\ x.action \in Opening => x.steps # <<>>
       /\ x.steps # <<>> => LadderIsWhole(x.steps)

SellsCohere(p) ==
  /\ \A s \in ToSet(p.sell) :
       IF s.action = "SELL"
       THEN /\ \E x \in ToSet(p.sellX) : x.ticker = s.ticker /\ x.quantity = s.quantity
            /\ s.quantity # 0 /\ s.replacement \in (p.universe \cup {"none"}) \ {s.ticker}
       ELSE s.quantity \in {Null, 0} /\ s.replacement = "none"
  /\ \A x \in ToSet(p.sellX) : Does(p.sell, x.ticker, {"SELL"})

RotationsCohere(p) ==
  /\ \A i, j \in DOMAIN p.rotation : i # j => p.rotation[i].from # p.rotation[j].from \/ p.rotation[i].to # p.rotation[j].to
  /\ \A r \in ToSet(p.rotation) :
       /\ r.budget # 0 /\ Does(p.buy, r.to, Opening)
       /\ Does(p.buy, r.from, {"CANCEL_EXISTING"}) # Does(p.sell, r.from, {"SELL"})

ReviewsCohere(p) ==
  /\ \A d \in p.redeploy :
       IF d.proposal = "REDEPLOY"
       THEN /\ d.from # {} /\ d.to # {} /\ d.from \cap d.to = {} /\ d.budget > 0
            /\ \A t \in d.from : Does(p.buy, t, {"CANCEL_EXISTING", "REPLACE_EXISTING"})
            /\ \A t \in d.to : Does(p.buy, t, Opening)
       ELSE d.to = {} /\ d.budget = Null
  /\ \A c \in p.cold :
       /\ c.triggered = (c.conclusion # "NOT_TRIGGERED")
       /\ ~c.triggered => c.candidates = {}
       /\ c.conclusion = "PROPOSE_DEPLOYMENT" => c.candidates # {} /\ c.candidates \subseteq p.universe

ListsCohere(p) ==
  /\ \A r \in ToSet(p.shortlist) : r.status = "SELECTED" => r.ticker \in p.universe
  /\ \A i, j \in DOMAIN p.shortlist : p.shortlist[i].rank = p.shortlist[j].rank => i = j
  /\ \A r \in ToSet(p.exposure) : r.ticker \notin r.overlaps
  /\ \A r \in UNION {ToSet(rows) : rows \in p.market} :
       /\ "close" \in r.has => {"asof", "closeSource", "priceSource", "retrieved"} \subseteq r.has
       /\ Technical(r) => {"technicalSource", "retrieved"} \subseteq r.has
       /\ {"low", "high"} \subseteq r.has => r.low <= r.high
       /\ ~IssueContradicted(r)

Coherent(p) ==
  OneRowEach(p) /\ BuysCohere(p) /\ SellsCohere(p) /\ RotationsCohere(p) /\ ReviewsCohere(p) /\ ListsCohere(p)

\* Valid is exactly coherent: no row escapes its check because its ticker is
\* excused from another one, and nothing coherent is turned down.
ValidIsCoherent == \A s \in snapshot : verdict \in {"valid", "invalid"} => (verdict = "valid" <=> Coherent(s))

\* In a valid packet money takes one hop: nothing rotated into is rotated out
\* of, and so no rotation leads back to where it began.
RotationsAreOneHop ==
  verdict = "valid" => \A s \in snapshot : \A x, y \in Pairs(s) : x[2] # y[1]

\* A cycle is reported exactly when a ticker leads back to itself.
CycleIsReported ==
  verdict \in {"valid", "invalid"} => \A s \in snapshot :
    ("rotation_cycle" \in findings) <=>
      \E n \in 2..Cardinality(Nodes(Edges(s))) : \E walk \in [1..n -> Nodes(Edges(s))] :
        \A i \in 1..n : <<walk[i], walk[(i % n) + 1]>> \in Edges(s)

\* What is judged is the packet whose structure was checked while it was held.
JudgedWasChecked == verdict \in {"valid", "invalid"} => snapshot = first

PacketIsJudged == ValidIsCoherent /\ RotationsAreOneHop /\ CycleIsReported /\ JudgedWasChecked
=============================================================================
