------------------------------ MODULE MCWeekly ------------------------------
(***************************************************************************)
(* The week: the four steps over two research texts, the validator of the  *)
(* packets they hand on, the receipt of a publication, the daily check of  *)
(* its orders, and the reader of a generation for the weekly shadow        *)
(* report. A behaviour is of one of them; the others rest.                 *)
(***************************************************************************)
EXTENDS WeeklyPipeline, DailyCheck, PublicationReceipt, Integers, Sequences, FiniteSets, TLC

CONSTANTS Tools, t1, t2

VARIABLES
  tool,  \* the one this behaviour is about
  part1, part2, part3, part4, part5, part6,
  part7, part8, part9, part10, part11,
  part12, part13  \* its variables, if it is an instance

parts == <<part1, part2, part3, part4, part5, part6, part7, part8, part9,
            part10, part11, part12, part13>>

Symmetry == Permutations(Versions)
Weight == 3  \* the sum of a ladder's weights

-----------------------------------------------------------------------------
\* The decision packet validator: packets that vary in one part while the
\* rest is an ordinary packet, and packets that are none.
PacketWords == INSTANCE DecisionPacket WITH
  Packets <- <<>>, Others <- {}, Whole <- Weight, value <- part1,
  at <- part2, first <- part3, snapshot <- part4, findings <- part5,
  indegree <- part6, verdict <- part7

U == {"A", "B"}
T == {"A", "B", "C"}
BuyRow(t, a, b) == [ticker |-> t, action |-> a, budget |-> b]
SellRow(t, a, q, r) == [ticker |-> t, action |-> a, quantity |-> q, replacement |-> r]
Step(l, o, w) == [label |-> l, offset |-> o, weight |-> w]
Plan(t, a, k, u, steps) == [ticker |-> t, action |-> a, kind |-> k, until |-> u, steps |-> steps]
PlanOf(b) ==
  Plan(b.ticker, b.action, PacketWords!PlanKind[b.action], "DAY", IF b.action \in PacketWords!Opening THEN <<Step("x", 1, Weight)>> ELSE <<>>)
Sale(t, q) == [ticker |-> t, quantity |-> q]
Turn(f, t, b) == [from |-> f, to |-> t, budget |-> b]
Quote(t, has, codes, high) == [ticker |-> t, has |-> has, codes |-> codes, low |-> 1, high |-> high]

Fields == {"close", "asof", "closeSource", "priceSource", "ma", "low", "high", "technicalSource", "retrieved"}
Whole_ == Quote("A", Fields, {}, 2)

Base == [shape |-> "ok", mode |-> "DECISION_DRAFT", reason |-> "none", universe |-> U,
         market |-> {<<Whole_>>}, shortlist |-> <<>>, exposure |-> <<>>,
         buy |-> <<>>, sell |-> <<SellRow("C", "HOLD_NO_SELL", PacketWords!Null, "none")>>, buyX |-> <<>>, sellX |-> <<>>,
         rotation |-> <<>>, cold |-> PacketWords!Nothing, redeploy |-> PacketWords!Nothing, gaps |-> FALSE]

UpTo(n, S) == UNION {[1..k -> S] : k \in 0..n}
Planned(buy) == [Base EXCEPT !.buy = buy,
  !.buyX = LET some == SelectSeq(buy, LAMBDA b : b.action \in DOMAIN PacketWords!PlanKind) IN [i \in DOMAIN some |-> PlanOf(some[i])]]

Actions == {"KEEP_EXISTING", "WATCHLIST_NO_TRADE", "NEW_ORDER", "REPLACE_EXISTING", "CANCEL_EXISTING"}
BuyRows == {BuyRow(t, a, b) : t \in {"A", "C"}, a \in Actions, b \in {0, 1}}
Plans == {Plan(t, a, k, u, s) : t \in {"A", "C"}, a \in {"NEW_ORDER", "CANCEL_EXISTING", "KEEP_EXISTING"},
            k \in {"NEW_LIMIT_LADDER", "CANCEL_EXISTING_ORDER", "KEEP_EXISTING_LADDER"}, u \in {"DAY", "GTD"},
            s \in {<<>>, <<Step("x", 1, Weight)>>, <<Step("x", 1, 1), Step("y", 2, Weight - 1)>>,
                   <<Step("x", 1, 1), Step("x", 2, Weight - 1)>>, <<Step("x", 1, 0), Step("y", 2, Weight)>>, <<Step("x", 1, 1)>>}}
Buying == {[Base EXCEPT !.buy = buy, !.buyX = <<plan>>] : buy \in UpTo(1, BuyRows), plan \in Plans}
          \cup {[Planned(buy) EXCEPT !.buyX = plans \o @] : buy \in UpTo(2, BuyRows), plans \in {<<>>, <<PlanOf(BuyRow("A", "NEW_ORDER", 1))>>}}

SellRows == {SellRow(t, a, q, r) : t \in {"A", "C"}, a \in {"SELL", "HOLD_NO_SELL"}, q \in {PacketWords!Null, 0, 1, 2}, r \in {"none", "B", "C"}}
Selling == {[Base EXCEPT !.sell = sell, !.sellX = sales] : sell \in UpTo(1, SellRows), sales \in UpTo(2, {Sale(t, q) : t \in {"A", "C"}, q \in {PacketWords!Null, 0, 1}})}
           \cup {[Base EXCEPT !.sell = sell, !.sellX = <<Sale("A", 1)>>] : sell \in UpTo(2, {r \in SellRows : r.quantity \in {0, 1}})}

SomeBuys == UNION {{<<BuyRow("A", a, 1)>>, <<BuyRow("A", a, 1), BuyRow("B", b, PacketWords!Null)>>, <<BuyRow("C", a, PacketWords!Null), BuyRow("B", b, 1), BuyRow("A", "KEEP_EXISTING", 1)>>} :
                     a \in Actions, b \in {"NEW_ORDER", "CANCEL_EXISTING"}}
SomeSells == {<<>>, <<SellRow("A", "SELL", 1, "B")>>, <<SellRow("C", "SELL", 1, "none")>>, <<SellRow("C", "HOLD_NO_SELL", 0, "none")>>}
Turns == {Turn(f, t, 1) : f, t \in T} \cup {Turn("A", "B", 0), Turn("C", "B", PacketWords!Null)}
Rotating == {[Planned(buy) EXCEPT !.sell = sell, !.rotation = turns,
                !.sellX = LET some == SelectSeq(sell, LAMBDA s : s.action = "SELL") IN [i \in DOMAIN some |-> Sale(some[i].ticker, some[i].quantity)]] :
               buy \in SomeBuys, sell \in SomeSells, turns \in {<<>>} \cup {<<x>> : x \in Turns} \cup {<<Turn("A", "B", 1), x>> : x \in Turns}}
            \cup {[Planned(<<BuyRow("B", "NEW_ORDER", 1)>>) EXCEPT !.rotation = turns] : turns \in [1..3 -> {Turn(f, t, 1) : f, t \in T}]}

Redeployments == {[from |-> f, to |-> t, proposal |-> x, budget |-> b] :
                    f \in SUBSET {"A", "C"}, t \in SUBSET {"A", "B"}, x \in {"NO_REDEPLOYMENT", "REDEPLOY"}, b \in {PacketWords!Null, 0, 1}}
Colds == {[triggered |-> x, conclusion |-> c, candidates |-> s] :
            x \in BOOLEAN, c \in {"NOT_TRIGGERED", "PRESERVE_HEADROOM", "PROPOSE_DEPLOYMENT"}, s \in SUBSET {"A", "C"}}
Reviewing == {[Planned(buy) EXCEPT !.redeploy = {d}] : buy \in SomeBuys, d \in Redeployments}
             \cup {[Base EXCEPT !.cold = {c}] : c \in Colds}

Codes == {"MISSING_LAST_CLOSE", "MISSING_PRICE_DATE", "MISSING_CLOSE_SOURCE", "MISSING_TECHNICALS", "MISSING_TECHNICAL_SOURCE", "MISSING_RETRIEVED"}
Quoting == {[Base EXCEPT !.market = {<<Quote("A", has, codes, high)>>}] : has \in {f \in SUBSET Fields : Cardinality(f) \in {0, 1, 2, 7, 8, 9}}, codes \in {{}} \cup {{c} : c \in Codes}, high \in {0, 2}}
           \cup {[Base EXCEPT !.market = {<<Whole_, Quote(t, {}, Codes, 0)>>}] : t \in {"A", "B"}}
Listing == {[Base EXCEPT !.shortlist = UpToList] : UpToList \in UpTo(2, {[ticker |-> t, rank |-> r, status |-> s] : t \in {"A", "C"}, r \in {1, 2}, s \in {"SELECTED", "WATCH_ONLY"}})}
           \cup {[Base EXCEPT !.exposure = rows] : rows \in UpTo(2, {[ticker |-> t, overlaps |-> o] : t \in {"A", "C"}, o \in SUBSET {"A", "C"}})}

NoTrade == [Base EXCEPT !.mode = "NO_TRADE", !.reason = "POLICY_BLOCKED", !.universe = {}, !.sell = <<>>, !.market = PacketWords!Nothing, !.gaps = TRUE]
Shapes == {[Base EXCEPT !.shape = s] : s \in {"missing", "structure_invalid", "size_exceeded", "version_invalid", "mode_invalid"}}
          \cup {[Base EXCEPT !.market = PacketWords!Nothing], [Base EXCEPT !.sell = <<>>], [Base EXCEPT !.reason = "POLICY_BLOCKED"], NoTrade,
                [NoTrade EXCEPT !.reason = "SOURCE_CONFLICT"], [NoTrade EXCEPT !.reason = "SOURCE_CONFLICT", !.market = {<<Whole_>>}],
                [NoTrade EXCEPT !.universe = U], [NoTrade EXCEPT !.reason = "none"], [NoTrade EXCEPT !.gaps = FALSE],
                [Base EXCEPT !.sell[1].action = "BUY"], [Base EXCEPT !.buy = <<BuyRow("A", "SELL", 1)>>],
                [Base EXCEPT !.sell[1].quantity = -2]}

PacketSets == <<Buying, Selling, Rotating, Reviewing, Quoting, Listing, Shapes>>
PacketOthers == {NoTrade, Base, [Base EXCEPT !.shape = "structure_invalid"]}

Packet == INSTANCE DecisionPacket WITH
  Packets <- PacketSets, Others <- PacketOthers, Whole <- Weight,
  value <- part1, at <- part2, first <- part3, snapshot <- part4,
  findings <- part5, indegree <- part6, verdict <- part7

-----------------------------------------------------------------------------
\* The daily execution check: two tickers, a price at its limit and one
\* that has strayed, and a policy with and without notes.
Row(b, h, x) == [baseline |-> b, highest |-> h, template |-> x]
Price(c, a, f) == [close |-> c, atr |-> a, fresh |-> f]
DaySettings(fallback, m) ==
  LET forCore(x) == "core" :> x
  IN [fallback |-> fallback, templates |-> forCore("ladder"), cap |-> forCore(6), atrMultiple |-> forCore(2),
      highestCap |-> forCore(12), anchorBand |-> forCore(1), highestBand |-> forCore(2), monitor |-> m]
DayPacket(p, r, roles) == [passed |-> p, ready |-> r, roles |-> roles]
DayAnswer(acts, notes) == [acts |-> acts, notes |-> notes, blocked |-> FALSE]

DayStart == [packet |-> DayPacket(TRUE, {t1}, t1 :> "core"), template4 |-> {t1}, export |-> {t1, t2},
            portfolio |-> t1 :> Row(100, 98, "ladder"), settings |-> DaySettings(t1 :> "core", TRUE)]
DayInputs == [packet |-> {DayPacket(FALSE, {t2}, <<>>), DayPacket(TRUE, {}, <<>>)}, template4 |-> {Blank}, export |-> {Missing},
             portfolio |-> {t2 :> Row(100, 98, "ladder")}, settings |-> {DaySettings(<<>>, FALSE)}]
DayMarkets == {[t \in {t1, t2} |-> Price(94, 3, TRUE)], [t \in {t1, t2} |-> Price(110, Missing, FALSE)]}
DayAnswers == {DayAnswer({t2}, {}),
              DayAnswer({t1}, {<<t1, "near_highest_live_limit_edge">>}),
              DayAnswer({t1}, {t1} \X {"near_highest_live_limit_edge", "near_anchor_drift_edge"})}

-----------------------------------------------------------------------------
\* The reader of a generation for the shadow report: two anchors out of
\* order, none, one anchor twice, and one of another day.
Says(id, text) == [id |-> id, says |-> text]
SomeOffered ==
  {[day |-> 1, settings |-> "s", anchors |-> <<Says(2, "up"), Says(1, "up")>>, market |-> TRUE, events |-> FALSE]}
SomeEvidences ==
  SomeOffered \cup
  {[day |-> 1, settings |-> "s", anchors |-> <<>>, market |-> FALSE, events |-> FALSE],
   [day |-> 1, settings |-> "s", anchors |-> <<Says(1, "up"), Says(1, "down")>>, market |-> TRUE, events |-> FALSE],
   [day |-> 2, settings |-> "t", anchors |-> <<Says(1, "down")>>, market |-> TRUE, events |-> TRUE]}

Source == INSTANCE ShadowSource WITH
  Evidences <- SomeEvidences,
  Damages <- {"none", "settings", "day", "registry", "evidence", "prompt", "shown", "diagnostics", "notes"},
  Offered <- SomeOffered, MaxEdits <- 4,
  repo <- part1, dir <- part2, stamp <- part3, entries <- part4,
  edits <- part5, gid <- part6, damage <- part7, stood <- part8,
  at <- part9, got <- part10, marks <- part11, listed <- part12,
  package <- part13

ASSUME Source!EditsAssumption

\* The last two of four edits are of the generation's files, and of a generation of
\* another day than the one that is written over it.
SourceEdited ==
  Source!Next /\ (part5' > 2 /\ part5' # part5 => part1' = part1 /\ part4' = part4 /\ part6.day = 2)

-----------------------------------------------------------------------------
\* The receipt: what changed a second time is as it was first.
ChangedBack == ReceiptNext /\ (changes < changes' /\ changes' = MaxChanges => handed' = First)

-----------------------------------------------------------------------------
\* The week in three parts, as large together as it can be: whole clears only; half
\* ones, of one text and without a refusal; and half ones up to Step 2.
WholeClears == Next /\ (pc = "clear" => pc' = "idle")
OneText == Cardinality({research, candidate, decisionOf}' \ {None}) <= 1
HalfClears == Next /\ OneText /\ blocks' \subseteq blocks \cup {"step3_downstream"}
UpToStep2 == Next /\ ~prompt3'

InitWeekly ==
  /\ tool \in Tools
  /\ Init
  /\ DayInit
  /\ ReceiptInit /\ (tool = "receipt" \/ handed = First)
  /\ \/ tool \in {"week", "clears", "texts", "daily", "receipt"} /\ part1 = "off" /\ part2 = "off" /\ part3 = "off" /\
          part4 = "off" /\ part5 = "off" /\ part6 = "off" /\
          part7 = "off" /\ part8 = "off" /\ part9 = "off" /\
          part10 = "off" /\ part11 = "off" /\ part12 = "off" /\
          part13 = "off"
     \/ tool = "packet" /\ Packet!Init /\ part8 = "off" /\ part9 = "off"
        /\ part10 = "off" /\ part11 = "off" /\ part12 = "off"
        /\ part13 = "off"
     \/ tool = "source" /\ Source!Init

\* The commands that have run their course stay where they are.
AtRest ==
  \/ tool = "daily" /\ edits.command = MaxCommands

NextWeekly ==
  \/ tool = "week" /\ WholeClears /\ UNCHANGED <<tool, day, publication, parts>>
  \/ tool = "clears" /\ HalfClears /\ UNCHANGED <<tool, day, publication, parts>>
  \/ tool = "texts" /\ UpToStep2 /\ UNCHANGED <<tool, day, publication, parts>>
  \/ tool = "packet" /\ Packet!Next /\ UNCHANGED <<tool, vars, day,
       publication, part8, part9, part10, part11, part12, part13>>
  \/ tool = "receipt" /\ ChangedBack /\ UNCHANGED <<tool, vars, day, parts>>
  \/ tool = "daily" /\ DayNext /\ UNCHANGED <<tool, vars, publication, parts>>
  \/ tool = "source" /\ SourceEdited /\ UNCHANGED <<tool, vars, day, publication>>
  \/ AtRest /\ UNCHANGED <<tool, vars, day, publication, parts>>

SpecWeekly == InitWeekly /\ [][NextWeekly]_<<tool, vars, day, publication, parts>>

-----------------------------------------------------------------------------
\* The version 2 packet validators judge the packet they checked; a packet
\* they pass is coherent from its action rows to its plans, and its
\* rotations form no chain.
PacketSound ==
  tool = "packet" => Packet!TypeOK /\ Packet!PacketIsJudged

\* The package of a shadow source is of one generation whose files stood
\* together, and a generation nobody touched is accepted.
SourceSound ==
  tool = "source" => Source!TypeOK /\ Source!SourceIsSound
=============================================================================
