--------------------------- MODULE Orders_proofs ---------------------------
(***************************************************************************)
(* OrderPublish for any set of answers: its type invariant, what survives  *)
(* a publication that dies, and that it keeps the promise of OrderStore.   *)
(* OrdersValidator for any settings, packets and answers: what its checks  *)
(* add up to over any number of weeks.  ApprovalStatement for any inputs,  *)
(* PolicyApproval for any documents, spellings and bounds.                 *)
(***************************************************************************)
EXTENDS OrderPublish, OrdersValidator, ApprovalStatement, PolicyApproval, SetSums

-----------------------------------------------------------------------------
\* The statement of an operator.

\* What was handed over, at the point where it is composed.
HandedOver ==
  /\ parser \in {ParserResult(raw)} \cup WrongParser(ParserResult(raw))
  /\ wrong = {} => parser = ParserResult(raw)

\* What an artifact that was created says.
Concluded ==
  /\ result.identity # {} =>
       /\ result.state = TrueState
       /\ result.parser = {ParserResult(raw)}
       /\ result.statement = {StatementResult(raw.value)}
  /\ result.state = "raw_parse_invalid" => raw.kind # "valid"
  /\ wrong = {} => result.state = TrueState

StatementInv ==
  /\ raw \in Raws
  /\ \/ at = "parse" /\ result = Nothing
     \/ at = "compose" /\ result = Nothing /\ HandedOver
     \/ at = "done" /\ Concluded

-----------------------------------------------------------------------------
\* An intent goes without a diagnostic and is the action; all else has one.
LEMMA OutcomeKinds ==
  ASSUME NEW v
  PROVE  /\ Outcome(v).state \in Intents => Outcome(v).diagnostic = {} /\ Outcome(v).state = v.action
         /\ Outcome(v).state \notin Intents => Outcome(v).diagnostic # {}
<1>1. CASE v.root # "object"
  BY <1>1 DEF Outcome, Intents
<1>2. CASE v.root = "object" /\ v.keys # "exact"
  BY <1>2 DEF Outcome, Intents
<1>3. CASE v.root = "object" /\ v.keys = "exact" /\ WrongFields(v) = {}
  <2>1. v["action"] \in Intents
    <3>1. 4 \in DOMAIN Fields /\ Fields[4] = "action"
      BY DEF Fields
    <3>2. v[Fields[4]] \in Right[Fields[4]]
      BY <1>3, <3>1 DEF WrongFields
    <3>3. Right["action"] = Intents
      BY DEF Right, Intents
    <3> QED
      BY <3>1, <3>2, <3>3
  <2>2. Outcome(v) = [state |-> v.action, diagnostic |-> {}]
    BY <1>3 DEF Outcome
  <2> QED
    BY <2>1, <2>2
<1>4. CASE v.root = "object" /\ v.keys = "exact" /\ WrongFields(v) # {}
  <2>1. Outcome(v).state \in {"field_type_invalid", "field_value_invalid"} /\ Outcome(v).diagnostic # {}
    BY <1>4 DEF Outcome
  <2> QED
    BY <2>1 DEF Intents
<1> QED
  BY <1>1, <1>2, <1>3, <1>4

LEMMA PartsOfStatement ==
  ASSUME NEW v
  PROVE  LET s == StatementResult(v) IN
         /\ s.state = Outcome(v).state /\ s.diagnostic = Outcome(v).diagnostic
         /\ s.snapshot = IF s.state \in Intents THEN {Kept(v)} ELSE {}
         /\ s.identity = s.snapshot
         /\ s.action = IF s.state \in Intents THEN {s.state} ELSE {}
         /\ s.approval = IF s.state \in Intents THEN {s.state = "approve"} ELSE {}
<1>1. Kept(v).action = v.action
  BY DEF Kept
<1>2. PICK s : s = StatementResult(v)
  OBVIOUS
<1>3. CASE Outcome(v).state \in Intents
  <2>1. Outcome(v).state = v.action
    BY <1>3, OutcomeKinds
  <2>2. /\ s.state = Outcome(v).state /\ s.diagnostic = Outcome(v).diagnostic
        /\ s.snapshot = {Kept(v)} /\ s.identity = {Kept(v)}
    BY <1>2, <1>3 DEF StatementResult
  <2>3. s.action = {Kept(v).action}
    BY <1>2, <1>3 DEF StatementResult
  <2>4. s.approval = {Kept(v).action = "approve"}
    BY <1>2, <1>3 DEF StatementResult
  <2> QED
    BY <1>1, <1>2, <1>3, <2>1, <2>2, <2>3, <2>4
<1>4. CASE Outcome(v).state \notin Intents
  BY <1>2, <1>4 DEF StatementResult
<1> QED
  BY <1>3, <1>4

LEMMA PartsOfParser ==
  ASSUME NEW r
  PROVE  LET q == ParserResult(r) IN
         /\ q.state = r.kind
         /\ q.diagnostic = IF r.kind = "valid" THEN {} ELSE {r.kind}
         /\ q.size = IF r.kind \in Unread THEN {} ELSE {r.size}
         /\ q.hash = IF r.kind \in Unread \cup {"size"} THEN {} ELSE {r}
         /\ q.identity = IF r.kind = "valid" THEN {r.value} ELSE {}
         /\ q.value = q.identity
BY DEF ParserResult

\* What is honest fits.
LEMMA HonestParserFits ==
  ASSUME NEW r \in Raws
  PROVE  ParserFits(ParserResult(r)) /\ ParserSpeaksOf(ParserResult(r), r) /\ ParsedValueIsIdentified(ParserResult(r))
<1>1. PICK q : q = ParserResult(r)
  OBVIOUS
<1>2. r.kind \in ParseStates /\ (r.kind \notin Unread => (r.kind = "size") = ~InBounds(r.size))
  BY StatementAssumption DEF RawsAssumption
<1>3. ParserFits(q)
  <2>1. /\ q.state = r.kind
        /\ q.diagnostic = IF r.kind = "valid" THEN {} ELSE {r.kind}
        /\ q.size = IF r.kind \in Unread THEN {} ELSE {r.size}
        /\ q.hash = IF r.kind \in Unread \cup {"size"} THEN {} ELSE {r}
        /\ q.identity = IF r.kind = "valid" THEN {r.value} ELSE {}
        /\ q.value = q.identity
    BY <1>1, PartsOfParser
  <2>2. DiagnosticFits(q)
    BY <2>1 DEF DiagnosticFits
  <2>3. CASE r.kind \in Unread
    BY <2>1, <2>2, <2>3 DEF ParserFits, Unread
  <2>4. CASE r.kind \notin Unread
    <3>1. \A n \in q.size : (q.state = "size") = ~InBounds(n)
      BY <1>2, <2>1, <2>4
    <3>2. (q.hash = {}) = (q.state = "size")
      BY <2>1, <2>4
    <3>3. (q.identity # {}) = (q.state = "valid") /\ (q.state # "valid" => q.value = {})
      BY <2>1
    <3> QED
      BY <2>1, <2>2, <2>4, <3>1, <3>2, <3>3 DEF ParserFits
  <2> QED
    BY <2>3, <2>4
<1>4. ParserSpeaksOf(q, r)
  BY <1>1, <1>2, PartsOfParser DEF ParserSpeaksOf, Unread
<1> QED
  BY <1>1, <1>3, <1>4, PartsOfParser DEF ParsedValueIsIdentified

LEMMA HonestStatementFits ==
  ASSUME NEW v
  PROVE  StatementSpeaksOf(StatementResult(v), v) /\ IdentityIsOfSnapshot(StatementResult(v))
<1>1. PICK s : s = StatementResult(v)
  OBVIOUS
<1>2. StatementFits(s)
  <2>1. CASE s.state \in Intents
    <3>1. Kept(v).action = s.state
      BY <1>1, <2>1, PartsOfStatement, OutcomeKinds DEF Kept
    <3>2. s.diagnostic = {} /\ s.snapshot = {Kept(v)} /\ s.identity = {Kept(v)}
      BY <1>1, <2>1, PartsOfStatement, OutcomeKinds
    <3>3. s.action = {s.state} /\ s.approval = {s.state = "approve"}
      BY <1>1, <2>1, PartsOfStatement
    <3> QED
      BY <2>1, <3>1, <3>2, <3>3 DEF StatementFits
  <2>2. CASE s.state \notin Intents
    BY <1>1, <2>2, PartsOfStatement, OutcomeKinds DEF StatementFits
  <2> QED
    BY <2>1, <2>2
<1> QED
  BY <1>1, <1>2, PartsOfStatement DEF StatementSpeaksOf, IdentityIsOfSnapshot

-----------------------------------------------------------------------------
\* A parser's result that fits the bytes is honest, or its value is not the one
\* its identity is of.
LEMMA FittingParser ==
  ASSUME NEW r \in Raws, NEW p \in {ParserResult(r)} \cup WrongParser(ParserResult(r)),
         ParserFits(p), ParserSpeaksOf(p, r)
  PROVE  p = ParserResult(r) \/ (r.kind = "valid" /\ p.state = "valid" /\ ~ParsedValueIsIdentified(p))
<1>1. PICK q : q = ParserResult(r)
  OBVIOUS
<1>2. /\ q.state = r.kind
      /\ q.diagnostic = IF r.kind = "valid" THEN {} ELSE {r.kind}
      /\ q.size = IF r.kind \in Unread THEN {} ELSE {r.size}
      /\ q.hash = IF r.kind \in Unread \cup {"size"} THEN {} ELSE {r}
      /\ q.identity = IF r.kind = "valid" THEN {r.value} ELSE {}
      /\ q.value = q.identity
  BY <1>1, PartsOfParser
<1>3. q \in [state : {q.state}, diagnostic : {q.diagnostic}, size : {q.size}, hash : {q.hash},
             identity : {q.identity}, value : {q.value}]
  BY <1>1 DEF ParserResult
<1>4. r.kind \in ParseStates /\ (r.kind \notin Unread => (r.kind = "size") = ~InBounds(r.size))
  BY StatementAssumption DEF RawsAssumption
<1>5. ASSUME NEW x, p = [q EXCEPT !.state = x]
      PROVE  p = q
  <2>1. p.state = x /\ p.size = q.size /\ p.diagnostic = q.diagnostic
    BY <1>3, <1>5
  <2>2. x = r.kind
    BY <1>2, <1>4, <2>1 DEF ParserFits, ParserSpeaksOf, DiagnosticFits, Unread, ParseStates
  <2> QED
    BY <1>2, <1>3, <1>5, <2>2
<1>6. ASSUME NEW x, p = [q EXCEPT !.diagnostic = x]
      PROVE  p = q
  <2>1. p.state = q.state /\ p.diagnostic = x
    BY <1>3, <1>6
  <2>2. x = q.diagnostic
    BY <1>2, <2>1 DEF ParserFits, DiagnosticFits
  <2> QED
    BY <1>3, <1>6, <2>2
<1>7. ASSUME NEW x, p = [q EXCEPT !.size = x]
      PROVE  p = q
  <2>1. p.state = q.state /\ p.size = x
    BY <1>3, <1>7
  <2>2. x = q.size
    BY <1>2, <2>1 DEF ParserFits, ParserSpeaksOf
  <2> QED
    BY <1>3, <1>7, <2>2
<1>8. ASSUME NEW x, p = [q EXCEPT !.hash = x]
      PROVE  p = q
  <2>1. p.state = q.state /\ p.hash = x
    BY <1>3, <1>8
  <2>2. x = q.hash
    BY <1>2, <2>1 DEF ParserFits, ParserSpeaksOf, Unread
  <2> QED
    BY <1>3, <1>8, <2>2
<1>9. ASSUME NEW x, p = [q EXCEPT !.identity = x]
      PROVE  p = q \/ (r.kind = "valid" /\ p.state = "valid" /\ ~ParsedValueIsIdentified(p))
  <2>1. p.state = q.state /\ p.identity = x /\ p.value = q.value
    BY <1>3, <1>9
  <2>2. x = q.identity \/ (r.kind = "valid" /\ p.state = "valid" /\ ~ParsedValueIsIdentified(p))
    BY <1>2, <2>1 DEF ParserFits, ParsedValueIsIdentified
  <2> QED
    BY <1>3, <1>9, <2>2
<1>10. ASSUME NEW x, p = [q EXCEPT !.value = x]
      PROVE  p = q \/ (r.kind = "valid" /\ p.state = "valid" /\ ~ParsedValueIsIdentified(p))
  <2>1. p.state = q.state /\ p.identity = q.identity /\ p.value = x
    BY <1>3, <1>10
  <2>2. x = q.value \/ (r.kind = "valid" /\ p.state = "valid" /\ ~ParsedValueIsIdentified(p))
    BY <1>2, <2>1 DEF ParserFits, ParsedValueIsIdentified
  <2> QED
    BY <1>3, <1>10, <2>2
<1>11. \/ p = q \/ (\E x : p = [q EXCEPT !.state = x]) \/ (\E x : p = [q EXCEPT !.diagnostic = x])
       \/ (\E x : p = [q EXCEPT !.size = x]) \/ (\E x : p = [q EXCEPT !.hash = x])
       \/ (\E x : p = [q EXCEPT !.identity = x]) \/ (\E x : p = [q EXCEPT !.value = x])
  BY <1>1, Zenon DEF WrongParser
<1> QED
  BY <1>1, <1>5, <1>6, <1>7, <1>8, <1>9, <1>10, <1>11

\* A validator's result that fits the value, and has its own identity if it is
\* an intent, is honest.
LEMMA FittingStatement ==
  ASSUME NEW v, NEW s \in {StatementResult(v)} \cup WrongStatement(StatementResult(v)),
         StatementSpeaksOf(s, v), s.state \in Intents => IdentityIsOfSnapshot(s)
  PROVE  s = StatementResult(v)
<1>1. PICK q : q = StatementResult(v)
  OBVIOUS
<1>2. /\ q.state = Outcome(v).state /\ q.diagnostic = Outcome(v).diagnostic
      /\ q.snapshot = IF q.state \in Intents THEN {Kept(v)} ELSE {}
      /\ q.identity = q.snapshot
      /\ q.action = IF q.state \in Intents THEN {q.state} ELSE {}
      /\ q.approval = IF q.state \in Intents THEN {q.state = "approve"} ELSE {}
  BY <1>1, PartsOfStatement
<1>3. q \in [state : {q.state}, diagnostic : {q.diagnostic}, snapshot : {q.snapshot}, identity : {q.identity},
             action : {q.action}, approval : {q.approval}]
  BY <1>1 DEF StatementResult
<1>4. /\ s.state = q.state /\ s.diagnostic = q.diagnostic
      /\ s.state \in Intents => s.snapshot = {Kept(v)} /\ s.identity = s.snapshot
      /\ s.state \in Intents => s.action = {s.state} /\ s.approval = {s.state = "approve"}
      /\ s.state \notin Intents => s.snapshot = {} /\ s.identity = {} /\ s.action = {} /\ s.approval = {}
  BY <1>2 DEF StatementSpeaksOf, StatementFits, IdentityIsOfSnapshot
<1>5. s.snapshot = q.snapshot /\ s.identity = q.identity /\ s.action = q.action
  BY <1>2, <1>4
<1>6. s.approval = q.approval
  BY <1>2, <1>4, Zenon
<1>7. \/ s = q \/ (\E x : s = [q EXCEPT !.state = x]) \/ (\E x : s = [q EXCEPT !.diagnostic = x])
      \/ (\E x : s = [q EXCEPT !.snapshot = x]) \/ (\E x : s = [q EXCEPT !.identity = x])
      \/ (\E x : s = [q EXCEPT !.action = x]) \/ (\E x : s = [q EXCEPT !.approval = x])
  BY <1>1, Zenon DEF WrongStatement
<1>8. s = q
  BY <1>3, <1>4, <1>5, <1>6, <1>7
<1> QED
  BY <1>1, <1>8

-----------------------------------------------------------------------------
LEMMA StatementInitInv == StatementInit => StatementInv
BY DEF StatementInit, StatementInv

LEMMA HandStep ==
  ASSUME StatementInv, Hand
  PROVE  StatementInv'
<1>1. result = Nothing
  BY DEF Hand, StatementInv
<1>2. HandedOver'
  BY DEF Hand, HandedOver
<1> QED
  BY <1>1, <1>2 DEF Hand, StatementInv

\* An artifact that keeps no validator's result has no identity.
LEMMA CreatesWithout ==
  ASSUME NEW state, NEW s, state \notin KeepsStatement,
         state \in KeepsParser => /\ IF state = "raw_parse_invalid" THEN parser.state # "valid"
                                     ELSE parser.state = "valid" /\ ParsedValueIsIdentified(parser),
         Create(state, s)
  PROVE  at' = "done" /\ result'.state = state /\ result'.identity = {}
<1>1. state \notin Intents
  BY DEF KeepsStatement
<1>2. RetainedBears(state, parser, s)
  BY DEF RetainedBears
<1>3. PICK kept : kept = Retained(state, s)
  OBVIOUS
<1>4. /\ kept.state = state /\ kept.identity = {} /\ kept.statement = {} /\ kept.intent = {}
      /\ kept.parser = IF state \in KeepsParser THEN {parser} ELSE {}
  BY <1>1, <1>3 DEF Retained
<1>5. ResultFits(kept)
  BY <1>1, <1>4 DEF ResultFits
<1>6. at' = "done" /\ result' = kept
  BY <1>2, <1>3, <1>5 DEF Create
<1> QED
  BY <1>4, <1>6

\* One that keeps an honest one has.
LEMMA CreatesWith ==
  ASSUME NEW v, parser.state = "valid", parser.value = {v}, ParsedValueIsIdentified(parser),
         NEW state, state = (IF Outcome(v).state \in Intents THEN Outcome(v).state ELSE "statement_contract_invalid"),
         Create(state, StatementResult(v))
  PROVE  /\ at' = "done" /\ result'.state = state
         /\ result'.parser = {parser} /\ result'.statement = {StatementResult(v)}
<1>1. PICK s : s = StatementResult(v)
  OBVIOUS
<1>2. StatementSpeaksOf(s, v) /\ IdentityIsOfSnapshot(s) /\ s.state = Outcome(v).state
  BY <1>1, HonestStatementFits, PartsOfStatement
<1>3. state \in KeepsStatement /\ state \in KeepsParser /\ state # "raw_parse_invalid"
  BY DEF KeepsStatement, KeepsParser, Intents
<1>4. state \in Intents <=> Outcome(v).state \in Intents
  BY DEF Intents
<1>5. RetainedBears(state, parser, s)
  BY <1>2, <1>3, <1>4 DEF RetainedBears
<1>6. PICK kept : kept = Retained(state, s)
  OBVIOUS
<1>7. /\ kept.state = state /\ kept.statement = {s} /\ kept.parser = {parser}
      /\ kept.intent = IF state \in Intents THEN s.action ELSE {}
      /\ kept \in [state : {state}, parser : {{parser}}, statement : {{s}}, intent : {kept.intent}, identity : {{}}]
  BY <1>3, <1>6 DEF Retained
<1>8. ResultFits(kept)
  <2>1. state \in Intents => s.action = {state}
    BY <1>1, <1>2, <1>4, PartsOfStatement
  <2> QED
    BY <1>3, <1>7, <2>1 DEF ResultFits
<1>9. at' = "done" /\ result' = [kept EXCEPT !.identity = {CompositionRecord(kept)}]
  BY <1>1, <1>3, <1>5, <1>6, <1>8 DEF Create
<1> QED
  BY <1>1, <1>7, <1>9

LEMMA ComposeStep ==
  ASSUME StatementInv, Compose
  PROVE  StatementInv'
<1>1. raw \in Raws /\ HandedOver /\ raw' = raw /\ parser' = parser
  BY DEF Compose, StatementInv
<1>2. SUFFICES at' = "done" /\ Concluded'
  BY <1>1 DEF StatementInv
<1>4. CASE ~(ParserFits(parser) /\ ParserSpeaksOf(parser, raw))
  <2>1. CreateAlone("parser_integrity_invalid")
    BY <1>4 DEF Compose
  <2>2. at' = "done" /\ result'.state = "parser_integrity_invalid" /\ result'.identity = {} /\ wrong' = wrong
    BY <2>1, CreatesWithout DEF CreateAlone, KeepsParser, KeepsStatement, Intents
  <2>3. wrong # {}
    BY <1>1, <1>4, HonestParserFits DEF HandedOver
  <2> QED
    BY <2>2, <2>3 DEF Concluded
<1>5. CASE ParserFits(parser) /\ ParserSpeaksOf(parser, raw) /\ parser.state # "valid"
  <2>1. CreateAlone("raw_parse_invalid")
    BY <1>5 DEF Compose
  <2>2. parser = ParserResult(raw) /\ raw.kind # "valid"
    BY <1>1, <1>5, FittingParser, PartsOfParser DEF HandedOver
  <2>3. at' = "done" /\ result'.state = "raw_parse_invalid" /\ result'.identity = {}
    BY <1>5, <2>1, CreatesWithout DEF CreateAlone, KeepsStatement, Intents
  <2>4. TrueState' = "raw_parse_invalid"
    BY <1>1, <2>2 DEF TrueState
  <2> QED
    BY <1>1, <2>2, <2>3, <2>4 DEF Concluded
<1>6. CASE ParserFits(parser) /\ ParserSpeaksOf(parser, raw) /\ parser.state = "valid" /\ ~ParsedValueIsIdentified(parser)
  <2>1. CreateAlone("parsed_identity_invalid")
    BY <1>6 DEF Compose
  <2>2. at' = "done" /\ result'.state = "parsed_identity_invalid" /\ result'.identity = {} /\ wrong' = wrong
    BY <2>1, CreatesWithout DEF CreateAlone, KeepsParser, KeepsStatement, Intents
  <2>3. wrong # {}
    BY <1>1, <1>6, HonestParserFits DEF HandedOver
  <2> QED
    BY <2>2, <2>3 DEF Concluded
<1>7. CASE ParserFits(parser) /\ ParserSpeaksOf(parser, raw) /\ parser.state = "valid" /\ ParsedValueIsIdentified(parser)
  <2>1. parser = ParserResult(raw) /\ raw.kind = "valid" /\ parser.value = {raw.value}
    <3>1. parser = ParserResult(raw)
      BY <1>1, <1>7, FittingParser DEF HandedOver
    <3>2. raw.kind = "valid"
      BY <1>7, <3>1, PartsOfParser
    <3> QED
      BY <3>1, <3>2, PartsOfParser
  <2>2. PICK v \in parser.value, s \in {StatementResult(raw.value)} \cup WrongStatement(StatementResult(raw.value)) :
          /\ v = raw.value /\ Create(StateFrom(s, raw.value), s)
          /\ wrong' = IF s = StatementResult(raw.value) THEN wrong ELSE wrong \cup {"statement"}
    BY <1>7, <2>1 DEF Compose
  <2>3. TrueState' = IF Outcome(raw.value).state \in Intents THEN Outcome(raw.value).state ELSE "statement_contract_invalid"
    BY <1>1, <2>1 DEF TrueState
  <2>4. CASE s = StatementResult(raw.value)
    <3>1. StateFrom(s, raw.value) = IF Outcome(raw.value).state \in Intents THEN Outcome(raw.value).state ELSE "statement_contract_invalid"
      BY <2>4, HonestStatementFits, PartsOfStatement DEF StateFrom
    <3>2. /\ at' = "done" /\ result'.state = StateFrom(s, raw.value)
          /\ result'.parser = {parser} /\ result'.statement = {StatementResult(raw.value)}
      BY <1>7, <2>1, <2>2, <2>4, <3>1, CreatesWith
    <3>3. result'.state # "raw_parse_invalid"
      BY <3>1, <3>2 DEF Intents
    <3> QED
      BY <1>1, <2>1, <2>3, <3>1, <3>2, <3>3 DEF Concluded
  <2>5. CASE s # StatementResult(raw.value)
    <3>1. StateFrom(s, raw.value) \in {"statement_integrity_invalid", "semantic_identity_invalid"}
      BY <2>2, <2>5, FittingStatement DEF StateFrom
    <3>2. at' = "done" /\ result'.state = StateFrom(s, raw.value) /\ result'.identity = {}
      BY <1>7, <2>2, <3>1, CreatesWithout DEF KeepsStatement, Intents
    <3>3. wrong' # {}
      BY <2>2, <2>5
    <3> QED
      BY <3>1, <3>2, <3>3 DEF Concluded
  <2> QED
    BY <2>4, <2>5
<1> QED
  BY <1>4, <1>5, <1>6, <1>7

LEMMA StatementInvSound == StatementInv => StatementSound
<1>1. Nothing.identity = {} /\ Nothing.state = "none"
  BY DEF Nothing
<1> QED
  BY <1>1 DEF StatementInv, StatementSound, Concluded

\* An artifact about an operator's statement says of the bytes what the bytes say,
\* whichever one field of the parser's result or the validator's is other than it
\* should be: no wrong field turns a rejection into an approval, and none makes the
\* composition contradict itself (validate_..._intent_statement_artifact).
THEOREM StatementSafe == StatementSpec => []StatementSound
<1>1. StatementInv /\ [StatementNext]_composition => StatementInv'
  <2>1. CASE UNCHANGED composition
    BY <2>1 DEF composition, StatementInv, HandedOver, Concluded, TrueState
  <2> QED
    BY <2>1, HandStep, ComposeStep DEF StatementNext
<1> QED
  BY StatementInitInv, <1>1, StatementInvSound, PTL DEF StatementSpec

-----------------------------------------------------------------------------
\* The approval of a policy.

ParsedRecord(q) == q \in [state : {q.state}, hash : {q.hash}, identity : {q.identity}, value : {q.value},
                          diagnostics : {q.diagnostics}]
ObjectRecord(q) == q \in [state : {q.state}, diagnostics : {q.diagnostics}, version : {q.version},
                          declared : {q.declared}, canonical : {q.canonical}, matches : {q.matches}, count : {q.count}]
ArtifactRecord(q) == q \in [state : {q.state}, parser : {q.parser}, object : {q.object}, identity : {q.identity}]

\* What was handed over is right, or a result with one wrong field was.
PassedOn ==
  \/ fault = "nowhere" /\ parsed = ParsedResult(document)
  \/ fault = "parser" /\ parsed \in WrongParsed(ParsedResult(document))

\* An artifact nothing was wrong on the way to.
Honest ==
  /\ composed.parser = ParsedResult(document)
  /\ \/ composed.state \in {"absent", "type"} /\ document.kind = composed.state /\ composed.object = {} /\ composed.identity = {}
     \/ composed.state = "raw_parse_invalid" /\ document.kind \in {"size", "broken"} /\ composed.object = {} /\ composed.identity = {}
     \/ composed.state = "root_type_invalid" /\ document.kind = "list" /\ composed.object = {} /\ composed.identity = {}
     \/ /\ document.kind = "object" /\ composed.object = {ObjectResult(document.approval)}
        /\ composed.state = ArtifactState(ObjectResult(document.approval))
        /\ composed.identity = {IdentityRecord(composed)}

\* What was composed: no identity but its own, nothing bindable that is not so of the
\* document, nothing amiss if nothing was wrong; and what is kept differs from it in one field at most.
Composed ==
  /\ ArtifactRecord(composed) /\ ParsedRecord(composed.parser)
  /\ composed.identity \in {{}, {IdentityRecord(composed)}}
  /\ composed.state \in Eligible =>
       /\ document.kind = "object" /\ composed.object = {ObjectResult(document.approval)}
       /\ ObjectResult(document.approval).state = composed.state
  /\ fault = "nowhere" => Honest
  /\ IF fault = "held" THEN held \in WrongHeld(composed) ELSE held = composed

\* The inductive invariant: what is known at each stage.
ApprovalInv ==
  /\ document \in Documents
  /\ \/ stage = "parse" /\ bound.state = "none" /\ fault = "nowhere"
     \/ stage = "compose" /\ bound.state = "none" /\ PassedOn
     \/ stage = "bind" /\ bound.state = "none" /\ Composed
     \/ stage = "done" /\ MatchIsOfValidApproval /\ HonestIsBound
     \/ stage = "raised" /\ bound.state = "none" /\ fault # "nowhere"

-----------------------------------------------------------------------------
LEMMA PartsOfParsed ==
  ASSUME NEW d
  PROVE  LET q == ParsedResult(d) IN
         /\ q.state = IF d.kind \in Unparsed THEN d.kind ELSE "valid"
         /\ q.hash = IF d.kind \in Unhashed THEN {} ELSE {d}
         /\ q.identity = IF d.kind \in Unparsed THEN {} ELSE {d}
         /\ q.value = q.identity
         /\ q.diagnostics = IF d.kind \in Unparsed THEN {d.kind} ELSE {}
         /\ ParsedRecord(q)
BY DEF ParsedResult, Digest, ParsedRecord

LEMMA DocumentKinds ==
  ASSUME NEW d \in Documents
  PROVE  d.kind \in {"absent", "type", "size", "broken", "list", "object"}
BY ApprovalAssumption DEF DocumentsAssumption

LEMMA HonestParsedFits ==
  ASSUME NEW d \in Documents
  PROVE  ParsedFits(ParsedResult(d))
<1>1. PICK q : q = ParsedResult(d)
  OBVIOUS
<1>2. CASE d.kind \in Unparsed
  BY <1>1, <1>2, PartsOfParsed DEF ParsedFits, RefusalFits, Unparsed, Unhashed
<1>3. CASE d.kind \notin Unparsed
  BY <1>1, <1>3, PartsOfParsed DEF ParsedFits, Unparsed
<1> QED
  BY <1>2, <1>3

\* A valid result whose identity is its value's speaks of the document, one field
\* apart, which is not the value.
LEMMA FittingParsed ==
  ASSUME NEW d \in Documents, NEW p, p = ParsedResult(d) \/ p \in WrongParsed(ParsedResult(d)),
         ParsedFits(p), p.state = "valid", p.identity = p.value
  PROVE  p.value = {d} /\ ParsedRecord(p)
<1>1. PICK q : q = ParsedResult(d)
  OBVIOUS
<1>2. /\ q.state = IF d.kind \in Unparsed THEN d.kind ELSE "valid"
      /\ q.identity = IF d.kind \in Unparsed THEN {} ELSE {d}
      /\ q.value = q.identity
      /\ ParsedRecord(q)
  BY <1>1, PartsOfParsed
<1>3. p.value # {} /\ p.identity # {}
  BY DEF ParsedFits
<1>4. \/ p = q \/ (\E x : p = [q EXCEPT !.state = x]) \/ (\E x : p = [q EXCEPT !.hash = x])
      \/ (\E x : p = [q EXCEPT !.identity = x]) \/ (\E x : p = [q EXCEPT !.value = x])
      \/ (\E x : p = [q EXCEPT !.diagnostics = x])
  BY <1>1, Zenon DEF WrongParsed
<1>5. ParsedRecord(p)
  BY <1>2, <1>4 DEF ParsedRecord
<1>6. (p.value = q.value) \/ (p.identity = q.identity)
  BY <1>2, <1>4 DEF ParsedRecord
<1> QED
  BY <1>2, <1>3, <1>5, <1>6

-----------------------------------------------------------------------------
\* Which findings there are.
LEMMA FindingKinds ==
  ASSUME NEW d \in Documents, NEW a, a = d.approval
  PROVE  /\ Findings(a) \cap {"keys", "schema", "content"} = {}
         /\ ("declared" \in Findings(a)) <=> (a.declared = {})
         /\ ("mismatch" \in Findings(a)) <=> (a.declared \notin {{}, {a.content}})
         /\ ~Usable(a.content.version) => "version" \in Findings(a)
<1>1. ContentFindings(a.content) \subseteq {"version", "provenance", "id", "duplicate_id"}
  BY DEF ContentFindings
<1>2. AliasFindings(a.content) \subseteq {"alias", "duplicate_alias", "collision"}
  BY DEF AliasFindings
<1>3. PermissionFindings(a.content) \subseteq {"implicit_or_wildcard", "unknown_role", "permission", "duplicate_permission"}
  <2>1. \A p \in PermissionPlaces(a.content) : PermissionAt(a.content, p) \in GoodPermissions \cup DOMAIN PermissionFinding
    BY ApprovalAssumption DEF DocumentsAssumption
  <2>2. \A x \in DOMAIN PermissionFinding : PermissionFinding[x] \in {"implicit_or_wildcard", "unknown_role", "permission"}
    BY DEF PermissionFinding
  <2> QED
    BY <2>1, <2>2 DEF PermissionFindings
<1>4. ~Usable(a.content.version) => "version" \in ContentFindings(a.content)
  BY DEF ContentFindings
<1>5. PICK c, l, m : c = ContentFindings(a.content) /\ l = AliasFindings(a.content) /\ m = PermissionFindings(a.content)
  OBVIOUS
<1>6. Findings(a) = (IF a.declared = {} THEN {"declared"} ELSE {}) \cup c \cup l \cup m
                      \cup (IF a.declared \notin {{}, {a.content}} THEN {"mismatch"} ELSE {})
  BY <1>5 DEF Findings
<1>7. PICK f : f = Findings(a)
  OBVIOUS
<1>8. \A x : x \in f <=> ((x = "declared" /\ a.declared = {}) \/ x \in c \/ x \in l \/ x \in m
                          \/ (x = "mismatch" /\ a.declared \notin {{}, {a.content}}))
  BY <1>6, <1>7
<1>9. /\ "keys" \notin f /\ "schema" \notin f /\ "content" \notin f
      /\ ("declared" \in f) <=> (a.declared = {})
      /\ ("mismatch" \in f) <=> (a.declared \notin {{}, {a.content}})
      /\ ~Usable(a.content.version) => "version" \in f
  BY <1>1, <1>2, <1>3, <1>4, <1>5, <1>8
<1> QED
  BY <1>7, <1>9

LEMMA DiagnosticIsADefect ==
  ASSUME NEW a, a.defects \subseteq Defects, a.defects # {}
  PROVE  StructuralDiagnostic(a) \in Defects
<1>1. DefectPlaces(a) \subseteq Nat /\ DefectPlaces(a) # {} /\ DefectPlaces(a) \subseteq DOMAIN StructuralOrder
  BY DEF DefectPlaces, Defects, StructuralOrder
<1>2. \E i \in DefectPlaces(a) : \A j \in DefectPlaces(a) : i <= j
  <2>1. PICK i \in DefectPlaces(a) : \A j \in DefectPlaces(a) : ~(<<j, i>> \in OpToRel(<, Nat))
    BY <1>1, NatLessThanWellFounded, WFMin
  <2>2. \A j \in Nat : j < i => <<j, i>> \in OpToRel(<, Nat)
    BY <1>1 DEF OpToRel
  <2>3. \A j \in DefectPlaces(a) : ~(j < i)
    BY <1>1, <2>1, <2>2
  <2> QED
    BY <1>1, <2>3
<1>3. (CHOOSE i \in DefectPlaces(a) : \A j \in DefectPlaces(a) : i <= j) \in DefectPlaces(a)
  BY <1>2
<1> QED
  BY <1>1, <1>3 DEF StructuralDiagnostic, Defects

LEMMA PartsOfObject ==
  ASSUME NEW a
  PROVE  LET q == ObjectResult(a) IN
         /\ ObjectRecord(q)
         /\ a.defects # {} => /\ q.state = "structurally_invalid" /\ q.diagnostics = {StructuralDiagnostic(a)}
                              /\ ClaimsOf(q) = NoClaims /\ q.canonical = {}
         /\ a.defects = {} => /\ q.state = IF Findings(a) # {} THEN "semantically_invalid"
                                           ELSE IF Len(a.content.sources) = 0 THEN "valid_empty" ELSE "valid_nonempty"
                              /\ q.diagnostics = Findings(a) /\ ClaimsOf(q) = Claims(a)
                              /\ q.version = IF Usable(a.content.version) THEN {a.content.version} ELSE {}
                              /\ q.declared = a.declared /\ q.canonical = {a.content} /\ q.count = {Len(a.content.sources)}
                              /\ q.matches = IF a.declared = {} THEN {} ELSE {a.declared = {a.content}}
<1>1. PICK q : q = ObjectResult(a)
  OBVIOUS
<1>2. ObjectRecord(q)
  BY <1>1 DEF ObjectRecord, ObjectResult
<1>3. CASE a.defects # {}
  <2>1. /\ q.state = "structurally_invalid" /\ q.diagnostics = {StructuralDiagnostic(a)}
        /\ q.version = {} /\ q.declared = {} /\ q.canonical = {} /\ q.matches = {} /\ q.count = {}
    BY <1>1, <1>3 DEF ObjectResult, NoClaims
  <2> QED
    BY <1>1, <1>2, <1>3, <2>1 DEF ClaimsOf, NoClaims
<1>4. CASE a.defects = {}
  <2>1. PICK c : c = Claims(a)
    OBVIOUS
  <2>2. /\ c.version = IF Usable(a.content.version) THEN {a.content.version} ELSE {}
        /\ c.declared = a.declared /\ c.canonical = {a.content} /\ c.count = {Len(a.content.sources)}
        /\ c.matches = IF a.declared = {} THEN {} ELSE {a.declared = {a.content}}
        /\ c = [version |-> c.version, declared |-> c.declared, canonical |-> c.canonical, matches |-> c.matches, count |-> c.count]
    BY <2>1 DEF Claims, Digest
  <2>3. /\ q.state = IF Findings(a) # {} THEN "semantically_invalid"
                     ELSE IF Len(a.content.sources) = 0 THEN "valid_empty" ELSE "valid_nonempty"
        /\ q.diagnostics = Findings(a)
        /\ q.version = c.version /\ q.declared = c.declared /\ q.canonical = c.canonical /\ q.matches = c.matches /\ q.count = c.count
    BY <1>1, <1>4, <2>1 DEF ObjectResult
  <2>4. ClaimsOf(q) = c
    BY <2>2, <2>3 DEF ClaimsOf
  <2> QED
    BY <1>1, <1>2, <1>4, <2>1, <2>2, <2>3, <2>4
<1> QED
  BY <1>3, <1>4

LEMMA HonestObjectFits ==
  ASSUME NEW d \in Documents
  PROVE  ObjectFits(ObjectResult(d.approval)) /\ ObjectSpeaksOf(ObjectResult(d.approval), d)
<1>1. PICK a, q : a = d.approval /\ q = ObjectResult(a)
  OBVIOUS
<1>2. a.defects \subseteq Defects
  BY <1>1, ApprovalAssumption DEF DocumentsAssumption
<1>3. CASE a.defects # {}
  <2>1. q.state = "structurally_invalid" /\ ClaimsOf(q) = NoClaims /\ q.diagnostics = {StructuralDiagnostic(a)}
    BY <1>1, <1>3, PartsOfObject
  <2> QED
    BY <1>1, <1>2, <1>3, <2>1, DiagnosticIsADefect DEF ObjectFits, ObjectSpeaksOf
<1>4. CASE a.defects = {}
  <2>1. /\ q.state = IF Findings(a) # {} THEN "semantically_invalid"
                     ELSE IF Len(a.content.sources) = 0 THEN "valid_empty" ELSE "valid_nonempty"
        /\ q.diagnostics = Findings(a) /\ ClaimsOf(q) = Claims(a)
        /\ q.version = IF Usable(a.content.version) THEN {a.content.version} ELSE {}
        /\ q.declared = a.declared /\ q.canonical = {a.content} /\ q.count = {Len(a.content.sources)}
        /\ q.matches = IF a.declared = {} THEN {} ELSE {a.declared = {a.content}}
    BY <1>1, <1>4, PartsOfObject
  <2>2. /\ Findings(a) \cap {"keys", "schema", "content"} = {}
        /\ ("declared" \in Findings(a)) <=> (a.declared = {})
        /\ ("mismatch" \in Findings(a)) <=> (a.declared \notin {{}, {a.content}})
        /\ ~Usable(a.content.version) => "version" \in Findings(a)
    BY <1>1, FindingKinds
  <2>3. ObjectSpeaksOf(q, d)
    BY <1>1, <1>4, <2>1 DEF ObjectSpeaksOf
  <2>4. CASE Findings(a) # {}
    <3>1. q.state = "semantically_invalid" /\ q.diagnostics # {} /\ q.canonical # {} /\ q.count # {}
      BY <2>1, <2>4
    <3>2. q.diagnostics \cap {"keys", "schema", "content"} = {} /\ (q.version = {} => "version" \in q.diagnostics)
      BY <2>1, <2>2
    <3>3. CASE a.declared = {}
      <4>1. q.declared = {} /\ q.matches = {} /\ "declared" \in q.diagnostics /\ "mismatch" \notin q.diagnostics
        BY <2>1, <2>2, <3>3
      <4>2. /\ q.state = "semantically_invalid"
            /\ q.diagnostics # {} /\ q.diagnostics \cap {"keys", "schema", "content"} = {}
            /\ q.canonical # {} /\ q.count # {}
            /\ q.version = {} => "version" \in q.diagnostics
            /\ IF q.declared = {}
               THEN q.matches = {} /\ "declared" \in q.diagnostics /\ "mismatch" \notin q.diagnostics
               ELSE /\ "declared" \notin q.diagnostics
                    /\ q.matches = {q.declared = q.canonical}
                    /\ ("mismatch" \in q.diagnostics) <=> (q.matches = {FALSE})
        BY <3>1, <3>2, <4>1
      <4> QED
        BY <1>1, <2>3, <4>2 DEF ObjectFits
    <3>4. CASE a.declared # {}
      <4>1. "declared" \notin q.diagnostics /\ q.matches = {a.declared = {a.content}}
        BY <2>1, <2>2, <3>4
      <4>2. q.matches = {q.declared = q.canonical}
        BY <2>1, <4>1
      <4>3. ("mismatch" \in q.diagnostics) <=> (q.matches = {FALSE})
        <5>1. CASE a.declared = {a.content}
          <6>1. (a.declared = {a.content}) = TRUE
            BY <5>1
          <6>2. q.matches = {TRUE}
            BY <4>1, <6>1
          <6> QED
            BY <2>1, <2>2, <5>1, <6>2
        <5>2. CASE a.declared # {a.content}
          <6>1. (a.declared = {a.content}) = FALSE
            BY <5>2
          <6>2. q.matches = {FALSE}
            BY <4>1, <6>1
          <6> QED
            BY <2>1, <2>2, <3>4, <5>2, <6>2
        <5> QED
          BY <5>1, <5>2
      <4> QED
        <5>1. q.declared # {}
          BY <2>1, <3>4
        <5>2. /\ q.state = "semantically_invalid"
              /\ q.diagnostics # {} /\ q.diagnostics \cap {"keys", "schema", "content"} = {}
              /\ q.canonical # {} /\ q.count # {}
              /\ q.version = {} => "version" \in q.diagnostics
              /\ IF q.declared = {}
                 THEN q.matches = {} /\ "declared" \in q.diagnostics /\ "mismatch" \notin q.diagnostics
                 ELSE /\ "declared" \notin q.diagnostics
                      /\ q.matches = {q.declared = q.canonical}
                      /\ ("mismatch" \in q.diagnostics) <=> (q.matches = {FALSE})
          BY <3>1, <3>2, <4>1, <4>2, <4>3, <5>1, Zenon
        <5> QED
          BY <1>1, <2>3, <5>2 DEF ObjectFits
    <3> QED
      BY <1>1, <2>3, <3>3, <3>4
  <2>5. CASE Findings(a) = {}
    <3>1. a.declared = {a.content} /\ Usable(a.content.version)
      BY <2>2, <2>5
    <3>2. q.version # {} /\ q.canonical # {} /\ q.declared = q.canonical /\ q.diagnostics = {} /\ q.count # {}
      BY <2>1, <2>5, <3>1
    <3>3. q.matches = {TRUE}
      <4>1. (a.declared = {a.content}) = TRUE
        BY <3>1
      <4> QED
        BY <2>1, <3>1, <4>1
    <3>4. q.state \in {"valid_empty", "valid_nonempty"} /\ ((q.state = "valid_empty") <=> (q.count = {0}))
      BY <2>1, <2>5
    <3> QED
      BY <1>1, <2>3, <3>2, <3>3, <3>4 DEF ObjectFits
  <2> QED
    BY <2>4, <2>5
<1> QED
  BY <1>3, <1>4

\* The object result of an artifact that may be bound is the right one: it is not
\* enough that one field is wrong.
LEMMA FittingObject ==
  ASSUME NEW d \in Documents, NEW o, o = ObjectResult(d.approval) \/ o \in WrongObject(ObjectResult(d.approval)),
         ObjectFits(o), ObjectSpeaksOf(o, d), o.state \in Eligible
  PROVE  o = ObjectResult(d.approval)
<1>1. PICK a, q : a = d.approval /\ q = ObjectResult(a)
  OBVIOUS
<1>2. \/ o = q \/ (\E x : o = [q EXCEPT !.state = x]) \/ (\E x : o = [q EXCEPT !.version = x])
      \/ (\E x : o = [q EXCEPT !.declared = x]) \/ (\E x : o = [q EXCEPT !.canonical = x])
      \/ (\E x : o = [q EXCEPT !.matches = x]) \/ (\E x : o = [q EXCEPT !.count = x])
      \/ (\E x : o = [q EXCEPT !.diagnostics = x])
  BY <1>1, Zenon DEF WrongObject
<1>3. ObjectRecord(q)
  BY <1>1, PartsOfObject
<1>4. ObjectRecord(o)
  BY <1>2, <1>3 DEF ObjectRecord
<1>5. /\ o.diagnostics = {} /\ ((o.state = "valid_empty") <=> (o.count = {0}))
      /\ o.state # "structurally_invalid"
  BY DEF ObjectFits, Eligible
<1>6. PICK c : c = Claims(a)
  OBVIOUS
<1>7. c.canonical = {a.content} /\ c.count = {Len(a.content.sources)}
  BY <1>6 DEF Claims, Digest
<1>8. ClaimsOf(o) = c
  BY <1>1, <1>5, <1>6 DEF ObjectSpeaksOf
<1>9. o.version = c.version /\ o.declared = c.declared /\ o.canonical = c.canonical /\ o.matches = c.matches /\ o.count = c.count
  BY <1>8 DEF ClaimsOf
<1>10. a.defects = {}
  <2>1. SUFFICES ASSUME a.defects # {} PROVE FALSE
    OBVIOUS
  <2>2. ClaimsOf(q) = NoClaims
    BY <1>1, <2>1, PartsOfObject
  <2>3. q.canonical = {} /\ q.count = {}
    BY <2>2 DEF ClaimsOf, NoClaims
  <2>4. (o.canonical = q.canonical) \/ (o.count = q.count)
    BY <1>2, <1>3, <1>4 DEF ObjectRecord
  <2> QED
    BY <1>7, <1>9, <2>3, <2>4
<1>11. /\ q.state = IF Findings(a) # {} THEN "semantically_invalid"
                    ELSE IF Len(a.content.sources) = 0 THEN "valid_empty" ELSE "valid_nonempty"
       /\ q.diagnostics = Findings(a) /\ ClaimsOf(q) = c
  BY <1>1, <1>6, <1>10, PartsOfObject
<1>12. q.version = c.version /\ q.declared = c.declared /\ q.canonical = c.canonical /\ q.matches = c.matches /\ q.count = c.count
  BY <1>11 DEF ClaimsOf
<1>13. (o.state = q.state) \/ (o.diagnostics = q.diagnostics)
  BY <1>2, <1>3, <1>4 DEF ObjectRecord
<1>14. o.state = q.state /\ o.diagnostics = q.diagnostics
  <2>1. PICK f, n : f = Findings(a) /\ n = Len(a.content.sources)
    OBVIOUS
  <2>2. q.state = IF f # {} THEN "semantically_invalid" ELSE IF n = 0 THEN "valid_empty" ELSE "valid_nonempty"
    BY <1>11, <2>1, Zenon
  <2>3. q.diagnostics = f /\ o.count = {n}
    BY <1>7, <1>9, <1>11, <2>1
  <2>4. o.state = "valid_empty" \/ o.state = "valid_nonempty"
    BY DEF Eligible
  <2>5. f = {}
    BY <1>5, <1>13, <2>2, <2>3, <2>4
  <2>6. (o.count = {0}) <=> (n = 0)
    BY <2>3
  <2> QED
    BY <1>5, <2>2, <2>3, <2>4, <2>5, <2>6
<1> QED
  BY <1>1, <1>3, <1>4, <1>9, <1>12, <1>14 DEF ObjectRecord

\* In an approval without findings no two sources answer to one spelling.
LEMMA WithoutFindingsNamesResolve ==
  ASSUME NEW a, Findings(a) = {}
  PROVE  NamesResolve(a.content)
<1>1. PICK c : c = a.content
  OBVIOUS
<1>2. ContentFindings(c) = {} /\ AliasFindings(c) = {}
  BY <1>1, Zenon DEF Findings
<1>3. /\ ValidIds(c) = DOMAIN c.sources
      /\ \A i, j \in ValidIds(c) : i # j => c.sources[i].id # c.sources[j].id
  BY <1>2 DEF ContentFindings
<1>4. /\ \A p \in AliasPlaces(c) : AliasAt(c, p) \in DOMAIN LowerCase
      /\ \A p, q \in AliasPlaces(c) : p # q => Lowered(c, p) # Lowered(c, q)
      /\ \A p \in AliasPlaces(c), i \in ValidIds(c) : Lowered(c, p) # c.sources[i].id
  <2> DEFINE valid == {p \in AliasPlaces(c) : AliasAt(c, p) \in DOMAIN LowerCase}
  <2>1. AliasFindings(c) = IF Cardinality(AliasPlaces(c)) > MaxAliases THEN {"alias"}
       ELSE (IF valid # AliasPlaces(c) THEN {"alias"} ELSE {})
            \cup (IF \E p, q \in valid : p # q /\ Lowered(c, p) = Lowered(c, q) THEN {"duplicate_alias"} ELSE {})
            \cup (IF \E p \in valid, i \in ValidIds(c) : Lowered(c, p) = c.sources[i].id THEN {"collision"} ELSE {})
    BY DEF AliasFindings
  <2>2. valid = AliasPlaces(c)
    <3> HIDE DEF valid
    <3> QED
      BY <1>2, <2>1
  <2>3. ~(\E p, q \in valid : p # q /\ Lowered(c, p) = Lowered(c, q))
    <3> HIDE DEF valid
    <3> QED
      BY <1>2, <2>1
  <2>4. ~(\E p \in valid, i \in ValidIds(c) : Lowered(c, p) = c.sources[i].id)
    <3> HIDE DEF valid
    <3> QED
      BY <1>2, <2>1
  <2> QED
    BY <2>2, <2>3, <2>4, Zenon
<1>5. \A i \in DOMAIN c.sources : LowerCase[c.sources[i].id] = c.sources[i].id
  <2>1. \A n \in SourceIds : LowerCase[n] = n
    BY ApprovalAssumption
  <2>2. \A i \in DOMAIN c.sources : c.sources[i].id \in SourceIds
    BY <1>3 DEF ValidIds
  <2> QED
    BY <2>1, <2>2
<1>6. \A i \in DOMAIN c.sources : \A k \in DOMAIN c.sources[i].aliases :
        <<i, k>> \in AliasPlaces(c) /\ Lowered(c, <<i, k>>) = LowerCase[c.sources[i].aliases[k]]
  BY DEF AliasPlaces, Lowered, AliasAt
<1>7. ASSUME NEW i \in DOMAIN c.sources, NEW j \in DOMAIN c.sources, i # j, NEW x \in Spelled(c, i), x \in Spelled(c, j)
      PROVE  FALSE
  <2>1. x = c.sources[i].id \/ (\E k \in DOMAIN c.sources[i].aliases : x = LowerCase[c.sources[i].aliases[k]])
    BY <1>5, <1>7, Zenon DEF Spelled
  <2>2. x = c.sources[j].id \/ (\E k \in DOMAIN c.sources[j].aliases : x = LowerCase[c.sources[j].aliases[k]])
    BY <1>5, <1>7, Zenon DEF Spelled
  <2>3. CASE x = c.sources[i].id /\ x = c.sources[j].id
    BY <1>3, <1>7, <2>3
  <2>4. CASE \E k \in DOMAIN c.sources[i].aliases : x = LowerCase[c.sources[i].aliases[k]] /\ x = c.sources[j].id
    <3>1. PICK k \in DOMAIN c.sources[i].aliases : x = LowerCase[c.sources[i].aliases[k]] /\ x = c.sources[j].id
      BY <2>4
    <3>2. <<i, k>> \in AliasPlaces(c) /\ Lowered(c, <<i, k>>) = c.sources[j].id /\ j \in ValidIds(c)
      BY <1>3, <1>6, <3>1
    <3> QED
      BY <1>4, <3>2
  <2>5. CASE \E k \in DOMAIN c.sources[j].aliases : x = LowerCase[c.sources[j].aliases[k]] /\ x = c.sources[i].id
    <3>1. PICK k \in DOMAIN c.sources[j].aliases : x = LowerCase[c.sources[j].aliases[k]] /\ x = c.sources[i].id
      BY <2>5
    <3>2. <<j, k>> \in AliasPlaces(c) /\ Lowered(c, <<j, k>>) = c.sources[i].id /\ i \in ValidIds(c)
      BY <1>3, <1>6, <3>1
    <3> QED
      BY <1>4, <3>2
  <2>6. CASE \E k \in DOMAIN c.sources[i].aliases, l \in DOMAIN c.sources[j].aliases :
               x = LowerCase[c.sources[i].aliases[k]] /\ x = LowerCase[c.sources[j].aliases[l]]
    <3>1. PICK k \in DOMAIN c.sources[i].aliases, l \in DOMAIN c.sources[j].aliases :
               x = LowerCase[c.sources[i].aliases[k]] /\ x = LowerCase[c.sources[j].aliases[l]]
      BY <2>6
    <3>2. <<i, k>> # <<j, l>> /\ <<i, k>> \in AliasPlaces(c) /\ <<j, l>> \in AliasPlaces(c)
      BY <1>6, <1>7
    <3>3. Lowered(c, <<i, k>>) = x /\ Lowered(c, <<j, l>>) = x
      BY <1>6, <3>1
    <3> QED
      BY <1>4, <3>2, <3>3
  <2> QED
    BY <2>1, <2>2, <2>3, <2>4, <2>5, <2>6
<1> QED
  BY <1>1, <1>7, Zenon DEF NamesResolve

LEMMA EligibleIsValid ==
  ASSUME NEW d \in Documents, ObjectResult(d.approval).state \in Eligible
  PROVE  d.approval.defects = {} /\ Findings(d.approval) = {} /\ NamesResolve(d.approval.content)
<1>1. PICK a, q : a = d.approval /\ q = ObjectResult(a)
  OBVIOUS
<1>2. a.defects = {}
  BY <1>1, PartsOfObject DEF Eligible
<1>3. Findings(a) = {}
  BY <1>1, <1>2, PartsOfObject DEF Eligible
<1> QED
  BY <1>1, <1>2, <1>3, WithoutFindingsNamesResolve

-----------------------------------------------------------------------------
LEMMA PassedOnIsRecord ==
  ASSUME PassedOn
  PROVE  ParsedRecord(parsed)
<1>1. PICK q : q = ParsedResult(document)
  OBVIOUS
<1>2. ParsedRecord(q)
  BY <1>1, PartsOfParsed
<1>3. \/ parsed = q \/ (\E x : parsed = [q EXCEPT !.state = x]) \/ (\E x : parsed = [q EXCEPT !.hash = x])
      \/ (\E x : parsed = [q EXCEPT !.identity = x]) \/ (\E x : parsed = [q EXCEPT !.value = x])
      \/ (\E x : parsed = [q EXCEPT !.diagnostics = x])
  BY <1>1, Zenon DEF WrongParsed, PassedOn
<1> QED
  BY <1>2, <1>3 DEF ParsedRecord

LEMMA ObjectStateOf ==
  ASSUME NEW a
  PROVE  /\ ArtifactState(ObjectResult(a)) \in ObjectStates
         /\ ArtifactState(ObjectResult(a)) \in Eligible => ObjectResult(a).state = ArtifactState(ObjectResult(a))
         /\ ArtifactState(ObjectResult(a)) \notin Eligible => ObjectResult(a).diagnostics # {}
<1>1. PICK q : q = ObjectResult(a)
  OBVIOUS
<1>2. CASE a.defects # {}
  <2>1. q.state = "structurally_invalid" /\ q.diagnostics # {}
    BY <1>1, <1>2, PartsOfObject
  <2> QED
    BY <1>1, <2>1 DEF ArtifactState, ObjectStates, Eligible
<1>3. CASE a.defects = {}
  <2>1. /\ q.diagnostics # {} /\ q.state = "semantically_invalid"
        \/ q.state \in {"valid_empty", "valid_nonempty"}
    BY <1>1, <1>3, PartsOfObject
  <2> QED
    BY <1>1, <2>1 DEF ArtifactState, ObjectStates, Eligible
<1> QED
  BY <1>2, <1>3

\* With nothing wrong the binder finds nothing wrong.
LEMMA HonestArtifactFits ==
  ASSUME document \in Documents, Honest
  PROVE  ArtifactFits(composed) /\ IdentityStands(composed)
<1>1. PICK p : p = ParsedResult(document)
  OBVIOUS
<1>2. /\ p.state = IF document.kind \in Unparsed THEN document.kind ELSE "valid"
      /\ p.value = IF document.kind \in Unparsed THEN {} ELSE {document}
  BY <1>1, PartsOfParsed
<1>3. composed.parser = p /\ HeldParsedFits(composed)
  BY <1>1, HonestParsedFits DEF Honest, HeldParsedFits
<1>4. CASE composed.state \in {"absent", "type"} /\ document.kind = composed.state /\ composed.object = {} /\ composed.identity = {}
  BY <1>2, <1>3, <1>4 DEF ArtifactFits, HeldObjectFits, IdentityStands, ObjectStates, Unparsed, Unhashed
<1>5. CASE composed.state = "raw_parse_invalid" /\ document.kind \in {"size", "broken"} /\ composed.object = {} /\ composed.identity = {}
  BY <1>2, <1>3, <1>5 DEF ArtifactFits, HeldObjectFits, IdentityStands, ObjectStates, Unparsed, Unhashed
<1>6. CASE composed.state = "root_type_invalid" /\ document.kind = "list" /\ composed.object = {} /\ composed.identity = {}
  BY <1>2, <1>3, <1>6 DEF ArtifactFits, HeldObjectFits, IdentityStands, ObjectStates, Unparsed, Unhashed
<1>7. CASE /\ document.kind = "object" /\ composed.object = {ObjectResult(document.approval)}
           /\ composed.state = ArtifactState(ObjectResult(document.approval))
           /\ composed.identity = {IdentityRecord(composed)}
  <2>1. HeldObjectFits(composed)
    BY <1>7, HonestObjectFits DEF HeldObjectFits
  <2>2. composed.state \in ObjectStates
    BY <1>7, ObjectStateOf
  <2>3. p.state = "valid" /\ p.value = {document}
    BY <1>2, <1>7 DEF Unparsed, Unhashed
  <2> QED
    BY <1>3, <1>7, <2>1, <2>2, <2>3 DEF ArtifactFits, IdentityStands, ObjectStates
<1> QED
  BY <1>4, <1>5, <1>6, <1>7 DEF Honest

LEMMA ApprovalStarts ==
  ASSUME ApprovalInit
  PROVE  ApprovalInv
BY DEF ApprovalInit, ApprovalInv

LEMMA HandOverKeeps ==
  ASSUME ApprovalInv, HandOver
  PROVE  ApprovalInv'
<1>1. document' \in Documents /\ stage' = "compose" /\ bound'.state = "none" /\ fault = "nowhere"
  BY DEF ApprovalInv, HandOver
<1>2. PICK p : /\ Handed(p, ParsedResult(document), WrongParsed(ParsedResult(document)), "parser")
               /\ parsed' = p
  BY DEF HandOver
<1>3. document' = document
  BY DEF HandOver
<1>4. PassedOn'
  BY <1>1, <1>2, <1>3 DEF PassedOn, Handed
<1> QED
  BY <1>1, <1>4 DEF ApprovalInv

LEMMA ComposeEarlyKeeps ==
  ASSUME document \in Documents, bound.state = "none", PassedOn, UNCHANGED <<document, parsed, bound>>,
         NEW state, ComposeEarly(state), state \notin ObjectStates,
         parsed = ParsedResult(document) =>
           \/ state \in {"absent", "type"} /\ document.kind = state
           \/ state = "raw_parse_invalid" /\ document.kind \in {"size", "broken"}
           \/ state = "root_type_invalid" /\ document.kind = "list"
  PROVE  ApprovalInv'
<1>1. /\ composed' = [state |-> state, parser |-> parsed, object |-> {}, identity |-> {}]
      /\ held' = composed' /\ stage' = "bind" /\ fault' = fault
  BY DEF ComposeEarly
<1>2. /\ composed'.state = state /\ composed'.parser = parsed /\ composed'.object = {} /\ composed'.identity = {}
      /\ ArtifactRecord(composed)'
  BY <1>1 DEF ArtifactRecord
<1>3. ParsedRecord(composed.parser)'
  BY <1>2, PassedOnIsRecord DEF ParsedRecord
<1>4. fault' # "held" /\ (fault' = "nowhere" => parsed = ParsedResult(document))
  BY <1>1 DEF PassedOn
<1>5. ParsedResult(document)' = ParsedResult(document)
  BY DEF ParsedResult, Digest
<1>6. (fault = "nowhere" => Honest)'
  <2>1. SUFFICES ASSUME fault' = "nowhere" PROVE Honest'
    OBVIOUS
  <2> QED
    BY <1>2, <1>4, <1>5, <2>1 DEF Honest
<1>7. state \notin Eligible
  BY DEF ObjectStates, Eligible
<1>8. Composed'
  BY <1>1, <1>2, <1>3, <1>4, <1>6, <1>7 DEF Composed
<1> QED
  BY <1>1, <1>8 DEF ApprovalInv

LEMMA ComposeWholeKeeps ==
  ASSUME document \in Documents, document.kind = "object", bound.state = "none", PassedOn, ParsedFits(parsed),
         UNCHANGED <<document, parsed, bound>>, ComposeWhole(document)
  PROVE  ApprovalInv'
<1>1. PICK q : q = ObjectResult(document.approval)
  OBVIOUS
<1>2. PICK o \in {q} \cup WrongObject(q) :
        /\ Handed(o, q, WrongObject(q), "object")
        /\ IF ObjectFits(o) /\ ObjectSpeaksOf(o, document)
           THEN LET h == [state |-> ArtifactState(o), parser |-> parsed, object |-> {o}, identity |-> {}]
                IN /\ composed' = [h EXCEPT !.identity = Digest(IdentityRecord(h))]
                   /\ held' = composed'
                   /\ stage' = "bind"
           ELSE Raise
  BY <1>1 DEF ComposeWhole
<1>3. fault' # "held" /\ (fault' = "nowhere" => o = q /\ parsed = ParsedResult(document))
  BY <1>2 DEF PassedOn, Handed
<1>4. CASE ~(ObjectFits(o) /\ ObjectSpeaksOf(o, document))
  <2>1. stage' = "raised"
    BY <1>2, <1>4 DEF Raise
  <2>2. fault' # "nowhere"
    BY <1>1, <1>3, <1>4, HonestObjectFits
  <2> QED
    BY <2>1, <2>2 DEF ApprovalInv
<1>5. CASE ObjectFits(o) /\ ObjectSpeaksOf(o, document)
  <2>1. PICK h : h = [state |-> ArtifactState(o), parser |-> parsed, object |-> {o}, identity |-> {}]
    OBVIOUS
  <2>2. composed' = [h EXCEPT !.identity = Digest(IdentityRecord(h))] /\ held' = composed' /\ stage' = "bind"
    BY <1>2, <1>5, <2>1
  <2>3. /\ composed'.state = ArtifactState(o) /\ composed'.parser = parsed /\ composed'.object = {o}
        /\ composed'.identity = {IdentityRecord(h)} /\ ArtifactRecord(composed)'
    BY <2>1, <2>2 DEF ArtifactRecord, Digest
  <2>4. IdentityRecord(composed)' = IdentityRecord(h)
    BY <2>1, <2>3 DEF IdentityRecord
  <2>5. ParsedRecord(composed.parser)'
    BY <2>3, PassedOnIsRecord DEF ParsedRecord
  <2>6. ArtifactState(o) \in Eligible => (o = q /\ q.state = ArtifactState(o))
    <3>1. SUFFICES ASSUME ArtifactState(o) \in Eligible PROVE o = q /\ q.state = ArtifactState(o)
      OBVIOUS
    <3>2. o.state = ArtifactState(o)
      BY <3>1 DEF ArtifactState, Eligible
    <3>3. o = q
      BY <1>1, <1>2, <1>5, <3>1, <3>2, FittingObject
    <3> QED
      BY <3>2, <3>3
  <2>7. /\ ObjectResult(document.approval)' = q
        /\ ParsedResult(document)' = ParsedResult(document)
        /\ document' = document
    BY <1>1
  <2>8. (fault = "nowhere" => Honest)'
    <3>1. SUFFICES ASSUME fault' = "nowhere" PROVE Honest'
      OBVIOUS
    <3>2. composed'.identity = {IdentityRecord(composed)'}
      BY <2>3, <2>4
    <3>3. ArtifactState(ObjectResult(document.approval))' = ArtifactState(o)
      BY <1>3, <2>7, <3>1
    <3> QED
      BY <1>3, <2>3, <2>7, <3>1, <3>2, <3>3 DEF Honest
  <2>9. Composed'
    BY <1>3, <2>2, <2>3, <2>4, <2>5, <2>6, <2>7, <2>8 DEF Composed
  <2> QED
    BY <2>2, <2>9 DEF ApprovalInv
<1> QED
  BY <1>4, <1>5

LEMMA ComposeArtifactKeeps ==
  ASSUME ApprovalInv, ComposeArtifact
  PROVE  ApprovalInv'
<1>1. document \in Documents /\ bound.state = "none" /\ PassedOn /\ UNCHANGED <<document, parsed, bound>>
  BY DEF ApprovalInv, ComposeArtifact
<1>2. PICK q : q = ParsedResult(document)
  OBVIOUS
<1>3. /\ q.state = IF document.kind \in Unparsed THEN document.kind ELSE "valid"
      /\ q.identity = IF document.kind \in Unparsed THEN {} ELSE {document}
      /\ q.value = q.identity
  BY <1>2, PartsOfParsed
<1>4. document.kind \in {"absent", "type", "size", "broken", "list", "object"}
  BY <1>1, DocumentKinds
<1>5. CASE ~ParsedFits(parsed) /\ Raise /\ fault' = fault
  <2>1. fault # "nowhere"
    BY <1>1, <1>5, HonestParsedFits DEF PassedOn
  <2> QED
    BY <1>1, <1>5, <2>1 DEF ApprovalInv, Raise
<1>6. CASE ParsedFits(parsed) /\ parsed.state \in {"absent", "type"} /\ ComposeEarly(parsed.state)
  <2>1. parsed.state \notin ObjectStates
    BY <1>6 DEF ObjectStates
  <2>2. parsed = q => document.kind = parsed.state
    BY <1>3, <1>6
  <2> QED
    BY <1>1, <1>2, <1>6, <2>1, <2>2, ComposeEarlyKeeps
<1>7. CASE ParsedFits(parsed) /\ parsed.state \in {"size", "broken"} /\ ComposeEarly("raw_parse_invalid")
  <2>1. "raw_parse_invalid" \notin ObjectStates
    BY DEF ObjectStates
  <2>2. parsed = q => document.kind \in {"size", "broken"}
    BY <1>3, <1>7
  <2> QED
    BY <1>1, <1>2, <1>7, <2>1, <2>2, ComposeEarlyKeeps
<1>8. CASE /\ ParsedFits(parsed) /\ parsed.state = "valid"
           /\ \E v \in parsed.value : v.kind # "object" /\ ComposeEarly("root_type_invalid")
  <2>1. "root_type_invalid" \notin ObjectStates
    BY DEF ObjectStates
  <2>2. parsed = q => document.kind = "list"
    BY <1>3, <1>4, <1>8 DEF Unparsed, Unhashed
  <2> QED
    BY <1>1, <1>2, <1>8, <2>1, <2>2, ComposeEarlyKeeps
<1>9. CASE /\ ParsedFits(parsed) /\ parsed.state = "valid"
           /\ \E v \in parsed.value : ~IdentityIsOfValue /\ ComposeEarly("parsed_identity_invalid")
  <2>1. "parsed_identity_invalid" \notin ObjectStates
    BY DEF ObjectStates
  <2>2. parsed # q
    BY <1>3, <1>9 DEF IdentityIsOfValue
  <2> QED
    BY <1>1, <1>2, <1>9, <2>1, <2>2, ComposeEarlyKeeps
<1>10. CASE /\ ParsedFits(parsed) /\ parsed.state = "valid"
            /\ \E v \in parsed.value : v.kind = "object" /\ IdentityIsOfValue /\ ComposeWhole(v)
  <2>1. parsed.value = {document}
    BY <1>1, <1>10, FittingParsed DEF IdentityIsOfValue, PassedOn
  <2> QED
    BY <1>1, <1>10, <2>1, ComposeWholeKeeps
<1> QED
  BY <1>5, <1>6, <1>7, <1>8, <1>9, <1>10, Zenon DEF ComposeArtifact

LEMMA AlterKeeps ==
  ASSUME ApprovalInv, Alter
  PROVE  ApprovalInv'
<1>1. /\ stage = "bind" /\ fault = "nowhere" /\ fault' = "held" /\ held' \in WrongHeld(held)
      /\ UNCHANGED <<document, stage, parsed, composed, bound>>
  BY DEF Alter
<1>2. document \in Documents /\ bound.state = "none" /\ Composed
  BY <1>1 DEF ApprovalInv
<1>3. held' \in WrongHeld(composed)
  BY <1>1, <1>2 DEF Composed
<1>4. Composed'
  BY <1>1, <1>2, <1>3 DEF Composed
<1> QED
  BY <1>1, <1>2, <1>4 DEF ApprovalInv

\* What may be bound and whose identity stands is what was composed, its value apart.
LEMMA HeldIsAsComposed ==
  ASSUME Composed, held.state \in Eligible, held.identity # {}, IdentityStands(held)
  PROVE  /\ [held EXCEPT !.parser.value = {}] = [composed EXCEPT !.parser.value = {}]
         /\ held.state = composed.state /\ held.identity = composed.identity
<1>1. held.identity = {IdentityRecord(held)}
  BY DEF IdentityStands, ObjectStates, Eligible
<1>2. CASE fault # "held"
  BY <1>2 DEF Composed
<1>3. CASE fault = "held"
  <2>1. ArtifactRecord(composed) /\ held \in WrongHeld(composed) /\ composed.identity \in {{}, {IdentityRecord(composed)}}
    BY <1>3 DEF Composed
  <2>2. \/ (\E x : held = [composed EXCEPT !.state = x]) \/ (\E x : held = [composed EXCEPT !.parser = x])
        \/ (\E x : held = [composed EXCEPT !.object = x]) \/ held = [composed EXCEPT !.identity = {}]
    <3>1. \/ held \in {[composed EXCEPT !.state = s] : s \in {"object_contract_invalid", "valid_empty",
                                                            "valid_nonempty", "raw_parse_invalid"}}
          \/ held \in {[composed EXCEPT !.parser = p] : p \in WrongParsed(composed.parser)}
          \/ composed.object # {} /\ held \in {[composed EXCEPT !.object = {o}] : o \in WrongObject(CHOOSE x \in composed.object : TRUE)}
          \/ held = [composed EXCEPT !.identity = {}]
      BY <2>1 DEF WrongHeld
    <3> QED
      BY <3>1, Zenon
  <2>3. ArtifactRecord(held) /\ (held.identity = composed.identity \/ held.identity = {})
    BY <2>1, <2>2 DEF ArtifactRecord
  <2>4. held.identity = composed.identity /\ composed.identity = {IdentityRecord(composed)}
    BY <2>1, <2>3
  <2>5. IdentityRecord(held) = IdentityRecord(composed)
    BY <1>1, <2>4
  <2>6. /\ held.state = composed.state /\ held.object = composed.object
        /\ [held.parser EXCEPT !.value = {}] = [composed.parser EXCEPT !.value = {}]
    BY <2>5 DEF IdentityRecord
  <2>7. /\ [held EXCEPT !.parser.value = {}] = [held EXCEPT !.parser = [held.parser EXCEPT !.value = {}]]
        /\ [composed EXCEPT !.parser.value = {}] = [composed EXCEPT !.parser = [composed.parser EXCEPT !.value = {}]]
    BY <2>1, <2>3 DEF ArtifactRecord
  <2>8. PICK x : x = [held.parser EXCEPT !.value = {}] /\ x = [composed.parser EXCEPT !.value = {}]
    BY <2>6
  <2>9. [held EXCEPT !.parser = x] = [composed EXCEPT !.parser = x]
    BY <2>1, <2>3, <2>4, <2>6 DEF ArtifactRecord
  <2> QED
    BY <2>4, <2>6, <2>7, <2>8, <2>9
<1> QED
  BY <1>2, <1>3

LEMMA BindKeeps ==
  ASSUME ApprovalInv, Bind
  PROVE  ApprovalInv'
<1>1. /\ stage = "bind" /\ UNCHANGED <<document, fault, parsed, composed, held>>
      /\ document \in Documents /\ bound.state = "none" /\ Composed
  BY DEF ApprovalInv, Bind
<1>2. CASE BindAs([state |-> "input_invalid", expected |-> {}])
  <2>1. stage' = "done" /\ bound'.state = "input_invalid"
    BY <1>2 DEF BindAs
  <2> QED
    BY <1>1, <2>1 DEF ApprovalInv, MatchIsOfValidApproval, HonestIsBound
<1>3. ASSUME NEW expected \in Expectations \ {{}}, NEW chosen,
             chosen = [state |-> Comparison(expected), expected |-> expected],
             ArtifactFits(held) /\ IdentityStands(held) /\ BindingFits(chosen, held), BindAs(chosen)
      PROVE  ApprovalInv'
  <2>1. chosen.state = Comparison(expected) /\ chosen.expected = expected
    BY <1>3
  <2>2. /\ stage' = "done" /\ bound'.state = chosen.state /\ bound'.expected = expected
        /\ bound'.identity = IF chosen.state \in Compared THEN Digest(BindingRecord(chosen, held)) ELSE {}
    BY <1>3, <2>1 DEF BindAs
  <2>3. MatchIsOfValidApproval'
    <3>1. SUFFICES ASSUME bound'.state = "match"
                   PROVE  /\ document'.kind = "object" /\ document'.approval.defects = {} /\ Findings(document'.approval) = {}
                          /\ \A o \in composed'.object : o = ObjectResult(document'.approval)
                          /\ NamesResolve(document'.approval.content)
                          /\ BoundAsComposed'
      BY DEF MatchIsOfValidApproval
    <3>2. held.state \in Eligible /\ held.identity = expected /\ expected # {} /\ chosen.state = "match"
      BY <1>3, <2>1, <2>2, <3>1 DEF Comparison
    <3>3. /\ [held EXCEPT !.parser.value = {}] = [composed EXCEPT !.parser.value = {}]
          /\ held.state = composed.state /\ held.identity = composed.identity
      BY <1>1, <1>3, <3>2, HeldIsAsComposed
    <3>4. /\ document.kind = "object" /\ composed.object = {ObjectResult(document.approval)}
          /\ ObjectResult(document.approval).state = composed.state
      BY <1>1, <3>2, <3>3 DEF Composed
    <3>5. document.approval.defects = {} /\ Findings(document.approval) = {} /\ NamesResolve(document.approval.content)
      BY <1>1, <3>2, <3>3, <3>4, EligibleIsValid
    <3>6. BoundAsComposed'
      <4>1. bound'.identity = Digest(BindingRecord(chosen, held))
        BY <2>2, <3>2 DEF Compared
      <4>2. BindingRecord(chosen, held) = BindingRecord([state |-> "match", expected |-> composed.identity], composed)
        BY <2>1, <3>2, <3>3 DEF BindingRecord
      <4>3. bound'.expected = composed'.identity
        BY <1>1, <2>2, <3>2, <3>3
      <4> QED
        BY <1>1, <3>3, <4>1, <4>2, <4>3 DEF BoundAsComposed
    <3> QED
      BY <1>1, <3>4, <3>5, <3>6
  <2>4. HonestIsBound'
    <3>1. SUFFICES ASSUME fault' = "nowhere", bound'.state \in {"mismatch", "not_valid"}, expected = composed.identity
                   PROVE  ObjectResult(document.approval).diagnostics # {}
      BY <1>1, <2>2 DEF HonestIsBound
    <3>2. Honest /\ held = composed
      BY <1>1, <3>1 DEF Composed
    <3>3. composed.state \notin Eligible
      BY <2>1, <2>2, <3>1, <3>2 DEF Comparison
    <3>4. composed.state = ArtifactState(ObjectResult(document.approval))
      BY <1>3, <3>1, <3>2 DEF Honest
    <3> QED
      BY <3>3, <3>4, ObjectStateOf
  <2> QED
    BY <1>1, <2>2, <2>3, <2>4 DEF ApprovalInv
<1>4. ASSUME NEW expected \in Expectations \ {{}}, NEW chosen,
             chosen = [state |-> Comparison(expected), expected |-> expected],
             ~(ArtifactFits(held) /\ IdentityStands(held) /\ BindingFits(chosen, held)), stage' = "raised" /\ UNCHANGED bound
      PROVE  ApprovalInv'
  <2>1. fault # "nowhere"
    <3>1. SUFFICES ASSUME fault = "nowhere" PROVE FALSE
      OBVIOUS
    <3>2. Honest /\ held = composed
      BY <1>1, <3>1 DEF Composed
    <3>3. ArtifactFits(held) /\ IdentityStands(held)
      BY <1>1, <3>2, HonestArtifactFits
    <3>4. expected # {} /\ chosen.expected = expected /\ chosen.state = Comparison(expected)
      BY <1>4
    <3>5. BindingFits(chosen, held)
      BY <3>4 DEF BindingFits, Comparison, Compared
    <3> QED
      BY <1>4, <3>3, <3>5
  <2> QED
    BY <1>1, <1>4, <2>1 DEF ApprovalInv
<1> QED
  BY <1>2, <1>3, <1>4 DEF Bind

LEMMA ApprovalStutters ==
  ASSUME ApprovalInv, UNCHANGED approving
  PROVE  ApprovalInv'
BY DEF ApprovalInv, approving, PassedOn, Composed, Honest, MatchIsOfValidApproval, HonestIsBound, BoundAsComposed,
       ArtifactRecord, ParsedRecord

\* A binding that matches is of a valid approval with the identity expected, whichever
\* one field was wrong on the way, and an honest approval is bound: for every set of
\* documents, bounds and spellings (validate_..._artifact_bytes, bind_..._expected_identity).
THEOREM ApprovalSafe == ApprovalSpec => []ApprovalSound
<1>1. ApprovalInit => ApprovalInv
  BY ApprovalStarts
<1>2. ApprovalInv /\ [ApprovalNext]_approving => ApprovalInv'
  BY HandOverKeeps, ComposeArtifactKeeps, AlterKeeps, BindKeeps, ApprovalStutters DEF ApprovalNext
<1>3. ApprovalInv => ApprovalSound
  BY DEF ApprovalInv, ApprovalSound, MatchIsOfValidApproval, HonestIsBound
<1> QED
  BY <1>1, <1>2, <1>3, PTL DEF ApprovalSpec

-----------------------------------------------------------------------------
\* The publication of orders.

USE DEF Files, files, history

LEMMA StepTypeOK == TypeOK /\ [Next]_vars => TypeOK'
<1> SUFFICES ASSUME TypeOK, [Next]_vars
             PROVE  TypeOK'
  OBVIOUS
<1> USE DEF TypeOK
<1>1. CASE Parse
  <2>1. accepted' \in BOOLEAN
    BY <1>1 DEF Parse
  <2> QED
    BY <1>1, <2>1 DEF Parse
<1>2. CASE OpenQuarantine
  BY <1>2 DEF OpenQuarantine
<1>3. CASE FillQuarantine
  BY <1>3 DEF FillQuarantine, Advance
<1>4. CASE Accept
  BY <1>4 DEF Accept
<1>5. CASE Reject
  BY <1>5 DEF Reject, End
<1>6. CASE Replace
  BY <1>6 DEF Replace, Advance
<1>7. CASE Cleanup
  BY <1>7 DEF Cleanup, End
<1>8. CASE Crash
  BY <1>8 DEF Crash, End
<1>9. CASE Archive
  BY <1>9 DEF Archive
<1>10. CASE BeginClear
  BY <1>10 DEF BeginClear
<1>11. CASE ClearOne
  BY <1>11 DEF ClearOne
<1>12. CASE EndClear
  BY <1>12 DEF EndClear
<1>13. CASE UNCHANGED vars
  BY <1>13 DEF vars
<1> QED
  BY <1>1, <1>2, <1>3, <1>4, <1>5, <1>6, <1>7, <1>8, <1>9, <1>10, <1>11,
     <1>12, <1>13 DEF Next

\* A canonical file never holds anything but a whole answer.
THEOREM TypeCorrect == Spec => []TypeOK
<1>1. Init => TypeOK
  <2> SUFFICES ASSUME Init PROVE TypeOK
    OBVIOUS
  <2>1. accepted \in BOOLEAN
    BY DEF Init
  <2> QED
    BY <2>1 DEF Init, TypeOK
<1> QED
  BY <1>1, StepTypeOK, PTL DEF Spec

-----------------------------------------------------------------------------
\* How far the running parse has come: which quarantine copies are complete,
\* that what it publishes is what it validated, and which files it replaced.
Progress ==
  /\ pc \notin {"idle", "clear"} => text \in Texts
  /\ pc \in {"open", "fill"} => \A f \in Files : f < next => quarantine[f] = text
  /\ pc = "validate" => \A f \in Files : quarantine[f] = text
  /\ pc \in {"publish", "cleanup"} => text = latest /\ accepted
  /\ pc = "publish" =>
       /\ \A f \in Files : quarantine[f] = latest
       /\ \A f \in Files : f < next => canonical[f] = latest
  /\ pc = "cleanup" =>
       /\ \A f \in Files : canonical[f] = latest
       /\ \A f \in Files : f < next => quarantine[f] = None
  /\ pc \in {"validate", "idle", "clear"} => next = 1
  /\ pc \in {"open", "fill", "validate", "clear"} => ~accepted /\ exit # "ok"

PublishInv == Progress /\ MixedIsRecoverable /\ ExitOkMeansWhole

LEMMA StepPublishInv == TypeOK /\ PublishInv /\ [Next]_vars => PublishInv'
<1> SUFFICES ASSUME TypeOK, PublishInv, [Next]_vars
             PROVE  PublishInv'
  OBVIOUS
<1> USE DEF TypeOK, PublishInv, Progress, MixedIsRecoverable, ExitOkMeansWhole, Mixed
<1>1. CASE Parse
  BY <1>1 DEF Parse
<1>2. CASE OpenQuarantine
  BY <1>2 DEF OpenQuarantine
<1>3. CASE FillQuarantine
  BY <1>3 DEF FillQuarantine, Advance
<1>4. CASE Accept
  BY <1>4 DEF Accept
<1>5. CASE Reject
  BY <1>5 DEF Reject, End
<1>6. CASE Replace
  BY <1>6 DEF Replace, Advance
<1>7. CASE Cleanup
  BY <1>7 DEF Cleanup, End
<1>8. CASE Crash
  BY <1>8 DEF Crash, End
<1>9. CASE Archive
  BY <1>9 DEF Archive
<1>10. CASE BeginClear
  BY <1>10 DEF BeginClear
<1>11. CASE ClearOne
  BY <1>11 DEF ClearOne
<1>12. CASE EndClear
  BY <1>12 DEF EndClear
<1>13. CASE UNCHANGED vars
  BY <1>13 DEF vars
<1> QED
  BY <1>1, <1>2, <1>3, <1>4, <1>5, <1>6, <1>7, <1>8, <1>9, <1>10, <1>11,
     <1>12, <1>13 DEF Next

LEMMA InitPublishInv == Init => PublishInv
  BY TextsAssumption
     DEF Init, PublishInv, Progress, MixedIsRecoverable, ExitOkMeansWhole, Mixed

LEMMA PublishInvAlways == Spec => []PublishInv
  BY InitPublishInv, TypeCorrect, StepPublishInv, PTL DEF Spec

\* Whichever replace an accepted parse dies at, the whole answer it was
\* publishing is still in quarantine.
THEOREM RecoverySafe == Spec => []MixedIsRecoverable
  BY PublishInvAlways, PTL DEF PublishInv

\* A parse that reports success has published one whole answer.
THEOREM ExitSafe == Spec => []ExitOkMeansWhole
  BY PublishInvAlways, PTL DEF PublishInv

\* The three files are one answer, or can be made one from quarantine.
THEOREM PublicationSafe == Spec => []PublicationSound
  BY RecoverySafe, ExitSafe, PTL DEF PublicationSound

-----------------------------------------------------------------------------
LEMMA StepStore ==
  ASSUME TypeOK, PublishInv, [Next]_vars
  PROVE  [Store!Next]_Store!vars
<1> USE DEF TypeOK, PublishInv, Progress, Store!vars
<1>1. CASE Parse
  BY <1>1 DEF Parse
<1>2. CASE OpenQuarantine
  BY <1>2 DEF OpenQuarantine
<1>3. CASE FillQuarantine
  BY <1>3 DEF FillQuarantine, Advance
<1>4. CASE Accept
  BY <1>4 DEF Accept, Store!Next, Store!Validate
<1>5. CASE Reject
  BY <1>5 DEF Reject, End
<1>6. CASE Replace
  <2>1. Store!Replace(next)
    BY <1>6, TextsAssumption DEF Replace, Store!Replace
  <2> QED
    BY <2>1 DEF Store!Next
<1>7. CASE Cleanup
  BY <1>7 DEF Cleanup, End
<1>8. CASE Crash
  BY <1>8 DEF Crash, End
<1>9. CASE Archive
  BY <1>9 DEF Archive, Store!Next, Store!RemoveAll
<1>10. CASE BeginClear
  BY <1>10 DEF BeginClear
<1>11. CASE ClearOne
  <2>1. PICK f \in Files :
          \/ canonical' = [canonical EXCEPT ![f] = None]
          \/ UNCHANGED canonical
    BY <1>11 DEF ClearOne
  <2>2. UNCHANGED latest
    BY <1>11 DEF ClearOne
  <2>3. CASE canonical' = [canonical EXCEPT ![f] = None]
    BY <2>2, <2>3 DEF Store!Next, Store!Remove
  <2> QED
    BY <2>1, <2>2, <2>3
<1>12. CASE EndClear
  BY <1>12 DEF EndClear, Store!Next, Store!RemoveAll
<1>13. CASE UNCHANGED vars
  BY <1>13 DEF vars
<1> QED
  BY <1>1, <1>2, <1>3, <1>4, <1>5, <1>6, <1>7, <1>8, <1>9, <1>10, <1>11,
     <1>12, <1>13 DEF Next

\* Every publication, rejection, death and reset is a step of the store, or
\* none: canonical files only ever move to the answer validated last.
THEOREM Refinement == Spec => StoreSpec
<1>1. Init => Store!Init
  BY DEF Init, Store!Init
<1> QED
  BY <1>1, TypeCorrect, PublishInvAlways, StepStore, PTL
     DEF Spec, StoreSpec, Store!Spec

-----------------------------------------------------------------------------
(* The order validator.                                                    *)

HIDE DEF Files, files, history

\* The snapshot of the week is of the broker's book, but for what the market
\* has taken since.
SnapshotTrue ==
  \A t \in Tickers :
    snapshot[t] \notin {Absent, Damaged} => open[t] \in {0, snapshot[t].notional}
BookInv == OpenSound /\ SnapshotTrue

\* A packet has no more plans than it may, each of them one of the choices.
LEMMA PacketIs ==
  ASSUME BookTypeOK
  PROVE  /\ IsFiniteSet(DOMAIN plans) /\ Cardinality(DOMAIN plans) \in Nat
         /\ Cardinality(DOMAIN plans) <= MaxPlans
         /\ \A j \in DOMAIN plans : plans[j] \in PlanChoices
         /\ plans # <<>> => DOMAIN plans # {}
<1>1. PICK n \in 0..MaxPlans : plans \in [1..n -> PlanChoices]
  BY DEF BookTypeOK, Packets
<1>2. n \in Nat /\ n <= MaxPlans /\ DOMAIN plans = 1..n
  BY <1>1, BoundsAssumption
<1>3. IsFiniteSet(1..n) /\ Cardinality(1..n) = n
  BY <1>2, FS_Interval
<1>4. plans # <<>> => 1 \in DOMAIN plans
  <2>1. n = 0 => plans = <<>>
    BY <1>1, <1>2
  <2> QED
    BY <1>2, <2>1
<1>5. \A j \in DOMAIN plans : plans[j] \in PlanChoices
  BY <1>1, <1>2
<1> QED
  BY <1>2, <1>3, <1>4, <1>5

LEMMA BookNats ==
  ASSUME BookTypeOK
  PROVE  /\ IsFiniteSet(Tickers) /\ \A t \in Tickers : open[t] \in Nat
         /\ TotalOpen = Sum(open, Tickers) /\ TotalOpen \in Nat
<1>1. IsFiniteSet(Tickers) /\ MaxOpen \in Nat
  BY SettingsAssumption, BoundsAssumption
<1>2. DOMAIN open = Tickers /\ \A t \in Tickers : open[t] \in Nat
  BY <1>1 DEF BookTypeOK
<1>3. TotalOpen = Sum(open, Tickers)
  BY <1>2, SumOfFunction DEF TotalOpen
<1> QED
  BY <1>1, <1>2, <1>3, SumNat

\* What an answer has in its rows.
LEMMA Rows ==
  ASSUME NEW rows \in Answers, NumericsValid(rows)
  PROVE  /\ IsFiniteSet(DOMAIN rows)
         /\ \A i \in DOMAIN rows : rows[i].ticker \in Tickers /\ Amount(rows[i]) \in Nat
<1>1. PICK n \in 0..MaxRows : rows \in [1..n -> RowChoices]
  BY DEF Answers
<1>2. IsFiniteSet(DOMAIN rows) /\ \A i \in DOMAIN rows : rows[i] \in RowChoices
  <2>1. n \in Nat
    BY BoundsAssumption
  <2> QED
    BY <1>1, <2>1, FS_Interval
<1>3. ASSUME NEW i \in DOMAIN rows
      PROVE  rows[i].ticker \in Tickers /\ Amount(rows[i]) \in Nat
  <2>1. rows[i].ticker \in Tickers /\ rows[i].notional \in Number
    BY <1>2, ChoicesAssumption
  <2>2. rows[i].notional # Damaged /\ Amount(rows[i]) >= 0
    BY DEF NumericsValid
  <2>3. Amount(rows[i]) \in Int
    BY <2>1, <2>2 DEF Amount, Number
  <2> QED
    BY <2>1, <2>2, <2>3
<1> QED
  BY <1>2, <1>3

\* A notional is a sum, and is of nothing when there are no rows.
LEMMA NotionalIs ==
  ASSUME NEW rows \in Answers, NumericsValid(rows), NEW I \in SUBSET DOMAIN rows
  PROVE  /\ IsFiniteSet(I) /\ Notional(rows, I) \in Nat
         /\ Notional(rows, I) = Sum([i \in DOMAIN rows |-> Amount(rows[i])], I)
         /\ I = {} => Notional(rows, I) = 0
<1> DEFINE f == [i \in I |-> Amount(rows[i])]
           all == [i \in DOMAIN rows |-> Amount(rows[i])]
<1>1. IsFiniteSet(I)
  BY Rows, FS_Subset
<1>2. \A i \in I : f[i] \in Nat /\ f[i] = all[i]
  BY Rows
<1>3. Notional(rows, I) = Sum(f, I)
  BY SumOfFunction DEF Notional
<1> HIDE DEF f, all
<1>4. Sum(f, I) \in Nat /\ Sum(f, I) = Sum(all, I)
  BY <1>1, <1>2, SumNat, SumSame
<1>5. I = {} => Sum(f, I) = 0
  BY SumEmpty
<1> QED
  BY <1>1, <1>3, <1>4, <1>5 DEF all

\* The row of a submitted order has a plan that submits.
LEMMA SubmitHasPlan ==
  ASSUME NEW rows \in Answers, MatchesPlans(rows), NEW i \in Intent(rows, SubmitBuyIntents)
  PROVE  \E j \in DOMAIN plans :
           /\ plans[j].ticker = rows[i].ticker
           /\ plans[j].action \in NetNewBuyIntents \cup ReplaceActions
           /\ plans[j].action \in NetNewBuyIntents => rows[i].intent \in NetNewBuyIntents
<1>1. i \in DOMAIN rows /\ rows[i].intent \in SubmitBuyIntents
  BY DEF Intent
<1>2. PICK j \in DOMAIN plans :
        /\ plans[j].ticker = rows[i].ticker
        /\ plans[j].action \in RowActions /\ rows[i].intent \in RowIntents(plans[j].action)
  BY <1>1 DEF MatchesPlans
<1> DEFINE action == plans[j].action
<1>3. action \in NetNewBuyIntents => rows[i].intent \in NetNewBuyIntents
  <2>1. ASSUME action \in NetNewBuyIntents
        PROVE  RowIntents(action) = NetNewBuyIntents
    BY <2>1 DEF RowIntents, NetNewBuyIntents, ReplaceActions
  <2> QED
    BY <1>2, <2>1
<1>4. action # "CANCEL_EXISTING"
  <2>1. RowIntents("CANCEL_EXISTING") = {"CANCEL_EXISTING"}
    BY DEF RowIntents, NetNewBuyIntents, ReplaceActions
  <2> QED
    BY <1>1, <1>2, <2>1 DEF SubmitBuyIntents, NetNewBuyIntents, ReplaceActions
<1> QED
  BY <1>2, <1>3, <1>4 DEF RowActions

LEMMA SubmitOf ==
  ASSUME NEW rows \in Answers, NumericsValid(rows), NEW t
  PROVE  /\ SubmitNotional(rows, t) \in Nat
         /\ SubmitNotional(rows, t) > 0 =>
              \E i \in Intent(rows, SubmitBuyIntents) : rows[i].ticker = t
<1> DEFINE I == Intent(rows, SubmitBuyIntents) \cap RowsFor(rows, t)
<1>1. I \in SUBSET DOMAIN rows
  BY DEF Intent
<1>2. SubmitNotional(rows, t) = Notional(rows, I)
  BY DEF SubmitNotional
<1>3. I # {} => \E i \in Intent(rows, SubmitBuyIntents) : rows[i].ticker = t
  BY DEF RowsFor
<1> HIDE DEF I
<1>4. Notional(rows, I) \in Nat /\ (I = {} => Notional(rows, I) = 0)
  BY <1>1, NotionalIs
<1> QED
  BY <1>2, <1>3, <1>4

-----------------------------------------------------------------------------
(* The cap.                                                                *)

\* What is open for a ticker after an accepted answer is on its plans.
LEMMA OnPlans ==
  ASSUME BookInv, settings.cap \notin {Absent, Damaged}, NEW rows \in Answers, Accepted(rows), plans # <<>>,
         NEW t \in Tickers, Covers(rows, t), NEW n, 
         n = (IF Cancels(rows, t) THEN 0 ELSE open[t]) + SubmitNotional(rows, t),
         NEW room, room = [p \in DOMAIN plans |-> plans[p].compiled + Tolerance]
  PROVE  n <= Sum(room, {p \in DOMAIN plans : plans[p].ticker = t})
<1> DEFINE mine == {p \in DOMAIN plans : plans[p].ticker = t}
           kept == IF Cancels(rows, t) THEN 0 ELSE open[t]
           new == SubmitNotional(rows, t)
<1>0. SUFFICES n <= Sum(room, mine)
  OBVIOUS
<1>1. IsFiniteSet(mine) /\ Tolerance \in Nat /\ open[t] \in Nat
  BY FS_Subset, BoundsAssumption, BookNats, PacketIs DEF BookInv, OpenSound
<1>2. \A p \in DOMAIN plans : /\ plans[p].compiled \in Int /\ plans[p].compiled >= 0
                       /\ room[p] = plans[p].compiled + Tolerance /\ room[p] \in Nat
  <2>1. \A p \in DOMAIN plans : plans[p].compiled \in Number /\ NonNegative(plans[p].compiled)
    BY ChoicesAssumption, PacketIs DEF BookInv, OpenSound, Accepted, ExposureReconciled
  <2> QED
    BY <2>1, <1>1 DEF Number, NonNegative
<1>3. new \in Nat
  BY SubmitOf DEF Accepted
<1>4. kept \in Nat /\ n = kept + new
  BY <1>1
<1>5. ASSUME kept # 0
      PROVE  \E p \in mine : plans[p].action = "KEEP_EXISTING" /\ kept <= room[p]
  <2>1. kept = open[t] /\ open[t] # 0 /\ ~Cancels(rows, t)
    BY <1>5
  <2>2. PICK p \in DOMAIN plans : plans[p].ticker = t /\ plans[p].action = "KEEP_EXISTING"
    BY <2>1 DEF Covers
  <2>3. snapshot[t] \notin {Absent, Damaged} /\ Near(plans[p].compiled, snapshot[t].notional)
    BY <2>2 DEF Accepted, KeepMatchesSnapshot
  <2>4. open[t] = snapshot[t].notional
    BY <2>1, <2>3 DEF BookInv, SnapshotTrue
  <2>5. open[t] - plans[p].compiled <= Tolerance
    BY <2>3, <2>4 DEF Near
  <2>6. open[t] <= room[p]
    BY <2>5, <2>2, <1>1, <1>2
  <2> QED
    BY <2>1, <2>2, <2>6
<1>6. ASSUME new # 0
      PROVE  \E p \in mine : plans[p].action # "KEEP_EXISTING" /\ new <= room[p]
  <2>0. NumericsValid(rows)
    BY DEF Accepted
  <2>1. PICK i \in Intent(rows, SubmitBuyIntents) : rows[i].ticker = t
    <3> HIDE DEF new
    <3>1. new > 0
      BY <1>3, <1>6
    <3> QED
      BY <3>1, <2>0, SubmitOf DEF new
  <2>2. PICK p \in DOMAIN plans : plans[p].ticker = t /\ plans[p].action \in NetNewBuyIntents \cup ReplaceActions
    BY <2>1, SubmitHasPlan DEF Accepted
  <2>3. Near(SubmitNotional(rows, plans[p].ticker), plans[p].compiled)
    BY <2>2 DEF Accepted, ExposureReconciled, SubmitsMatch, CrossChecked
  <2>4. new - plans[p].compiled <= Tolerance
    BY <2>2, <2>3 DEF Near
  <2>5. plans[p].action # "KEEP_EXISTING"
    BY <2>2 DEF NetNewBuyIntents, ReplaceActions
  <2> HIDE DEF new
  <2>6. new <= room[p]
    BY <2>2, <2>4, <1>1, <1>2, <1>3
  <2> QED
    BY <2>2, <2>5, <2>6
<1> HIDE DEF kept, new
<1>7. \A p \in mine : room[p] \in Nat
  BY <1>2
<1> HIDE DEF mine
<1>8. Sum(room, mine) \in Nat
  BY <1>1, <1>7, SumNat
<1>9. CASE kept = 0 /\ new = 0
  BY <1>4, <1>8, <1>9
<1>10. CASE kept # 0 /\ new = 0
  <2>1. PICK p \in mine : kept <= room[p]
    BY <1>5, <1>10
  <2>2. room[p] <= Sum(room, mine) /\ room[p] \in Nat
    BY <1>1, <1>7, SumOver
  <2> QED
    BY <2>1, <2>2, <1>4, <1>8, <1>10
<1>11. CASE kept = 0 /\ new # 0
  <2>1. PICK p \in mine : new <= room[p]
    BY <1>6, <1>11
  <2>2. room[p] <= Sum(room, mine) /\ room[p] \in Nat
    BY <1>1, <1>7, SumOver
  <2> QED
    BY <2>1, <2>2, <1>3, <1>4, <1>8, <1>11
<1>12. CASE kept # 0 /\ new # 0
  <2>1. PICK p \in mine : plans[p].action = "KEEP_EXISTING" /\ kept <= room[p]
    BY <1>5, <1>12
  <2>2. PICK q \in mine : plans[q].action # "KEEP_EXISTING" /\ new <= room[q]
    BY <1>6, <1>12
  <2>3. room[p] + room[q] <= Sum(room, mine) /\ room[p] \in Nat /\ room[q] \in Nat
    <3>1. q # p
      BY <2>1, <2>2
    <3> QED
      BY <3>1, <1>1, <1>7, SumOver
  <2> QED
    BY <2>1, <2>2, <2>3, <1>3, <1>4, <1>8
<1> QED
  BY <1>3, <1>4, <1>9, <1>10, <1>11, <1>12

\* An accepted packet that dealt with every open order leaves no more open
\* than the cap allows its plans.
LEMMA PlansCarryAll ==
  ASSUME BookInv, settings.cap \notin {Absent, Damaged}, NEW rows \in Answers, Accepted(rows), plans # <<>>,
         \A t \in Tickers : Covers(rows, t),
         NEW after,
         \A t \in Tickers : after[t] = (IF Cancels(rows, t) THEN 0 ELSE open[t]) + SubmitNotional(rows, t)
  PROVE  Sum(after, Tickers) <= settings.cap + Tolerance * MaxPlans
<1> DEFINE compiled == [p \in DOMAIN plans |-> plans[p].compiled]
           target == [p \in DOMAIN plans |-> plans[p].target]
           cents == [p \in DOMAIN plans |-> Tolerance]
           room == [p \in DOMAIN plans |-> plans[p].compiled + Tolerance]
           ticker == [p \in DOMAIN plans |-> plans[p].ticker]
           of == [t \in Tickers |-> Sum(room, {p \in DOMAIN plans : plans[p].ticker = t})]
<1>1. /\ IsFiniteSet(DOMAIN plans) /\ Cardinality(DOMAIN plans) \in Nat /\ Cardinality(DOMAIN plans) <= MaxPlans
      /\ IsFiniteSet(Tickers) /\ Tolerance \in Nat /\ MaxPlans \in Nat
  BY BoundsAssumption, SettingsAssumption, PacketIs DEF BookInv, OpenSound
<1>2. \A p \in DOMAIN plans : plans[p].ticker \in Tickers /\ plans[p].compiled \in Nat
  <2>1. \A p \in DOMAIN plans : plans[p].ticker \in Tickers /\ plans[p].compiled \in Number /\ NonNegative(plans[p].compiled)
    BY ChoicesAssumption, PacketIs DEF BookInv, OpenSound, Accepted, ExposureReconciled
  <2> QED
    BY <2>1 DEF Number, NonNegative
<1>3. /\ settings.cap \in Int
      /\ CompiledTotal <= TargetTotal /\ TargetTotal <= settings.cap
  <2>1. settings.cap \in Number
    BY SettingsAssumption DEF BookInv, OpenSound, BookTypeOK
  <2>2. CompiledTotal <= TargetTotal /\ TargetTotal <= settings.cap
    BY DEF Accepted, ExposureReconciled
  <2> QED
    BY <2>1, <2>2 DEF Number
<1>4. \A p \in DOMAIN plans : plans[p].target \in Int
  BY ChoicesAssumption, PacketIs DEF BookInv, OpenSound, Accepted, ExposureReconciled, NonNegative, Number
<1>5. CompiledTotal = Sum(compiled, DOMAIN plans) /\ TargetTotal = Sum(target, DOMAIN plans)
  BY SumOfFunction DEF CompiledTotal, TargetTotal
<1>6. /\ \A p \in DOMAIN plans : compiled[p] \in Int /\ target[p] \in Int /\ cents[p] = Tolerance
      /\ \A p \in DOMAIN plans : room[p] = compiled[p] + cents[p] /\ room[p] \in Nat
  BY <1>1, <1>2, <1>4
<1>7. \A t \in Tickers : after[t] <= of[t] /\ after[t] \in Int /\ of[t] \in Int
  <2>1. ASSUME NEW t \in Tickers
        PROVE  after[t] <= of[t] /\ after[t] \in Int /\ of[t] \in Int
    <3>1. after[t] <= Sum(room, {p \in DOMAIN plans : plans[p].ticker = t})
      BY OnPlans
    <3>2. after[t] \in Int
      <4>1. open[t] \in Nat
        BY BookNats DEF BookInv, OpenSound
      <4>2. SubmitNotional(rows, t) \in Nat
        BY SubmitOf DEF Accepted
      <4> QED
        BY <4>1, <4>2
    <3>3. Sum(room, {p \in DOMAIN plans : plans[p].ticker = t}) \in Int
      <4>1. IsFiniteSet({p \in DOMAIN plans : plans[p].ticker = t})
        BY <1>1, FS_Subset
      <4>2. \A p \in {q \in DOMAIN plans : plans[q].ticker = t} : room[p] \in Int
        BY <1>6
      <4> HIDE DEF room
      <4> QED
        BY <4>1, <4>2, SumInt
    <3> QED
      BY <3>1, <3>2, <3>3
  <2> QED
    BY <2>1
<1>8. /\ \A t \in Tickers : of[t] = Sum(room, Group(DOMAIN plans, ticker, t))
      /\ DOMAIN plans = Grouped(DOMAIN plans, ticker, Tickers)
  <2>1. \A t \in Tickers : Group(DOMAIN plans, ticker, t) = {p \in DOMAIN plans : plans[p].ticker = t}
    BY DEF Group
  <2> QED
    BY <2>1, <1>2 DEF Grouped
<1> HIDE DEF compiled, target, cents, room, ticker, of
<1>9. Sum(after, Tickers) <= Sum(of, Tickers)
  BY <1>1, <1>7, SumMono
<1>10. Sum(of, Tickers) = Sum(room, DOMAIN plans)
  <2>1. \A p \in DOMAIN plans : room[p] \in Int
    BY <1>6
  <2>2. Sum(of, Tickers) = Sum(room, Grouped(DOMAIN plans, ticker, Tickers))
    <3>1. IsFiniteSet(DOMAIN plans) /\ IsFiniteSet(Tickers)
      BY <1>1
    <3>2. \A t \in Tickers : of[t] = Sum(room, Group(DOMAIN plans, ticker, t))
      BY <1>8
    <3> QED
      BY <2>1, <3>1, <3>2, SumGroups
  <2> QED
    BY <2>2, <1>8
<1>11. Sum(room, DOMAIN plans) = Sum(compiled, DOMAIN plans) + Sum(cents, DOMAIN plans)
  <2>1. \A p \in DOMAIN plans : compiled[p] \in Int /\ cents[p] \in Int /\ room[p] = compiled[p] + cents[p]
    BY <1>1, <1>6
  <2> QED
    BY <2>1, <1>1, SumPlus
<1>12. Sum(cents, DOMAIN plans) = Tolerance * Cardinality(DOMAIN plans)
  BY <1>1, <1>6, SumConstant
<1> DEFINE some == Tolerance * Cardinality(DOMAIN plans)
           most == Tolerance * MaxPlans
<1>13. some \in Nat /\ most \in Nat /\ some <= most
  BY <1>1, SMT
<1>14. Sum(compiled, DOMAIN plans) \in Int /\ Sum(target, DOMAIN plans) \in Int
  BY <1>1, <1>6, SumInt
<1>15. Sum(after, Tickers) \in Int /\ Sum(of, Tickers) \in Int
  BY <1>1, <1>7, SumInt
<1> HIDE DEF some, most
<1>16. Sum(cents, DOMAIN plans) = some
  BY <1>12 DEF some
<1>17. Sum(after, Tickers) <= settings.cap + most
  BY <1>3, <1>5, <1>9, <1>10, <1>11, <1>13, <1>14, <1>15, <1>16
<1> QED
  BY <1>17 DEF most

-----------------------------------------------------------------------------
(* The steps of a week.                                                    *)

LEMMA NoPlans == <<>> \in Packets
<1>1. <<>> \in [1..0 -> PlanChoices] /\ 0 \in 0..MaxPlans
  BY BoundsAssumption
<1> QED
  BY <1>1 DEF Packets

LEMMA BookInitial == BookInit => BookInv
<1> SUFFICES ASSUME BookInit PROVE BookInv
  OBVIOUS
<1>1. BookTypeOK
  BY BoundsAssumption, NoPlans DEF BookInit, BookTypeOK
<1>2. TotalOpen = 0
  <2>1. \A t \in Tickers : open[t] = 0
    BY DEF BookInit
  <2> QED
    BY <1>1, <2>1, BookNats, SumZero
<1>3. SnapshotTrue
  BY DEF BookInit, SnapshotTrue
<1>4. OpenInUniverse
  BY DEF BookInit, OpenInUniverse
<1> QED
  BY <1>1, <1>2, <1>3, <1>4 DEF BookInv, OpenSound, CoveredWithinCap

LEMMA BeginWeekKeeps == ASSUME BookInv, BeginWeek PROVE BookInv'
<1>1. UNCHANGED <<open, settings, covered>>
  BY DEF BeginWeek
<1>2. BookTypeOK'
  BY <1>1 DEF BookInv, OpenSound, BookTypeOK, BeginWeek
<1>3. CoveredWithinCap' /\ OpenInUniverse'
  BY <1>1 DEF BookInv, OpenSound, CoveredWithinCap, WithinCap, TotalOpen, OpenInUniverse
<1>4. SnapshotTrue'
  BY <1>1 DEF BeginWeek, SnapshotTrue
<1> QED
  BY <1>2, <1>3, <1>4 DEF BookInv, OpenSound

\* Without plans and snapshot there is nothing to say of them.
LEMMA WeekEnds ==
  ASSUME EndWeek
  PROVE  /\ SnapshotTrue'
         /\ plans' \in Packets
         /\ snapshot' \in [Tickers -> Line \cup {Absent, Damaged}]
<1>1. SnapshotTrue'
  BY DEF EndWeek, NoSnapshot, SnapshotTrue
<1> QED
  BY <1>1, NoPlans DEF EndWeek, NoSnapshot

LEMMA AbandonKeeps == ASSUME BookInv, Abandon PROVE BookInv'
<1>1. UNCHANGED <<open, settings, covered>> /\ EndWeek
  BY DEF Abandon
<1>2. BookTypeOK'
  BY <1>1, WeekEnds DEF BookInv, OpenSound, BookTypeOK
<1>3. CoveredWithinCap' /\ OpenInUniverse'
  BY <1>1 DEF BookInv, OpenSound, CoveredWithinCap, WithinCap, TotalOpen, OpenInUniverse
<1> QED
  BY <1>1, <1>2, <1>3, WeekEnds DEF BookInv, OpenSound

\* Less open than before is as well within the cap.
LEMMA LessOpen ==
  ASSUME BookTypeOK, BookTypeOK', UNCHANGED settings, covered' => covered, CoveredWithinCap,
         \A t \in Tickers : open'[t] <= open[t]
  PROVE  CoveredWithinCap'
<1>1. /\ IsFiniteSet(Tickers) /\ \A t \in Tickers : open[t] \in Nat /\ open'[t] \in Nat
      /\ TotalOpen = Sum(open, Tickers) /\ TotalOpen' = Sum(open', Tickers)
      /\ TotalOpen \in Nat /\ TotalOpen' \in Nat
  <2>1. /\ IsFiniteSet(Tickers) /\ \A t \in Tickers : open[t] \in Nat
        /\ TotalOpen = Sum(open, Tickers) /\ TotalOpen \in Nat
    BY BookNats
  <2>2. DOMAIN open' = Tickers /\ \A t \in Tickers : open'[t] \in Nat
    BY BoundsAssumption DEF BookTypeOK
  <2>3. TotalOpen' = Sum(open', Tickers)
    BY <2>2, SumOfFunction DEF TotalOpen
  <2>4. Sum(open', Tickers) \in Nat
    BY <2>1, <2>2, SumNat
  <2> QED
    BY <2>1, <2>2, <2>3, <2>4
<1>2. TotalOpen' <= TotalOpen
  <2>1. Sum(open', Tickers) <= Sum(open, Tickers)
    BY <1>1, SumMono
  <2> QED
    BY <1>1, <2>1
<1>3. CASE TotalOpen' = 0
  BY <1>3 DEF CoveredWithinCap
<1>4. CASE TotalOpen' # 0 /\ covered'
  <2>1. TotalOpen # 0 /\ covered
    BY <1>1, <1>2, <1>4
  <2>2. settings.cap \notin {Absent, Damaged} /\ TotalOpen <= settings.cap + Tolerance * MaxPlans
    BY <2>1 DEF CoveredWithinCap, WithinCap
  <2> DEFINE limit == settings.cap + Tolerance * MaxPlans
  <2>3. limit \in Int
    <3>1. Tolerance * MaxPlans \in Int
      BY BoundsAssumption, SMT
    <3>2. settings.cap \in Int
      BY <2>2, SettingsAssumption DEF BookTypeOK, Number
    <3> QED
      BY <3>1, <3>2
  <2>4. settings' = settings /\ limit' = limit
    OBVIOUS
  <2>5. TotalOpen <= limit
    BY <2>2
  <2> HIDE DEF limit
  <2>6. TotalOpen' <= limit
    BY <1>1, <1>2, <2>3, <2>5
  <2> QED
    BY <2>2, <2>4, <2>6 DEF CoveredWithinCap, WithinCap, limit
<1> QED
  BY <1>3, <1>4 DEF CoveredWithinCap

LEMMA FillKeeps == ASSUME BookInv, Fill PROVE BookInv'
<1>1. PICK s \in Tickers : open[s] > 0 /\ open' = [open EXCEPT ![s] = 0]
  BY DEF Fill
<1>2. UNCHANGED <<settings, plans, snapshot, covered>>
  BY DEF Fill
<1>3. open \in [Tickers -> 0..MaxOpen]
  BY DEF BookInv, OpenSound, BookTypeOK
<1>4. open' \in [Tickers -> 0..MaxOpen] /\ \A t \in Tickers : open'[t] \in {0, open[t]}
  BY <1>1, <1>3, BoundsAssumption
<1>5. BookTypeOK'
  BY <1>2, <1>4 DEF BookInv, OpenSound, BookTypeOK
<1>6. CoveredWithinCap'
  <2>1. \A t \in Tickers : open'[t] <= open[t]
    BY <1>3, <1>4, BoundsAssumption
  <2>2. BookTypeOK /\ CoveredWithinCap
    BY DEF BookInv, OpenSound
  <2> QED
    BY <1>2, <1>5, <2>1, <2>2, LessOpen
<1>7. OpenInUniverse'
  <2>1. \A t \in Tickers : open[t] \in Nat
    BY <1>3, BoundsAssumption
  <2> QED
    BY <1>2, <1>4, <2>1 DEF BookInv, OpenSound, OpenInUniverse
<1>8. SnapshotTrue'
  BY <1>2, <1>4 DEF BookInv, SnapshotTrue
<1> QED
  BY <1>5, <1>6, <1>7, <1>8 DEF BookInv, OpenSound

LEMMA ParseKeeps == ASSUME BookInv, ParseStep4 PROVE BookInv'
<1>1. PICK rows \in Answers :
        /\ Accepted(rows)
        /\ open' = [t \in Tickers |->
                      (IF Cancels(rows, t) THEN 0 ELSE open[t]) + SubmitNotional(rows, t)]
        /\ \A t \in Tickers : open'[t] <= MaxOpen
        /\ covered' = (covered /\ \A t \in Tickers : Covers(rows, t))
        /\ EndWeek /\ UNCHANGED settings
  BY Zenon DEF ParseStep4
<1>2. BookTypeOK
  BY DEF BookInv, OpenSound
<1>3. \A t \in Tickers : /\ open[t] \in Nat /\ SubmitNotional(rows, t) \in Nat
                         /\ open'[t] = (IF Cancels(rows, t) THEN 0 ELSE open[t]) + SubmitNotional(rows, t)
  <2>1. NumericsValid(rows)
    BY <1>1 DEF Accepted
  <2>2. \A t \in Tickers : open[t] \in Nat
    BY <1>2, BookNats
  <2>3. \A t \in Tickers : SubmitNotional(rows, t) \in Nat
    BY <2>1, SubmitOf
  <2> QED
    BY <1>1, <2>2, <2>3
<1>4. open' \in [Tickers -> 0..MaxOpen]
  <2>1. \A t \in Tickers : open'[t] \in 0..MaxOpen
    <3>1. ASSUME NEW t \in Tickers PROVE open'[t] \in Nat
      BY <1>3
    <3> QED
      BY <3>1, <1>1, BoundsAssumption
  <2>2. open' = [t \in Tickers |-> open'[t]]
    BY <1>1
  <2> QED
    BY <2>1, <2>2
<1>5. covered' \in BOOLEAN /\ settings' \in Settings
  <2>1. covered' \in BOOLEAN
    BY <1>1, <1>2, Zenon DEF BookTypeOK
  <2> QED
    BY <2>1, <1>1, <1>2 DEF BookTypeOK
<1>6. BookTypeOK'
  BY <1>1, <1>4, <1>5, WeekEnds DEF BookTypeOK
<1>7. OpenInUniverse'
  <2> SUFFICES ASSUME NEW t \in Tickers, open'[t] > 0
               PROVE  t \in settings.universe
    BY <1>1 DEF OpenInUniverse
  <2>1. CASE SubmitNotional(rows, t) = 0
    <3>1. open[t] > 0
      BY <1>3, <2>1
    <3> QED
      BY <3>1 DEF BookInv, OpenSound, OpenInUniverse
  <2>2. CASE SubmitNotional(rows, t) # 0
    <3>1. NumericsValid(rows) /\ InUniverse(rows)
      BY <1>1 DEF Accepted
    <3>2. SubmitNotional(rows, t) > 0
      BY <1>3, <2>2
    <3>3. PICK i \in Intent(rows, SubmitBuyIntents) : rows[i].ticker = t
      BY <3>1, <3>2, SubmitOf
    <3> QED
      BY <3>1, <3>3 DEF InUniverse
  <2> QED
    BY <2>1, <2>2
<1>8. CoveredWithinCap'
  <2>1. CASE \A t \in Tickers : SubmitNotional(rows, t) = 0
    <3>1. \A t \in Tickers : open'[t] <= open[t]
      BY <1>3, <2>1
    <3>2. covered' => covered
      BY <1>1, <1>2, Zenon DEF BookTypeOK
    <3>3. CoveredWithinCap /\ UNCHANGED settings
      BY <1>1 DEF BookInv, OpenSound
    <3> QED
      BY <1>2, <1>6, <3>1, <3>2, <3>3, LessOpen
  <2>2. CASE (\E t \in Tickers : SubmitNotional(rows, t) # 0) /\ covered'
    <3>1. PICK t \in Tickers : SubmitNotional(rows, t) # 0
      BY <2>2
    <3>2. NumericsValid(rows) /\ MatchesPlans(rows) /\ SafetyContextPresent(rows)
      BY <1>1 DEF Accepted
    <3>3. PICK i \in Intent(rows, SubmitBuyIntents) : rows[i].ticker = t
      <4>1. SubmitNotional(rows, t) > 0
        BY <1>3, <3>1
      <4> QED
        BY <4>1, <3>2, SubmitOf
    <3>4. settings.cap \notin {Absent, Damaged}
      <4>1. WithinBudgets(rows)
        BY <1>1 DEF Accepted
      <4> QED
        BY <3>2, <3>3, <4>1 DEF SafetyContextPresent, WithinBudgets, Fits
    <3>5. plans # <<>>
      BY <3>2, <3>3, SubmitHasPlan
    <3>6. \A u \in Tickers : Covers(rows, u)
      BY <1>1, <2>2, Zenon
    <3>7. Sum(open', Tickers) <= settings.cap + Tolerance * MaxPlans
      <4> DEFINE after == open'
      <4>1. \A u \in Tickers : after[u] = (IF Cancels(rows, u) THEN 0 ELSE open[u]) + SubmitNotional(rows, u)
        BY <1>3
      <4> HIDE DEF after
      <4>2. Sum(after, Tickers) <= settings.cap + Tolerance * MaxPlans
        BY <4>1, <1>1, <3>4, <3>5, <3>6, PlansCarryAll
      <4> QED
        BY <4>2 DEF after
    <3>8. TotalOpen' = Sum(open', Tickers)
      <4>1. DOMAIN open' = Tickers
        BY <1>4
      <4> QED
        BY <4>1, SumOfFunction DEF TotalOpen
    <3> QED
      BY <1>1, <3>4, <3>7, <3>8 DEF CoveredWithinCap, WithinCap
  <2> QED
    BY <2>1, <2>2 DEF CoveredWithinCap
<1> QED
  BY <1>1, <1>6, <1>7, <1>8, WeekEnds DEF BookInv, OpenSound

\* Any step keeps the invariant.
LEMMA BookInductive == BookInv /\ [BookNext]_book => BookInv'
<1> SUFFICES ASSUME BookInv, [BookNext]_book PROVE BookInv'
  OBVIOUS
<1>1. CASE BeginWeek
  BY <1>1, BeginWeekKeeps
<1>2. CASE ParseStep4
  BY <1>2, ParseKeeps
<1>3. CASE Abandon
  BY <1>3, AbandonKeeps
<1>4. CASE Fill
  BY <1>4, FillKeeps
<1>5. CASE UNCHANGED book
  BY <1>5 DEF book, BookInv, OpenSound, BookTypeOK, CoveredWithinCap, WithinCap, TotalOpen,
    OpenInUniverse, SnapshotTrue
<1> QED
  BY <1>1, <1>2, <1>3, <1>4, <1>5 DEF BookNext

LEMMA BookInvAlways == BookSpec => []BookInv
  BY BookInitial, BookInductive, PTL DEF BookSpec

\* Over any number of weeks, as long as every accepted packet kept, cancelled
\* or replaced each open order, all open orders together stay within the cap,
\* cents for each plan apart, and every one of them is of an allowed ticker
\* (validate_orders_output.py, G3 to G5).
THEOREM OpenSafe == BookSpec => []OpenSound
<1>1. BookInv => OpenSound
  BY DEF BookInv
<1> QED
  BY <1>1, BookInvAlways, PTL

-----------------------------------------------------------------------------
(* The new money of a run.                                                 *)

\* What is added for a ticker that is not replaced is in its rows of new money.
LEMMA AddedIsNew ==
  ASSUME BookInv, NEW rows \in Answers, NumericsValid(rows), MatchesPlans(rows),
         NEW t \in Fresh,
         open'[t] = (IF Cancels(rows, t) THEN 0 ELSE open[t]) + SubmitNotional(rows, t)
  PROVE  /\ Added(t) \in Nat
         /\ Added(t) <= Notional(rows, Intent(rows, NetNewBuyIntents) \cap RowsFor(rows, t))
<1>1. t \in Tickers /\ open[t] \in Nat /\ SubmitNotional(rows, t) \in Nat
  BY BookNats, SubmitOf DEF Fresh, BookInv, OpenSound
<1>2. Intent(rows, SubmitBuyIntents) \cap RowsFor(rows, t) = Intent(rows, NetNewBuyIntents) \cap RowsFor(rows, t)
  <2>1. ASSUME NEW i \in Intent(rows, SubmitBuyIntents), rows[i].ticker = t
        PROVE  i \in Intent(rows, NetNewBuyIntents)
    <3>1. PICK j \in DOMAIN plans :
            /\ plans[j].ticker = t
            /\ plans[j].action \in NetNewBuyIntents \cup ReplaceActions
            /\ plans[j].action \in NetNewBuyIntents => rows[i].intent \in NetNewBuyIntents
      BY <2>1, SubmitHasPlan
    <3>2. plans[j].action \notin ReplaceActions
      BY <3>1 DEF Fresh, Planned
    <3> QED
      BY <3>1, <3>2, <2>1 DEF Intent
  <2>2. Intent(rows, NetNewBuyIntents) \subseteq Intent(rows, SubmitBuyIntents)
    BY DEF Intent, NetNewBuyIntents, SubmitBuyIntents
  <2> QED
    BY <2>1, <2>2 DEF RowsFor
<1>3. Added(t) \in Nat /\ Added(t) <= SubmitNotional(rows, t)
  BY <1>1 DEF Added
<1> QED
  BY <1>2, <1>3 DEF SubmitNotional

LEMMA NothingAdded ==
  ASSUME BookTypeOK, \A t \in Tickers : open'[t] <= open[t] /\ open'[t] \in Nat
  PROVE  NewMoneyInRun
<1> DEFINE added == [t \in Fresh |-> Added(t)]
<1>1. IsFiniteSet(Fresh)
  BY SettingsAssumption, FS_Subset DEF Fresh
<1>2. \A t \in Fresh : added[t] = 0
  BY BookNats DEF Added, Fresh
<1>3. SumFunction(added) = Sum(added, Fresh)
  BY SumOfFunction
<1> HIDE DEF added
<1>4. Sum(added, Fresh) = 0
  BY <1>1, <1>2, SumZero
<1> QED
  BY <1>3, <1>4 DEF NewMoneyInRun, added

LEMMA ParseBounded == ASSUME BookInv, ParseStep4 PROVE NewMoneyInRun
<1>1. PICK rows \in Answers :
        /\ Accepted(rows)
        /\ open' = [t \in Tickers |->
                      (IF Cancels(rows, t) THEN 0 ELSE open[t]) + SubmitNotional(rows, t)]
  BY Zenon DEF ParseStep4
<1>2. /\ NumericsValid(rows) /\ MatchesPlans(rows)
      /\ SafetyContextPresent(rows) /\ WithinBudgets(rows)
  BY <1>1 DEF Accepted
<1> DEFINE new == Intent(rows, NetNewBuyIntents)
           amount == [i \in DOMAIN rows |-> Amount(rows[i])]
           ticker == [i \in DOMAIN rows |-> rows[i].ticker]
           added == [t \in Fresh |-> Added(t)]
           of == [t \in Fresh |-> Sum(amount, Group(new, ticker, t))]
<1>3. IsFiniteSet(Fresh) /\ Fresh \subseteq Tickers
  BY SettingsAssumption, FS_Subset DEF Fresh
<1>4. new \in SUBSET DOMAIN rows /\ IsFiniteSet(new) /\ Notional(rows, new) = Sum(amount, new)
  <2>1. new \in SUBSET DOMAIN rows
    BY DEF Intent
  <2> QED
    BY <2>1, <1>2, NotionalIs
<1>5. \A i \in new : amount[i] \in Nat
  BY <1>2, <1>4, Rows
<1>6. \A t \in Fresh : added[t] \in Nat /\ of[t] \in Nat /\ added[t] <= of[t]
  <2> SUFFICES ASSUME NEW t \in Fresh
               PROVE  added[t] \in Nat /\ of[t] \in Nat /\ added[t] <= of[t]
    OBVIOUS
  <2>1. open'[t] = (IF Cancels(rows, t) THEN 0 ELSE open[t]) + SubmitNotional(rows, t)
    BY <1>1, <1>3
  <2>2. /\ Added(t) \in Nat
        /\ Added(t) <= Notional(rows, new \cap RowsFor(rows, t))
    BY <2>1, <1>2, AddedIsNew
  <2>3. new \cap RowsFor(rows, t) = Group(new, ticker, t)
    BY <1>4 DEF RowsFor, Group
  <2>4. /\ Notional(rows, new \cap RowsFor(rows, t)) \in Nat
        /\ Notional(rows, new \cap RowsFor(rows, t)) = Sum(amount, new \cap RowsFor(rows, t))
    <3> DEFINE I == new \cap RowsFor(rows, t)
    <3>1. I \in SUBSET DOMAIN rows
      BY <1>4
    <3> HIDE DEF I
    <3>2. Notional(rows, I) \in Nat /\ Notional(rows, I) = Sum(amount, I)
      BY <3>1, <1>2, NotionalIs
    <3> QED
      BY <3>2 DEF I
  <2> QED
    BY <2>2, <2>3, <2>4
<1>7. \A t \in Fresh : of[t] = Sum(amount, Group(new, ticker, t))
  OBVIOUS
<1>8. SumFunction(added) = Sum(added, Fresh)
  BY SumOfFunction
<1> HIDE DEF new, amount, ticker, added, of
<1>9. Sum(added, Fresh) <= Sum(of, Fresh) /\ Sum(added, Fresh) \in Nat /\ Sum(of, Fresh) \in Nat
  BY <1>3, <1>6, SumMono, SumNat
<1>10. Sum(of, Fresh) = Sum(amount, Grouped(new, ticker, Fresh))
  <2>1. \A i \in new : amount[i] \in Int
    BY <1>5
  <2> QED
    BY <2>1, <1>3, <1>4, <1>7, SumGroups
<1>11. Sum(amount, Grouped(new, ticker, Fresh)) <= Sum(amount, new)
  <2>1. Grouped(new, ticker, Fresh) \in SUBSET new
    BY DEF Grouped
  <2> QED
    BY <2>1, <1>4, <1>5, SumPart
<1>12. Sum(amount, new) \in Nat
  BY <1>4, <1>5, SumNat
<1>13. CASE settings.target = Absent
  <2>1. new = {}
    BY <1>2, <1>13 DEF SafetyContextPresent, new
  <2>2. Sum(amount, new) = 0
    BY <2>1, SumEmpty
  <2>3. SumFunction(added) = 0
    BY <1>8, <1>9, <1>10, <1>11, <2>2
  <2> QED
    BY <2>3 DEF NewMoneyInRun, added
<1>14. CASE settings.target # Absent
  <2>1. settings.target # Damaged /\ Sum(amount, new) <= settings.target
    BY <1>2, <1>4, <1>14 DEF WithinBudgets, Fits, new
  <2>2. settings.target \in Int
    BY <1>14, <2>1, SettingsAssumption DEF BookInv, OpenSound, BookTypeOK, Number
  <2>3. SumFunction(added) <= settings.target
    BY <1>8, <1>9, <1>10, <1>11, <1>12, <2>1, <2>2
  <2> QED
    BY <1>14, <2>1, <2>3 DEF NewMoneyInRun, added
<1> QED
  BY <1>13, <1>14

\* In no run, of any packet, is more opened or added to than the target allows,
\* over the tickers that are not replaced, and nothing is without a target (G5).
THEOREM NewMoneySafe == BookSpec => NewMoneyBounded
<1>1. BookInv /\ [BookNext]_book => [NewMoneyInRun]_book
  <2> SUFFICES ASSUME BookInv, BookNext PROVE NewMoneyInRun
    OBVIOUS
  <2>1. BookTypeOK /\ \A t \in Tickers : open[t] \in Nat
    BY BookNats DEF BookInv, OpenSound
  <2>2. CASE ParseStep4
    BY <2>2, ParseBounded
  <2>3. CASE BeginWeek \/ Abandon
    <3>1. UNCHANGED open
      BY <2>3 DEF BeginWeek, Abandon
    <3> QED
      BY <2>1, <3>1, NothingAdded
  <2>4. CASE Fill
    <3>1. \A t \in Tickers : open'[t] \in {0, open[t]}
      BY <2>1, <2>4 DEF Fill, BookTypeOK
    <3>2. \A t \in Tickers : open'[t] <= open[t] /\ open'[t] \in Nat
      BY <2>1, <3>1
    <3> QED
      BY <2>1, <3>2, NothingAdded
  <2> QED
    BY <2>2, <2>3, <2>4 DEF BookNext
<1> QED
  BY <1>1, BookInvAlways, PTL DEF BookSpec, NewMoneyBounded

=============================================================================
