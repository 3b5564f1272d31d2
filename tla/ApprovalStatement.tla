------------------------- MODULE ApprovalStatement -------------------------
(***************************************************************************)
(* The operator's statement of intent about a bound policy approval: its   *)
(* bytes are parsed, the decoded value is validated                        *)
(* (validate_..._operator_approval_intent_statement), and both results are *)
(* composed into an artifact result                                        *)
(* (validate_..._intent_statement_artifact).  The composition derives      *)
(* again what it is told, from the bytes and from the parsed value.  Here  *)
(* one field of either result may be other than it should be.              *)
(*                                                                         *)
(* A hash is the thing hashed, an identity a set with what it stands for,  *)
(* or {}.  How bytes are parsed is PolicyText; version markers, the        *)
(* constant flags and the per-stage flags of the results are left out.     *)
(***************************************************************************)
EXTENDS Naturals, Sequences

CONSTANTS
    Raws,            \* inputs: [kind, size, value]; the value of a "valid" one
    OtherRaws,       \* the inputs a wrong field may speak of
    MaxBytes         \* MAX_RAW_STATEMENT_BYTES


VARIABLES
    raw,             \* the input
    at,              \* "parse", "compose", "done", "raised"
    wrong,           \* whose result has a field other than it should be
    parser,          \* the parser's result
    result           \* the artifact result: its state and what it keeps

composition == <<raw, at, wrong, parser, result>>

-----------------------------------------------------------------------------
(* What a statement says *)

\* The fields in the order in which they are looked at, and what is right.
Fields == <<"schema", "context", "binding", "action", "provenance">>
Right == [schema |-> {"v1"}, context |-> {"context1", "context2"},
          binding |-> {"digest1", "digest2"}, action |-> {"approve", "reject"},
          provenance |-> {"digest1", "digest2"}]

WrongFields(v) == {i \in DOMAIN Fields : v[Fields[i]] \notin Right[Fields[i]]}
FirstWrong(v) == Fields[CHOOSE i \in WrongFields(v) : \A j \in WrongFields(v) : i <= j]

\* _expected_statement_outcome, and the validator's own order of refusal: the
\* state and the one diagnostic (the schema has one for type and value).
Outcome(v) ==
    LET field == FirstWrong(v)
    IN IF v.root # "object" THEN [state |-> "root_type_invalid", diagnostic |-> {"root"}]
       ELSE IF v.keys # "exact" THEN [state |-> "key_set_invalid", diagnostic |-> {"keys"}]
       ELSE IF WrongFields(v) = {} THEN [state |-> v.action, diagnostic |-> {}]
       ELSE [state |-> IF v[field] = "number" THEN "field_type_invalid" ELSE "field_value_invalid",
             diagnostic |-> {IF v[field] = "reserved" THEN "reserved" ELSE field}]

Intents == {"approve", "reject"}
Kept(v) == [f \in {"context", "binding", "action", "provenance"} |-> v[f]]

\* validate_..._operator_approval_intent_statement
StatementResult(v) ==
    LET snapshot == IF Outcome(v).state \in Intents THEN {Kept(v)} ELSE {}
    IN [state |-> Outcome(v).state, diagnostic |-> Outcome(v).diagnostic,
        snapshot |-> snapshot, identity |-> snapshot,
        action |-> {s.action : s \in snapshot},
        approval |-> {s.action = "approve" : s \in snapshot}]

\* parse_..._intent_statement_bytes
Unread == {"absent", "type"}
ParserResult(r) ==
    [state |-> r.kind,
     diagnostic |-> IF r.kind = "valid" THEN {} ELSE {r.kind},
     size |-> IF r.kind \in Unread THEN {} ELSE {r.size},
     hash |-> IF r.kind \in Unread \cup {"size"} THEN {} ELSE {r},
     identity |-> IF r.kind = "valid" THEN {r.value} ELSE {},
     value |-> IF r.kind = "valid" THEN {r.value} ELSE {}]

InBounds(n) == 1 <= n /\ n <= MaxBytes
ParseStates == {"absent", "type", "size", "broken", "duplicate", "valid"}

\* The parser looks at the size before anything else.
RawsAssumption ==
    \A r \in Raws : /\ r.kind \in ParseStates
                    /\ r.kind \notin Unread => (r.kind = "size") = ~InBounds(r.size)
ASSUME StatementAssumption == MaxBytes \in Nat /\ RawsAssumption /\ OtherRaws \subseteq Raws

-----------------------------------------------------------------------------
(* One wrong field *)

OtherValues == {o.value : o \in {x \in OtherRaws : x.kind = "valid"}}
StatementStates == {"root_type_invalid", "key_set_invalid", "field_type_invalid",
                    "field_value_invalid"} \cup Intents

WrongParser(p) ==
    {[p EXCEPT !.state = s] : s \in ParseStates}
    \cup {[p EXCEPT !.diagnostic = s] : s \in {{}, {"broken"}, {"duplicate"}}}
    \cup {[p EXCEPT !.size = s] : s \in {{}} \cup {{o.size} : o \in OtherRaws}}
    \cup {[p EXCEPT !.hash = s] : s \in {{}} \cup {{o} : o \in OtherRaws}}
    \cup {[p EXCEPT !.identity = s] : s \in {{}} \cup {{v} : v \in OtherValues}}
    \cup {[p EXCEPT !.value = {v}] : v \in OtherValues}

WrongStatement(s) ==
    LET snapshots == {{}} \cup {{Kept(v)} : v \in {w \in OtherValues : Outcome(w).state \in Intents}}
    IN {[s EXCEPT !.state = x] : x \in StatementStates}
       \cup {[s EXCEPT !.diagnostic = x] : x \in {{}, {"keys"}, {"schema"}, {"action"}, {"reserved"}}}
       \cup {[s EXCEPT !.snapshot = x] : x \in snapshots}
       \cup {[s EXCEPT !.identity = x] : x \in snapshots}
       \cup {[s EXCEPT !.action = x] : x \in {{}, {"approve"}, {"reject"}}}
       \cup {[s EXCEPT !.approval = x] : x \in {{}, {TRUE}, {FALSE}}}

-----------------------------------------------------------------------------
(* What the composition requires *)


\* _parser_state_diagnostics
DiagnosticFits(p) == p.diagnostic = IF p.state = "valid" THEN {} ELSE {p.state}

\* _parser_result_static_valid: the fields a state goes with.
ParserFits(p) ==
    /\ DiagnosticFits(p)
    /\ IF p.state \in Unread THEN p.size = {} /\ p.hash = {}
       ELSE /\ p.size # {}
            /\ \A n \in p.size : (p.state = "size") = ~InBounds(n)
            /\ (p.hash = {}) = (p.state = "size")
    /\ (p.identity # {}) = (p.state = "valid")
    /\ p.state # "valid" => p.value = {}

\* Mutant: the hash is taken as the parser tells it
ParserSpeaksOfUnhashed(p, r) ==
    IF r.kind \in Unread THEN p.state = r.kind
    ELSE /\ p.size = {r.size} /\ p.state \notin Unread
         /\ (p.state = "size") = ~InBounds(r.size)

\* _parser_result_integrity_valid: that it is about these bytes.
ParserSpeaksOf(p, r) ==
    IF r.kind \in Unread THEN p.state = r.kind
    ELSE /\ p.size = {r.size} /\ p.state \notin Unread
         /\ (p.state = "size") = ~InBounds(r.size)
         /\ p.state # "size" => p.hash = {r}

\* _statement_result_static_valid: the fields a state goes with.
StatementFits(s) ==
    IF s.state \in Intents
    THEN /\ s.diagnostic = {} /\ s.identity # {}
         /\ \A kept \in s.snapshot : kept.action = s.state
         /\ s.action = {s.state} /\ s.approval = {s.state = "approve"}
    ELSE /\ s.diagnostic # {}
         /\ s.snapshot = {} /\ s.identity = {} /\ s.action = {} /\ s.approval = {}

\* _statement_result_integrity_valid: that it is about this value.
StatementSpeaksOf(s, v) ==
    /\ StatementFits(s)
    /\ s.state = Outcome(v).state /\ s.diagnostic = Outcome(v).diagnostic
    /\ s.state \in Intents => s.snapshot = {Kept(v)}

\* The parsed value is whole, and its identity computed again is the one told.
ParsedValueIsIdentified(p) == p.identity = p.value

\* _semantic_identity_matches
IdentityIsOfSnapshot(s) == s.identity = s.snapshot

\* _retention_requirements: whose results are kept, by state.
KeepsParser == {"raw_parse_invalid", "statement_contract_invalid",
                "statement_integrity_invalid", "semantic_identity_invalid"} \cup Intents
KeepsStatement == {"statement_contract_invalid"} \cup Intents

\* _validate_retained_state: what is kept bears the state out by itself.
RetainedBears(state, p, s) ==
    /\ state \in KeepsParser =>
           IF state = "raw_parse_invalid" THEN p.state # "valid"
           ELSE p.state = "valid" /\ ParsedValueIsIdentified(p)
    /\ state \in KeepsStatement => \A v \in p.value :
           /\ StatementSpeaksOf(s, v)
           /\ state \in Intents => s.state = state /\ IdentityIsOfSnapshot(s)
           /\ state \notin Intents => s.state \notin Intents

\* The record an artifact identity is computed over.
CompositionRecord(r) == [state |-> r.state, parser |-> r.parser, statement |-> r.statement,
                         intent |-> r.intent]

\* _validate_result_values: the fields an artifact state goes with.
ResultFits(r) == /\ (r.parser # {}) = (r.state \in KeepsParser)
                 /\ (r.statement # {}) = (r.state \in KeepsStatement)
                 /\ r.intent = {r.state} \cap Intents

Nothing == [state |-> "none", parser |-> {}, statement |-> {}, intent |-> {}, identity |-> {}]

-----------------------------------------------------------------------------
(* The steps *)

StatementInit ==
    /\ raw \in Raws
    /\ at = "parse"
    /\ wrong = {}
    /\ parser = ParserResult([kind |-> "absent"])
    /\ result = Nothing

Hand ==
    /\ at = "parse"
    /\ parser' \in {ParserResult(raw)} \cup WrongParser(ParserResult(raw))
    /\ wrong' = IF parser' = ParserResult(raw) THEN {} ELSE {"parser"}
    /\ at' = "compose"
    /\ UNCHANGED <<raw, result>>

\* _create_result: what the state keeps, and the identity over what it says.
Retained(state, s) ==
    [state |-> state,
     parser |-> IF state \in KeepsParser THEN {parser} ELSE {},
     statement |-> IF state \in KeepsStatement THEN {s} ELSE {},
     intent |-> IF state \in Intents THEN s.action ELSE {},
     identity |-> {}]

Create(state, s) ==
    LET kept == Retained(state, s)
    IN IF RetainedBears(state, parser, s) /\ ResultFits(kept)
       THEN /\ result' = IF state \in KeepsStatement
                         THEN [kept EXCEPT !.identity = {CompositionRecord(kept)}] ELSE kept
            /\ at' = "done"
       ELSE at' = "raised" /\ UNCHANGED result

CreateAlone(state) == Create(state, StatementResult(raw.value)) /\ wrong' = wrong

\* The state the validator's result leads to.
StateFrom(s, v) ==
    IF ~StatementSpeaksOf(s, v) THEN "statement_integrity_invalid"
    ELSE IF s.state \notin Intents THEN "statement_contract_invalid"
    ELSE IF ~IdentityIsOfSnapshot(s) THEN "semantic_identity_invalid" ELSE s.state

\* validate_..._statement_artifact_bytes, from the parser's result on
Compose ==
    /\ at = "compose"
    /\ \/ ~(ParserFits(parser) /\ ParserSpeaksOf(parser, raw))
          /\ CreateAlone("parser_integrity_invalid")
       \/ /\ ParserFits(parser) /\ ParserSpeaksOf(parser, raw)
          /\ \/ parser.state # "valid" /\ CreateAlone("raw_parse_invalid")
             \/ /\ parser.state = "valid" /\ ~ParsedValueIsIdentified(parser)
                /\ CreateAlone("parsed_identity_invalid")
             \/ /\ parser.state = "valid" /\ ParsedValueIsIdentified(parser)
                /\ \E v \in parser.value :
                   \E s \in {StatementResult(v)} \cup WrongStatement(StatementResult(v)) :
                       /\ Create(StateFrom(s, v), s)
                       /\ wrong' = IF s = StatementResult(v) THEN wrong
                                   ELSE wrong \cup {"statement"}
    /\ UNCHANGED <<raw, parser>>

StatementNext == Hand \/ Compose

StatementSpec == StatementInit /\ [][StatementNext]_composition

-----------------------------------------------------------------------------
(* Properties *)

\* The state the bytes themselves lead to.
TrueState == IF raw.kind # "valid" THEN "raw_parse_invalid"
             ELSE IF Outcome(raw.value).state \in Intents THEN Outcome(raw.value).state
             ELSE "statement_contract_invalid"

\* An artifact that has an identity says of the bytes what the bytes say, and
\* keeps what an honest parser and validator tell of them, with one field of
\* either result wrong or none: no wrong field turns a rejection into an
\* approval, and none makes the composition contradict itself.  With nothing
\* wrong the state is that of the bytes.
StatementSound ==
    /\ at # "raised"
    /\ result.identity # {} =>
           /\ result.state = TrueState
           /\ result.parser = {ParserResult(raw)}
           /\ result.statement = {StatementResult(raw.value)}
    /\ result.state = "raw_parse_invalid" => raw.kind # "valid"
    /\ at = "done" /\ wrong = {} => result.state = TrueState
=============================================================================
