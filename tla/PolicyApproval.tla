--------------------------- MODULE PolicyApproval ---------------------------
(***************************************************************************)
(* The way of a market source policy approval from bytes to a binding:     *)
(* the parser's result and the object validator's are composed into an     *)
(* artifact result with an identity of its own (validate_..._approval_     *)
(* artifact), and the artifact is compared with the identity somebody      *)
(* expects (bind_..._expected_identity).  Neither composition trusts what  *)
(* it is handed: each field is checked against what the state allows, the  *)
(* claims against the parsed value, the identity against its record.       *)
(* Here one field, once, may be other than it should be: in the parser's   *)
(* result, in the object validator's, or in the artifact result while it   *)
(* is kept.                                                                *)
(*                                                                         *)
(* A hash is the thing hashed (no collisions), so an identity is a set     *)
(* with the value it stands for, or {}.  How bytes are parsed is           *)
(* PolicyText; how the object is captured is ObjectCapture; version        *)
(* markers and the constant flags of the results are left out.             *)
(***************************************************************************)
EXTENDS Naturals, Sequences, FiniteSets

CONSTANTS
    Documents,       \* inputs: [kind, approval]; the approval of an "object"
    OtherDocuments,  \* the inputs a wrong field may speak of
    LowerCase,       \* spelling |-> lower-case spelling, of every name
    SourceIds,       \* the spellings _valid_id takes, all lower-case
    MaxAliases,      \* MAX_TOTAL_ALIASES
    MaxPermissions   \* MAX_TOTAL_PERMISSION_TUPLES

VARIABLES
    document,        \* the input
    stage,           \* "parse", "compose", "bind", "done", "raised"
    fault,           \* where a field was other than it should be, or "nowhere"
    parsed,          \* the parser's result
    composed,        \* the artifact result as it was composed
    held,            \* the artifact result as it is kept since
    bound            \* the binding: its state and the identity expected

approving == <<document, stage, fault, parsed, composed, held, bound>>

-----------------------------------------------------------------------------
(* What an approval says, and what is the matter with it *)

\* The defects of structure, in the order in which they are named.
StructuralOrder == <<"keys", "schema", "content", "declared", "version",
                     "provenance", "id", "revision", "alias", "permission">>

Defects == {StructuralOrder[i] : i \in DOMAIN StructuralOrder}

\* The one diagnostic of a structural failure: the first there is.
DefectPlaces(a) == {i \in DOMAIN StructuralOrder : StructuralOrder[i] \in a.defects}
StructuralDiagnostic(a) ==
    StructuralOrder[CHOOSE i \in DefectPlaces(a) : \A j \in DefectPlaces(a) : i <= j]

Usable(version) == version \in {"v1", "v2"}       \* not "latest" and the like

\* An alias or a permission is at a place: its source, and where in the source.
AliasPlaces(c) == UNION {{i} \X DOMAIN c.sources[i].aliases : i \in DOMAIN c.sources}
AliasAt(c, p) == c.sources[p[1]].aliases[p[2]]
Lowered(c, p) == LowerCase[AliasAt(c, p)]
PermissionPlaces(c) == UNION {{i} \X DOMAIN c.sources[i].permissions : i \in DOMAIN c.sources}
PermissionAt(c, p) == c.sources[p[1]].permissions[p[2]]
ValidIds(c) == {i \in DOMAIN c.sources : c.sources[i].id \in SourceIds}

\* A permission is a tuple that is in order, or the first thing wrong with it.
GoodPermissions == {"p", "q"}
PermissionFinding == [wildcard |-> "implicit_or_wildcard", role |-> "unknown_role",
                      field |-> "permission"]

\* A name may lead to one source only, however it is spelled; beyond the bound
\* the names are not compared, the bound itself being a finding.
AliasFindings(c) ==
    LET valid == {p \in AliasPlaces(c) : AliasAt(c, p) \in DOMAIN LowerCase}
    IN IF Cardinality(AliasPlaces(c)) > MaxAliases THEN {"alias"}
       ELSE (IF valid # AliasPlaces(c) THEN {"alias"} ELSE {})
            \cup (IF \E p, q \in valid : p # q /\ Lowered(c, p) = Lowered(c, q) THEN {"duplicate_alias"} ELSE {})
            \cup (IF \E p \in valid, i \in ValidIds(c) : Lowered(c, p) = c.sources[i].id THEN {"collision"} ELSE {})

PermissionFindings(c) ==
    LET odd == {PermissionAt(c, p) : p \in PermissionPlaces(c)} \ GoodPermissions
        repeated == \E p, q \in PermissionPlaces(c) :
                        /\ p # q /\ p[1] = q[1]
                        /\ PermissionAt(c, p) \in GoodPermissions /\ PermissionAt(c, p) = PermissionAt(c, q)
    IN {PermissionFinding[x] : x \in odd}
       \cup (IF Cardinality(PermissionPlaces(c)) > MaxPermissions THEN {"permission"}
             ELSE IF repeated THEN {"duplicate_permission"} ELSE {})

ContentFindings(c) ==
    (IF ~Usable(c.version) \/ (\E v \in c.supersedes : ~Usable(v)) \/ c.supersedes = {c.version}
     THEN {"version"} ELSE {})
    \cup (IF c.provenance THEN {} ELSE {"provenance"})
    \cup (IF ValidIds(c) = DOMAIN c.sources THEN {} ELSE {"id"})
    \cup (IF \E i, j \in ValidIds(c) : i # j /\ c.sources[i].id = c.sources[j].id THEN {"duplicate_id"} ELSE {})

Findings(a) ==
    (IF a.declared = {} THEN {"declared"} ELSE {})
    \cup ContentFindings(a.content) \cup AliasFindings(a.content) \cup PermissionFindings(a.content)
    \cup (IF a.declared \notin {{}, {a.content}} THEN {"mismatch"} ELSE {})

\* The documents are what a parser may be given: at most so much is the matter with one.
DocumentsAssumption ==
    \A d \in Documents :
        /\ d.kind \in {"absent", "type", "size", "broken", "list", "object"}
        /\ d.approval.defects \subseteq Defects
        /\ \A p \in PermissionPlaces(d.approval.content) :
              PermissionAt(d.approval.content, p) \in GoodPermissions \cup DOMAIN PermissionFinding
ASSUME ApprovalAssumption ==
    /\ MaxAliases \in Nat /\ MaxPermissions \in Nat
    /\ SourceIds \subseteq DOMAIN LowerCase /\ \A n \in SourceIds : LowerCase[n] = n
    /\ OtherDocuments \subseteq Documents /\ DocumentsAssumption

\* _canonical_json_identity: two values have one identity only if they are one.
Digest(x) == {x}

\* What the results hold of an approval whose structure is in order.
Claims(a) ==
    [version |-> IF Usable(a.content.version) THEN {a.content.version} ELSE {},
     declared |-> a.declared, canonical |-> Digest(a.content),
     matches |-> IF a.declared = {} THEN {} ELSE {a.declared = {a.content}},
     count |-> {Len(a.content.sources)}]
NoClaims == [version |-> {}, declared |-> {}, canonical |-> {}, matches |-> {},
             count |-> {}]
ClaimsOf(o) == [version |-> o.version, declared |-> o.declared, canonical |-> o.canonical,
                matches |-> o.matches, count |-> o.count]

\* validate_..._approvals_object
ObjectResult(a) ==
    LET claims == IF a.defects # {} THEN NoClaims ELSE Claims(a)
    IN [state |-> IF a.defects # {} THEN "structurally_invalid"
                  ELSE IF Findings(a) # {} THEN "semantically_invalid"
                  ELSE IF Len(a.content.sources) = 0 THEN "valid_empty" ELSE "valid_nonempty",
        diagnostics |-> IF a.defects # {} THEN {StructuralDiagnostic(a)} ELSE Findings(a),
        version |-> claims.version, declared |-> claims.declared, canonical |-> claims.canonical,
        matches |-> claims.matches, count |-> claims.count]

\* parse_..._approvals_bytes
Unhashed == {"absent", "type", "size"}
Unparsed == Unhashed \cup {"broken"}
ParsedResult(d) ==
    [state |-> IF d.kind \in Unparsed THEN d.kind ELSE "valid",
     hash |-> IF d.kind \in Unhashed THEN {} ELSE Digest(d),
     identity |-> IF d.kind \in Unparsed THEN {} ELSE Digest(d),
     value |-> IF d.kind \in Unparsed THEN {} ELSE {d},
     diagnostics |-> IF d.kind \in Unparsed THEN {d.kind} ELSE {}]

-----------------------------------------------------------------------------
(* One wrong field *)

SomeOther == {{}} \cup {{o} : o \in OtherDocuments}
OtherContents == {{}} \cup {{o.approval.content} : o \in OtherDocuments}

\* A parser's result with one field other than it should be.
WrongParsed(p) ==
    {[p EXCEPT !.state = s] : s \in {"absent", "type", "size", "broken", "valid"}}
    \cup {[p EXCEPT !.hash = s] : s \in SomeOther}
    \cup {[p EXCEPT !.identity = s] : s \in SomeOther}
    \cup {[p EXCEPT !.value = s] : s \in SomeOther}
    \cup {[p EXCEPT !.diagnostics = s] : s \in {{}, {"type"}, {"broken"}}}

\* An object result with one field other than it should be.
WrongObject(o) ==
    {[o EXCEPT !.state = s] : s \in {"input_absent", "structurally_invalid",
                              "semantically_invalid", "valid_empty", "valid_nonempty"}}
    \cup {[o EXCEPT !.version = s] : s \in {{}, {"v1"}, {"v2"}}}
    \cup {[o EXCEPT !.declared = s] : s \in OtherContents}
    \cup {[o EXCEPT !.canonical = s] : s \in OtherContents}
    \cup {[o EXCEPT !.matches = s] : s \in {{}, {TRUE}, {FALSE}}}
    \cup {[o EXCEPT !.count = s] : s \in {{}, {0}, {1}}}
    \cup {[o EXCEPT !.diagnostics = s] : s \in {{}, {"mismatch"}, {"alias"}, {"declared"}}}

\* A kept artifact result with one field other than it was composed.
WrongHeld(h) ==
    {[h EXCEPT !.state = s] : s \in {"object_contract_invalid", "valid_empty",
                              "valid_nonempty", "raw_parse_invalid"}}
    \cup {[h EXCEPT !.parser = p] : p \in WrongParsed(h.parser)}
    \cup (IF h.object = {} THEN {}
          ELSE {[h EXCEPT !.object = {o}] : o \in WrongObject(CHOOSE x \in h.object : TRUE)})
    \cup {[h EXCEPT !.identity = {}]}

\* What was handed over is right, or the one field that may be wrong is here.
Handed(got, right, others, where) ==
    \/ got = right /\ fault' = fault
    \/ fault = "nowhere" /\ fault' = where /\ got \in others \ {right}

-----------------------------------------------------------------------------
(* What a composition requires of what it is handed *)

\* What goes with a refusal: its own diagnostic, and a hash if it was read.
RefusalFits(p) == /\ p.diagnostics = {p.state}
                  /\ (p.state \in Unhashed) <=> (p.hash = {})

\* _validate_parser_result: the fields a state goes with.
ParsedFits(p) ==
    IF p.state = "valid"
    THEN p.hash # {} /\ p.identity # {} /\ p.value # {} /\ p.diagnostics = {}
    ELSE p.identity = {} /\ p.value = {} /\ RefusalFits(p)

\* _validate_object_result_fields: likewise, of the object's result.
ObjectFits(o) ==
    \/ /\ o.state = "structurally_invalid"
       /\ ClaimsOf(o) = NoClaims
       /\ \E x \in Defects : o.diagnostics = {x}
    \/ /\ o.state = "semantically_invalid"
       /\ o.diagnostics # {} /\ o.diagnostics \cap {"keys", "schema", "content"} = {}
       /\ o.canonical # {} /\ o.count # {}
       /\ o.version = {} => "version" \in o.diagnostics
       /\ IF o.declared = {}
          THEN o.matches = {} /\ "declared" \in o.diagnostics /\ "mismatch" \notin o.diagnostics
          ELSE /\ "declared" \notin o.diagnostics
               /\ o.matches = {o.declared = o.canonical}
               /\ ("mismatch" \in o.diagnostics) <=> (o.matches = {FALSE})
    \/ /\ o.state \in {"valid_empty", "valid_nonempty"}
       /\ o.version # {} /\ o.canonical # {} /\ o.declared = o.canonical
       /\ o.matches = {TRUE} /\ o.diagnostics = {} /\ o.count # {}
       /\ (o.state = "valid_empty") <=> (o.count = {0})

\* _validate_object_result_against_converted_root
ObjectSpeaksOf(o, value) ==
    o.state # "structurally_invalid" =>
        /\ value.approval.defects \cap {"keys", "schema", "content", "declared",
                                   "version"} = {}
        /\ ClaimsOf(o) = Claims(value.approval)

ObjectStates == {"object_contract_invalid", "valid_empty", "valid_nonempty"}
Eligible == {"valid_empty", "valid_nonempty"}

\* The record an artifact identity is computed over: all but the value itself.
IdentityRecord(h) == [state |-> h.state, object |-> h.object,
                      parser |-> [h.parser EXCEPT !.value = {}]]

\* The artifact state an object result leads to.
ArtifactState(o) == IF o.state \in {"structurally_invalid", "semantically_invalid"}
                    THEN "object_contract_invalid" ELSE o.state

NoArtifact == [state |-> "none", parser |-> ParsedResult([kind |-> "absent"]),
               object |-> {}, identity |-> {}]

-----------------------------------------------------------------------------
(* The steps *)

ApprovalInit ==
    /\ document \in Documents
    /\ stage = "parse"
    /\ fault = "nowhere"
    /\ parsed = NoArtifact.parser
    /\ composed = NoArtifact
    /\ held = NoArtifact
    /\ bound = [state |-> "none", expected |-> {}, identity |-> {}]

Raise == stage' = "raised" /\ UNCHANGED <<composed, held>>

HandOver ==
    /\ stage = "parse"
    /\ \E p \in {ParsedResult(document)} \cup WrongParsed(ParsedResult(document)) :
           /\ Handed(p, ParsedResult(document), WrongParsed(ParsedResult(document)), "parser")
           /\ parsed' = p
    /\ stage' = "compose"
    /\ UNCHANGED <<document, composed, held, bound>>

\* The artifact result of a state that is reached without the object's result.
ComposeEarly(state) ==
    /\ composed' = [state |-> state, parser |-> parsed, object |-> {}, identity |-> {}]
    /\ held' = composed'
    /\ stage' = "bind"
    /\ fault' = fault

\* Mutant: the identity of the parsed value is not computed again
IdentityIsOfValueNever == TRUE

IdentityIsOfValue == parsed.identity = parsed.value

ComposeWhole(value) ==
    LET right == ObjectResult(value.approval)
    IN \E o \in {right} \cup WrongObject(right) :
           /\ Handed(o, right, WrongObject(right), "object")
           /\ IF /\ ObjectFits(o) /\ ObjectSpeaksOf(o, value)
              THEN LET h == [state |-> ArtifactState(o), parser |-> parsed, object |-> {o},
                             identity |-> {}]
                   IN /\ composed' = [h EXCEPT !.identity = Digest(IdentityRecord(h))]
                      /\ held' = composed'
                      /\ stage' = "bind"
              ELSE Raise

\* validate_..._approval_artifact_bytes, from the parser's result on
ComposeArtifact ==
    /\ stage = "compose"
    /\ \/ ~ParsedFits(parsed) /\ Raise /\ fault' = fault
       \/ /\ ParsedFits(parsed)
          /\ \/ parsed.state \in {"absent", "type"} /\ ComposeEarly(parsed.state)
             \/ parsed.state \in {"size", "broken"} /\ ComposeEarly("raw_parse_invalid")
             \/ parsed.state = "valid" /\ \E v \in parsed.value :
                    \/ v.kind # "object" /\ ComposeEarly("root_type_invalid")
                    \/ v.kind = "object" /\ ~IdentityIsOfValue
                           /\ ComposeEarly("parsed_identity_invalid")
                    \/ v.kind = "object" /\ IdentityIsOfValue /\ ComposeWhole(v)
    /\ UNCHANGED <<document, parsed, bound>>

\* Between composing and binding the kept result comes to differ in one field.
Alter ==
    /\ stage = "bind" /\ fault = "nowhere" /\ held.identity # {}
    /\ fault' = "held"
    /\ held' \in WrongHeld(held) \ {held}
    /\ UNCHANGED <<document, stage, parsed, composed, bound>>

\* What the binder asks of the parser's result and of the object's in it.
HeldParsedFits(h) == ParsedFits(h.parser)
HeldObjectFits(h) == \A o \in h.object : ObjectFits(o) /\ ArtifactState(o) = h.state

\* _validate_artifact_result: the fields an artifact state goes with.
ArtifactFits(h) ==
    /\ HeldParsedFits(h) /\ HeldObjectFits(h)
    /\ CASE h.state \in {"absent", "type"} -> h.parser.state = h.state
         [] h.state = "raw_parse_invalid" -> h.parser.state \in {"size", "broken"}
         [] OTHER -> h.parser.state = "valid"
    /\ h.parser.state = "valid" =>
           (h.state = "root_type_invalid") <=> (\A v \in h.parser.value : v.kind # "object")
    /\ (h.object # {}) <=> (h.state \in ObjectStates)
    /\ (h.identity # {}) <=> (h.state \in ObjectStates)

IdentityStands(h) == h.state \in ObjectStates => h.identity = {IdentityRecord(h)}

\* The identities somebody may expect: this artifact's, or another's.
Expectations == {composed.identity}
    \cup {{IdentityRecord([state |-> ArtifactState(ObjectResult(o.approval)), parser |-> ParsedResult(o),
                           object |-> {ObjectResult(o.approval)}, identity |-> {}])} :
              o \in {x \in OtherDocuments : x.kind = "object"}}

Compared == {"match", "mismatch"}

\* The record a binding's own identity is computed over.
BindingRecord(b, h) == [state |-> b.state, expected |-> b.expected,
                        artifact |-> h.identity, artifactState |-> h.state]

\* _validate_result_components: the fields a binding state goes with.
BindingFits(b, h) ==
    /\ (b.expected = {}) <=> (b.state = "input_invalid")
    /\ (h.state \in Eligible) <=> (b.state \in Compared)
    /\ b.state \in Compared => ((b.state = "match") <=> (b.expected = h.identity))

\* What is expected is compared with what is held, if that may be bound at all.
Comparison(expected) == IF held.state \notin Eligible THEN "not_valid"
                        ELSE IF held.identity = expected THEN "match" ELSE "mismatch"

BindAs(b) ==
    /\ stage' = "done"
    /\ bound' = [state |-> b.state, expected |-> b.expected,
                 identity |-> IF b.state \in Compared THEN Digest(BindingRecord(b, held)) ELSE {}]

\* bind_..._expected_identity; what it expects is a digest, or is not ({})
Bind ==
    /\ stage = "bind"
    /\ \/ BindAs([state |-> "input_invalid", expected |-> {}])
       \/ \E expected \in Expectations \ {{}} :
              LET result == [state |-> Comparison(expected), expected |-> expected]
              IN IF /\ ArtifactFits(held) /\ IdentityStands(held) /\ BindingFits(result, held)
                 THEN BindAs(result) ELSE stage' = "raised" /\ UNCHANGED bound
    /\ UNCHANGED <<document, fault, parsed, composed, held>>

ApprovalNext == HandOver \/ ComposeArtifact \/ Alter \/ Bind

ApprovalSpec == ApprovalInit /\ [][ApprovalNext]_approving

-----------------------------------------------------------------------------
(* Properties *)

\* Every spelling of a name leads to one source at most.
Spelled(content, i) ==
    {LowerCase[content.sources[i].id]}
    \cup {LowerCase[content.sources[i].aliases[k]] : k \in DOMAIN content.sources[i].aliases}
NamesResolve(content) ==
    \A i, j \in DOMAIN content.sources : i # j => Spelled(content, i) \cap Spelled(content, j) = {}

\* The parsed value apart, which no identity is computed over again, the bound
\* result is the one that was composed, and was the one expected.
BoundAsComposed ==
    /\ [held EXCEPT !.parser.value = {}] = [composed EXCEPT !.parser.value = {}]
    /\ bound.expected = composed.identity
    /\ bound.identity = Digest(BindingRecord([state |-> "match", expected |-> composed.identity], composed))

\* A binding that matches is of a valid approval: the bytes are one, what the
\* result claims of them is so, and its names resolve, whichever one field was
\* wrong on the way.  (Of the raw bytes' own hash the lane believes the parser.)
MatchIsOfValidApproval ==
    bound.state = "match" =>
        /\ document.kind = "object" /\ document.approval.defects = {} /\ Findings(document.approval) = {}
        /\ \A o \in composed.object : o = ObjectResult(document.approval)
        /\ NamesResolve(document.approval.content)
        /\ BoundAsComposed

\* With nothing wrong nothing is raised, and a valid approval is refused only
\* for another's identity.
HonestIsBound ==
    fault = "nowhere" =>
        /\ stage # "raised"
        /\ bound.state \in {"mismatch", "not_valid"} =>
               bound.expected # composed.identity \/ ObjectResult(document.approval).diagnostics # {}

\* A binding that matches is of a valid approval with the expected identity, also
\* when one field of a result is wrong, and an honest approval is bound.
ApprovalSound == MatchIsOfValidApproval /\ HonestIsBound
=============================================================================
