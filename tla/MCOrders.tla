------------------------------ MODULE MCOrders ------------------------------
(***************************************************************************)
(* Orders and answers: the publication of three pasted answers, the        *)
(* validator of their orders, the parsers of operator texts, the validator *)
(* of a shadow answer, and the capture, the approvals and the statements   *)
(* of the Step 2 market source policy. A behaviour is of one of them; the  *)
(* others rest.                                                            *)
(***************************************************************************)
EXTENDS OrderPublish, OrdersValidator, ApprovalStatement, PolicyApproval, TLC

CONSTANTS Tools, r, a, b, Leaf, Odd

VARIABLES
  tool,  \* the one this behaviour is about
  part1, part2, part3, part4, part5, part6,
  part7, part8, part9, part10  \* its variables, if it is an instance

parts == <<part1, part2, part3, part4, part5, part6, part7, part8, part9,
            part10>>

-----------------------------------------------------------------------------
\* The order validator: two tickers, one base and one extended, two slots,
\* answers of two rows and packets of two plans; the amounts stand on both
\* sides of the cap of 5, the target of 2 and the tolerance of 1.
AllSet == [cap |-> 5, target |-> 2, limits |-> [base |-> 1, extended |-> 1], universe |-> {a, b}]
SettingsChoices ==
  {AllSet,
   [AllSet EXCEPT !.cap = Absent],
   [AllSet EXCEPT !.target = Absent],
   [AllSet EXCEPT !.cap = Damaged, !.limits = Damaged],
   [AllSet EXCEPT !.limits = [base |-> 1, extended |-> 0], !.universe = {a}]}

PlansOf(t) ==
  { [ticker |-> t, action |-> c[1], compiled |-> c[2], target |-> c[3], existing |-> c[4]] :
    c \in {<<"KEEP_EXISTING", 2, 2, 3>>, <<"NEW_ORDER", 2, 3, 0>>,
           <<"REPLACE_EXISTING", 4, 4, 0>>, <<"CANCEL_EXISTING", 0, 0, 0>>} }
OddPlan(what, compiled, target) ==
  [ticker |-> a, action |-> what, compiled |-> compiled, target |-> target, existing |-> 3]
Plans2 == PlansOf(a) \cup PlansOf(b)
          \cup {OddPlan("KEEP_EXISTING", 4, 1), OddPlan("BUY", -1, Damaged)}

RowsOf(t) ==
  { [ticker |-> t, slot |-> c[1], intent |-> c[2], notional |-> c[3]] :
    c \in {<<1, "NEW_ORDER", 2>>, <<2, "NEW_ORDER", 1>>, <<1, "NEW_ORDER", Absent>>,
           <<1, "REPLACE", 2>>, <<1, "REPLACE_EXISTING_CANCEL_LEG", 0>>,
           <<2, "REPLACE_EXISTING_SUBMIT_LEG", 4>>, <<2, "CANCEL_EXISTING", 0>>} }
OddRow(notional) == [ticker |-> a, slot |-> 1, intent |-> "SUBMIT_BUY", notional |-> notional]
Rows2 == RowsOf(a) \cup RowsOf(b) \cup {OddRow(-2), OddRow(Damaged)}

\* A line of the snapshot is there only where a plan to keep reads it.
NotedWhereKept ==
  \A t \in Tickers : snapshot'[t] = Absent
    \/ \E j \in DOMAIN plans' : plans'[j].ticker = t /\ plans'[j].action = "KEEP_EXISTING"

-----------------------------------------------------------------------------
\* The two parsers of policy texts: keys that differ, keys that repeat
\* under two spellings, half a pair of surrogates, a string too long and a
\* malformed one.
TextStrings == {<<"a">>, <<"P">>, <<"hi", "lo">>, <<"A", "a">>, <<"hi">>, <<"bad">>}
TextLexemes == {"null", "long", "infinite"}
TextRaws == {"absent", "foreign", "empty", "oversize", "bom", "undecodable", "text"}

Text == INSTANCE PolicyText WITH
  Strings <- TextStrings, Lexemes <- TextLexemes, Raws <- TextRaws,
  MaxTokens <- 9, MaxDepth <- 1, MaxNodes <- 3, MaxMembers <- 1,
  MaxItems <- 2, MaxString <- 1, MaxTotal <- 1, MaxCanonical <- 28,
  raw <- part1, text <- part2, ended <- part3, full <- part4, fast <- part5

\* A text goes wrong in one or two places, and a long one is an object of two
\* members, the first of them null.
PlainToken(token) == IF token.t = "string" THEN token.units \in {<<"a">>, <<"P">>} ELSE token.t \notin {"long", "infinite"}
ShortOrTwoMembers ==
  /\ Cardinality({i \in DOMAIN part2' : ~PlainToken(part2'[i])}) <= 2
  /\ Len(part2') > 7 => part2'[1].t = "{" /\ part2'[4].t = "null"

-----------------------------------------------------------------------------
\* The validator of a shadow answer: one generation, packaged twice with a
\* different diagnostic file, and another generation.
ResponseWords == INSTANCE ShadowResponse WITH
  Packages <- {}, Texts <- {}, Term <- <<>>, MaxEntries <- 2,
  MaxTotal <- 4, MaxReferences <- 2, MaxText <- 4, MaxChanges <- 2,
  current <- part1, contracts <- part2, changes <- part3, handed <- part4,
  answer <- part5, at <- part6, package <- part7, read <- part8,
  verdict <- part9, captured <- part10

Hashed(id, hash) == [id |-> id, hash |-> hash]
Package(id, generation, manifest, e2) ==
  [id |-> id, generation |-> generation, diagnostics |-> {"e1", "e2"},
   artifacts |-> <<Hashed("manifest", manifest), Hashed("evidence", generation)>>,
   evidence |-> <<Hashed("e1", generation), Hashed("e2", e2), Hashed("e3", "h")>>]
SomePackages == {Package("p1", "g1", "m1", "h1"), Package("p2", "g1", "m2", "h2"), Package("p3", "g2", "m3", "h1")}

SomeTexts == UNION {[1..n -> {"a", "b", ResponseWords!Mark}] : n \in 1..4}
ProhibitedTerm == <<"a", "-", "b">>

Response == INSTANCE ShadowResponse WITH
  Packages <- SomePackages, Texts <- SomeTexts, Term <- ProhibitedTerm,
  MaxEntries <- 2, MaxTotal <- 4, MaxReferences <- 2, MaxText <- 4,
  MaxChanges <- 2,
  current <- part1, contracts <- part2, changes <- part3, handed <- part4,
  answer <- part5, at <- part6, package <- part7, read <- part8,
  verdict <- part9, captured <- part10

\* A second change of the contracts takes the first one back.
ContractsReturn == Cardinality({f \in Response!Files : part2'[f] # "frozen"}) <= 1

-----------------------------------------------------------------------------
\* The capture of an object: three containers, one of them handed to the
\* validator; depth and node limits just above and just below what they
\* reach.

\* nothing, a shared child, two different ones, a plain value, a value of another
\* type, and a way back to the root
ChildLists == {<<>>, <<a, b>>, <<b, b>>, <<Leaf>>, <<Odd>>, <<Leaf, r>>}

Objects == INSTANCE ObjectCapture WITH
  Containers <- {r, a, b}, Root <- r, Contents <- ChildLists,
  MaxDepth <- 2, MaxNodes <- 5, MaxEdits <- 2,
  validator <- part1, heaps <- part2, stack <- part3, half <- part4,
  taken <- part5, completed <- part6, count <- part7, outcome <- part8

ASSUME Objects!RootAssumption
ASSUME Objects!LimitAssumption

\* A container nothing refers to starts empty.
HeldOrEmpty ==
  LET heap == part2[1]
      below == Range(heap[r])
  IN \A c \in {a, b} \ below : (\A d \in below \cap {a, b} : c \notin Range(heap[d])) => heap[c] = <<>>

-----------------------------------------------------------------------------
\* The policy approvals lane: approvals of up to two sources and two
\* aliases, one over the bound.
LowerCases == [a |-> "a", A |-> "a", b |-> "b", B |-> "b", c |-> "c", C |-> "c"]
ApprovalSources == [id : {"a", "b", "A"}, aliases : {<<>>, <<"C">>, <<"c">>, <<"B">>, <<"c", "C">>},
            permissions : {<<"p">>, <<"p", "p">>, <<"wildcard">>}]
Plain == [id |-> "a", aliases |-> <<>>, permissions |-> <<"p">>]

SaysOf(list) == [version |-> "v1", supersedes |-> {}, provenance |-> TRUE,
                     sources |-> list]
Of(content) == [declared |-> {content}, defects |-> {}, content |-> content]
Object(x) == [kind |-> "object", approval |-> x]

First == Of(SaysOf(<<>>))
Second == Of(SaysOf(<<Plain>>))

\* what may be wrong beside the sources
OddApprovals == {[Second EXCEPT !.content.version = "latest"], [Second EXCEPT !.declared = {}],
        [Second EXCEPT !.content.supersedes = {"v1"}], [Second EXCEPT !.declared = {First.content}],
        [Second EXCEPT !.content.provenance = FALSE],
        [Second EXCEPT !.defects = {"schema", "alias"}], [Second EXCEPT !.defects = {"permission"}],
        Of([Second.content EXCEPT !.supersedes = {"v2"}, !.sources = <<[Plain EXCEPT !.permissions = <<"role">>]>>]),
        Of(SaysOf(<<[Plain EXCEPT !.permissions = <<"field", "q">>]>>))}

ApprovalInputs == {[kind |-> k, approval |-> First] : k \in {"absent", "type", "size", "broken", "list"}}
          \cup {Object(x) : x \in OddApprovals \cup {First, Second}}
          \cup {Object(Of(SaysOf(<<s>>))) : s \in ApprovalSources}
          \cup {Object(Of(SaysOf(<<s, t>>))) : s \in ApprovalSources, t \in {u \in ApprovalSources : u.permissions = <<"p">>}}
OtherApprovals == {Object(First), Object(Second), [kind |-> "list", approval |-> First]}

-----------------------------------------------------------------------------
\* The operator approval statements: every combination of field values.
Approve == [root |-> "object", keys |-> "exact", schema |-> "v1", context |-> "context1",
            binding |-> "digest1", action |-> "approve", provenance |-> "digest1"]

Values == [root : {"object"}, keys : {"exact", "other"}, schema : {"v1", "v0", "number"},
           context : {"context1", "context2", "reserved", "syntax", "number"},
           binding : {"digest1", "digest2", "syntax", "number"},
           action : {"approve", "reject", "syntax", "number"},
           provenance : {"digest1", "syntax", "number"}]
          \cup {[Approve EXCEPT !.root = x] : x \in {"null", "list"}}

ValidBytes(v, n) == [kind |-> "valid", size |-> n, value |-> v]
Unusable == {[kind |-> k, size |-> 2, value |-> Approve] : k \in {"absent", "type", "broken", "duplicate"}}
            \cup {[kind |-> "size", size |-> n, value |-> Approve] : n \in {0, 4}}

StatementInputs == {ValidBytes(v, 2) : v \in Values} \cup {ValidBytes(Approve, n) : n \in {1, 3}} \cup Unusable
OtherStatements == {ValidBytes(Approve, 2), ValidBytes([Approve EXCEPT !.action = "reject"], 2),
             ValidBytes([Approve EXCEPT !.root = "null"], 2),
             ValidBytes(Approve, 3)} \cup {x \in Unusable : x.size \in {0, 4}}

-----------------------------------------------------------------------------
InitOrders ==
  /\ tool \in Tools
  /\ Init /\ BookInit
  /\ tool # "validator" => settings = AllSet
  /\ StatementInit /\ (tool # "statement" => raw = ValidBytes(Approve, 2))
  /\ ApprovalInit /\ (tool # "approval" => document = Object(First))
  /\ \/ tool \in {"publish", "validator", "statement", "approval"} /\ part1 = "off" /\ part2 = "off" /\
          part3 = "off" /\ part4 = "off" /\ part5 = "off" /\
          part6 = "off" /\ part7 = "off" /\ part8 = "off" /\
          part9 = "off" /\ part10 = "off"
     \/ tool = "text" /\ Text!Init /\ part6 = "off" /\ part7 = "off"
        /\ part8 = "off" /\ part9 = "off" /\ part10 = "off"
     \/ tool = "response" /\ Response!Init
     \/ tool = "object" /\ Objects!Init /\ HeldOrEmpty /\ part9 = "off" /\ part10 = "off"

\* The commands that have run their course stay where they are.
AtRest ==
  \/ tool = "text" /\ ~Text!Reading(part4)
  \/ tool = "object" /\ part8 # "running"
  \/ tool = "approval" /\ stage \in {"done", "raised"}
  \/ tool = "statement" /\ at \in {"done", "raised"}

NextOrders ==
  \/ tool = "publish" /\ Next /\ UNCHANGED <<tool, book, composition, approving, parts>>
  \/ tool = "validator" /\ BookNext /\ NotedWhereKept /\ UNCHANGED <<tool, vars, composition, approving, parts>>
  \/ tool = "text" /\ Text!Next /\ ShortOrTwoMembers /\ UNCHANGED <<tool, vars, book,
       composition, approving, part6, part7, part8, part9, part10>>
  \/ tool = "response" /\ Response!Next /\ ContractsReturn /\ UNCHANGED <<tool, vars, book, composition, approving>>
  \/ tool = "object" /\ Objects!Next /\ UNCHANGED <<tool, vars, book,
       composition, approving, part9, part10>>
  \/ tool = "approval" /\ ApprovalNext /\ UNCHANGED <<tool, vars, book, composition, parts>>
  \/ tool = "statement" /\ StatementNext /\ UNCHANGED <<tool, vars, book, approving, parts>>
  \/ AtRest /\ UNCHANGED <<tool, vars, book, composition, approving, parts>>

SpecOrders == InitOrders /\ [][NextOrders]_<<tool, vars, book, composition, approving, parts>>

-----------------------------------------------------------------------------
\* The parsers of operator statements and of approvals artifacts accept
\* just the texts their grammar and bounds allow, and name a defect the
\* text has.
TextsMeetGrammar ==
  tool = "text" => Text!StatementMeetsGrammar /\ Text!ArtifactMeetsGrammar

\* A captured shadow answer answers the package it was written to and says
\* nothing prohibited; a right one is turned down only when something
\* changed.
ResponseSound ==
  tool = "response" => Response!TypeOK /\ Response!ResponseIsSound

\* A captured object stood together at one moment, up to branches the
\* validators cannot tell apart, and one nobody touches is captured
\* whenever it is within the limits.
ObjectSound ==
  tool = "object" => Objects!ObjectCaptured
=============================================================================
