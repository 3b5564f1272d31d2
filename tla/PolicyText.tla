----------------------------- MODULE PolicyText -----------------------------
(***************************************************************************)
(* The two hand-written JSON parsers in front of the Step 2 market source  *)
(* policy.  An approval-intent statement is read to its end whatever is    *)
(* wrong with it, under bounds on what is retained, and its defects are    *)
(* ranked afterwards; an approvals artifact is refused at its first        *)
(* defect.  Neither recurses: an explicit stack of frames meets one token  *)
(* at a time, and the bounds are counted as the text goes by.  What they   *)
(* must agree with is the grammar, which knows nothing of either order     *)
(* (Reference, at the end).                                                *)
(*                                                                         *)
(* A text is revealed token by token to both parsers at once.  A token is  *)
(* a lexeme up to the next delimiter; a string is its code units: "a" and  *)
(* its escape "A", an astral scalar "P" and its two escaped surrogates     *)
(* "hi", "lo", and "bad" for what ends the string as malformed.  A number  *)
(* is ordinary, too long, or infinite as a float.                          *)
(***************************************************************************)
EXTENDS Integers, Sequences, SequencesExt

CONSTANTS
  Strings,     \* the strings a text may hold
  Lexemes,     \* its other lexemes: some of Numbers and Words, "junk"
  Raws,        \* what the caller may pass, "text" among them
  MaxTokens,   \* bound: tokens in a text
  MaxDepth,    \* deepest nesting allowed
  MaxNodes,    \* values allowed
  MaxMembers,  \* members allowed in an object
  MaxItems,    \* items allowed in an array
  MaxString,   \* code points allowed in a string
  MaxTotal,    \* code points allowed in a statement
  MaxCanonical \* bytes allowed in the canonical form of an artifact

Structure == {"{", "}", "[", "]", ":", ","}
Numbers == {"number", "long", "infinite"}
Words == {"null", "word"}                  \* "word" is true or false
Tokens == [t : Structure \cup Lexemes] \cup [t : {"string"}, units : Strings]

NoValue == [t |-> "none"]
Discarded == [t |-> "discarded"]
Text(s) == [t |-> "string", scalars |-> s]
Compound(kind, items) == [t |-> kind, items |-> items]   \* kind is "{" or "["

VARIABLES
  raw,   \* what the caller passed
  text,  \* the tokens read so far
  ended, \* there are no more
  full,  \* the parser of statements
  fast   \* the parser of approvals artifacts

vars == <<raw, text, ended, full, fast>>

-----------------------------------------------------------------------------
(* Strings *)

Broken(token) == "bad" \in Range(token.units)

Surrogate(u) == u \in {"hi", "lo"}

(* What a spelling stands for; a surrogate without its partner is kept, so *)
(* that two keys compare the same whether or not they are sound.           *)
RECURSIVE Scalars(_)
Scalars(units) ==
  IF units = <<>> THEN <<>>
  ELSE IF Len(units) > 1 /\ units[1] = "hi" /\ units[2] = "lo"
       THEN <<"P">> \o Scalars(SubSeq(units, 3, Len(units)))
       ELSE <<IF units[1] = "A" THEN "a" ELSE units[1]>> \o Scalars(Tail(units))

-----------------------------------------------------------------------------
(* Trees *)

Children(v) ==
  CASE v.t = "{" -> [i \in DOMAIN v.items |-> v.items[i].value]
    [] v.t = "[" -> v.items
    [] OTHER -> <<>>

RECURSIVE Walk(_, _)
Walk(v, depth) ==
  <<[depth |-> depth, value |-> v]>>
    \o FlattenSeq([i \in DOMAIN Children(v) |-> Walk(Children(v)[i], depth + 1)])

Nodes(v) == Walk(v, 0)

StringsAt(v) ==
  CASE v.t = "{" -> [i \in DOMAIN v.items |-> v.items[i].key]
    [] v.t = "string" -> <<v.scalars>>
    [] OTHER -> <<>>

StringsOf(v) == FlattenSeq([i \in DOMAIN Nodes(v) |-> StringsAt(Nodes(v)[i].value)])

SumOf(numbers) == FoldLeft(LAMBDA sum, n: sum + n, 0, numbers)

Lengths(strings) == [i \in DOMAIN strings |-> Len(strings[i])]

Repeats(v) ==
  \E n \in Range(Nodes(v)) :
    /\ n.value.t = "{"
    /\ \E i, j \in DOMAIN n.value.items : i < j /\ n.value.items[i].key = n.value.items[j].key

Unpaired(v) == \E s \in Range(StringsOf(v)) : \E u \in Range(s) : Surrogate(u)

(* The bounds of a whole tree that it does not keep. *)
Excesses(v) ==
  {d \in {"depth", "nodes", "members", "items", "string", "total", "number"} :
     CASE d = "depth" -> \E n \in Range(Nodes(v)) : n.depth > MaxDepth
       [] d = "nodes" -> Len(Nodes(v)) > MaxNodes
       [] d = "members" -> \E n \in Range(Nodes(v)) : n.value.t = "{" /\ Len(n.value.items) > MaxMembers
       [] d = "items" -> \E n \in Range(Nodes(v)) : n.value.t = "[" /\ Len(n.value.items) > MaxItems
       [] d = "string" -> \E s \in Range(StringsOf(v)) : Len(s) > MaxString
       [] d = "total" -> SumOf(Lengths(StringsOf(v))) > MaxTotal
       [] OTHER -> \E n \in Range(Nodes(v)) : n.value.t \in {"long", "infinite"}}

(* The bytes of the canonical form: an astral scalar takes two escapes.    *)
StringBytes(s) == 2 + SumOf([i \in DOMAIN s |-> IF s[i] = "P" THEN 12 ELSE 1])

Bytes(v) ==
  CASE v.t \notin {"string", "[", "{"} -> 4
    [] v.t = "string" -> StringBytes(v.scalars)
    [] OTHER -> LET n == Len(v.items)
                    commas == IF n = 0 THEN 0 ELSE n - 1
                IN 2 + commas + IF v.t = "[" THEN 0 ELSE n + SumOf([i \in 1..n |-> StringBytes(v.items[i].key)])

CanonicalSize(v) == SumOf([i \in DOMAIN Nodes(v) |-> Bytes(Nodes(v)[i].value)])

-----------------------------------------------------------------------------
(* Frames, common to both parsers *)

Frame(kind, depth, retain) ==
  [kind |-> kind, depth |-> depth, retain |-> retain, count |-> 0, items |-> <<>>, keys |-> <<>>,
   key |-> NoValue, pending |-> FALSE, state |-> IF kind = "{" THEN "key_or_end" ELSE "value_or_end"]

Closer(frame) == IF frame.kind = "{" THEN "}" ELSE "]"

Top(p) == p.frames[Len(p.frames)]
WithTop(p, frame) == [p EXCEPT !.frames[Len(p.frames)] = frame]
Push(p, frame) == [p EXCEPT !.frames = Append(@, frame)]

Stop(p, state, why) == [p EXCEPT !.state = state, !.why = why]
Malformed(p) == Stop(p, "grammar", "grammar")
Reading(p) == p.state = "reading"
Complete(p) == p.root # NoValue /\ p.frames = <<>>

(* A value takes its place in the frame above, or is the root; what is not *)
(* retained leaves its place empty.                                        *)
Attach(p, value) ==
  IF p.frames = <<>> THEN [p EXCEPT !.root = value]
  ELSE LET f == Top(p)
           kept == f.pending /\ value # Discarded
           item == IF f.kind = "{" THEN [key |-> f.key, value |-> value] ELSE value
       IN WithTop(p, [f EXCEPT !.items = IF kept THEN Append(@, item) ELSE @,
                               !.key = NoValue, !.pending = FALSE, !.state = "comma_or_end"])

Close(p) ==
  LET f == Top(p)
  IN Attach([p EXCEPT !.frames = Front(@)], IF f.retain THEN Compound(f.kind, f.items) ELSE Discarded)

(* The part of a frame that is the same in both: the colon after a key, a  *)
(* comma or the end after a value.                                         *)
Punctuate(p, t) ==
  LET f == Top(p)
  IN CASE f.state = "colon" /\ t = ":" -> WithTop(p, [f EXCEPT !.state = "value"])
       [] f.state = "comma_or_end" /\ t = "," -> WithTop(p, [f EXCEPT !.state = IF f.kind = "{" THEN "key" ELSE "value"])
       [] f.state = "comma_or_end" /\ t = Closer(f) -> Close(p)
       [] OTHER -> Malformed(p)

-----------------------------------------------------------------------------
(* The parser of statements *)

Begin == [state |-> "reading", why |-> "none", frames |-> <<>>, root |-> NoValue, first |-> "none",
          repeated |-> FALSE, unpaired |-> FALSE, nodes |-> 0, total |-> 0]

(* Of the bounds exceeded only the first met is kept. *)
Note(p, excess) == IF p.first = "none" THEN [p EXCEPT !.first = excess] ELSE p
NoteIf(p, cond, excess) == IF cond THEN Note(p, excess) ELSE p

BeginValue(p, depth) ==
  LET deep == NoteIf(p, depth > MaxDepth, "depth")
      many == NoteIf(deep, p.nodes >= MaxNodes, "nodes")
  IN [many EXCEPT !.nodes = IF @ <= MaxNodes THEN @ + 1 ELSE @]

Begun(p, depth, retain) == retain /\ depth <= MaxDepth /\ p.nodes < MaxNodes

(* A string as it is scanned: the high surrogate that waits for its        *)
(* partner, the code points counted, those kept while all may be kept.     *)
Scalar(s, u) ==
  LET own == s.count < MaxString
      all == s.p.total < MaxTotal
      noted == NoteIf(NoteIf(s.p, ~ own, "string"), ~ all, "total")
      kept == s.keep /\ own /\ all
  IN [s EXCEPT !.p = [noted EXCEPT !.total = IF all THEN @ + 1 ELSE @],
               !.count = @ + 1, !.keep = kept, !.pieces = IF kept THEN Append(@, u) ELSE @]

Spoil(s) == [s EXCEPT !.p.unpaired = TRUE, !.keep = FALSE, !.waiting = FALSE]

Unit(s, u) ==
  LET left == IF s.waiting /\ u # "lo" THEN Spoil(s) ELSE s
  IN CASE s.waiting /\ u = "lo" -> Scalar([s EXCEPT !.waiting = FALSE], "P")
       [] u = "hi" -> [left EXCEPT !.waiting = TRUE]
       [] u = "lo" -> Spoil(left)
       [] OTHER -> Scalar(left, IF u = "A" THEN "a" ELSE u)

\* Mutant: a high surrogate at the end of a string is forgotten
ScanStringForgets(p, token, retain) ==
  LET all == FoldLeft(Unit, [p |-> p, waiting |-> FALSE, count |-> 0, keep |-> retain, pieces |-> <<>>], token.units)
  IN [p |-> all.p, value |-> IF all.keep THEN Text(all.pieces) ELSE Discarded]

ScanString(p, token, retain) ==
  LET all == FoldLeft(Unit, [p |-> p, waiting |-> FALSE, count |-> 0, keep |-> retain, pieces |-> <<>>], token.units)
      end == IF all.waiting THEN Spoil(all) ELSE all
  IN [p |-> end.p, value |-> IF end.keep THEN Text(end.pieces) ELSE Discarded]

(* A key is compared with every earlier key of its object, retained or not. *)
FullKey(p, token) ==
  LET f == Top(p)
      retain == f.retain /\ f.count < MaxMembers
      read == ScanString(NoteIf(p, f.count >= MaxMembers, "members"), token, retain)
      again == \E i \in DOMAIN f.keys : f.keys[i] = Scalars(token.units)
      q == [read.p EXCEPT !.repeated = @ \/ again]
  IN IF Broken(token) THEN Malformed(p)
     ELSE WithTop(q, [f EXCEPT !.keys = Append(@, Scalars(token.units)),
                               !.count = IF @ <= MaxMembers THEN @ + 1 ELSE @,
                               !.key = IF read.value = Discarded THEN NoValue ELSE read.value.scalars,
                               !.pending = read.value # Discarded, !.state = "colon"])

FullValue(p, token, depth, asked) ==
  LET q == BeginValue(p, depth)
      retain == Begun(p, depth, asked)
      read == ScanString(q, token, retain)
  IN CASE token.t \in {"{", "["} -> Push(q, Frame(token.t, depth, retain))
       [] token.t = "string" -> IF Broken(token) THEN Malformed(p) ELSE Attach(read.p, read.value)
       [] token.t = "long" -> Attach(Note(q, "number"), Discarded)
       [] token.t \in Words \cup {"number", "infinite"} -> Attach(q, IF retain THEN [t |-> token.t] ELSE Discarded)
       [] OTHER -> Malformed(p)

FullItem(p, token) ==
  LET f == Top(p)
      retain == f.retain /\ f.count < MaxItems
      q == WithTop(NoteIf(p, f.count >= MaxItems, "items"),
                   [f EXCEPT !.count = IF @ <= MaxItems THEN @ + 1 ELSE @, !.pending = retain])
  IN FullValue(q, token, f.depth + 1, retain)

FullStep(p, token) ==
  IF p.frames = <<>>
  THEN IF Complete(p) THEN Stop(p, "grammar", "trailing") ELSE FullValue(p, token, 0, TRUE)
  ELSE LET f == Top(p)
       IN CASE f.state \in {"key_or_end", "value_or_end"} /\ token.t = Closer(f) -> Close(p)
            [] f.state \in {"key_or_end", "key"} -> IF token.t = "string" THEN FullKey(p, token) ELSE Malformed(p)
            [] f.state \in {"value_or_end", "value"} /\ f.kind = "[" -> FullItem(p, token)
            [] f.state = "value" -> FullValue(p, token, f.depth + 1, f.pending)
            [] OTHER -> Punctuate(p, token.t)

(* The second passes over the retained tree, and the rank of the defects.  *)
Normalized(v) == ~ Unpaired(v)

FullEnd(p) ==
  CASE ~ Complete(p) -> Malformed(p)
    [] p.repeated -> Stop(p, "duplicate", "duplicate")
    [] p.root # Discarded /\ Repeats(p.root) -> Stop(p, "duplicate", "duplicate")
    [] p.unpaired -> Stop(p, "surrogate", "surrogate")
    [] p.first # "none" -> Stop(p, "resource", p.first)
    [] p.root = Discarded \/ ~ Normalized(p.root) -> Stop(p, "broken", "broken")
    [] Excesses(p.root) # {} -> Stop(p, "resource", CHOOSE d \in Excesses(p.root) : TRUE)
    [] OTHER -> Stop(p, "valid", "none")

-----------------------------------------------------------------------------
(* The parser of approvals artifacts *)

Excess(p, d) == Stop(p, "resource", d)

(* The first defect of a string, unit by unit; a high surrogate asks for   *)
(* its partner at once.                                                    *)
RECURSIVE StringDefect(_, _)
StringDefect(units, count) ==
  LET pair == Len(units) > 1 /\ units[1] = "hi" /\ units[2] = "lo"
  IN CASE units = <<>> -> "none"
       [] units[1] = "bad" -> "grammar"
       [] Surrogate(units[1]) /\ ~ pair -> "surrogate"
       [] count >= MaxString -> "string"
       [] OTHER -> StringDefect(SubSeq(units, IF pair THEN 3 ELSE 2, Len(units)), count + 1)

Refused(p, defect) ==
  CASE defect = "grammar" -> Malformed(p)
    [] defect = "surrogate" -> Stop(p, "surrogate", "surrogate")
    [] OTHER -> Excess(p, defect)

FastKey(p, token) ==
  LET f == Top(p)
      key == Scalars(token.units)
      defect == StringDefect(token.units, 0)
  IN CASE defect # "none" -> Refused(p, defect)
       [] key \in Range(f.keys) -> Stop(p, "duplicate", "duplicate")
       [] OTHER -> WithTop(p, [f EXCEPT !.keys = Append(@, key), !.key = key, !.state = "colon"])

(* Depth, then values, then the container's own bound, then the token.     *)
FastValue(p, token, depth, crowded, bound) ==
  LET q == [p EXCEPT !.nodes = @ + 1]
      defect == StringDefect(token.units, 0)
  IN CASE depth > MaxDepth -> Excess(p, "depth")
       [] p.nodes + 1 > MaxNodes -> Excess(p, "nodes")
       [] crowded -> Excess(p, bound)
       [] token.t \in {"{", "["} -> Push(q, Frame(token.t, depth, TRUE))
       [] token.t = "string" -> IF defect # "none" THEN Refused(p, defect) ELSE Attach(q, Text(Scalars(token.units)))
       [] token.t = "null" -> Attach(q, [t |-> "null"])
       [] token.t \in Numbers \cup {"word"} -> Stop(p, "unsupported", "unsupported")
       [] OTHER -> Malformed(p)

FastStep(p, token) ==
  IF p.frames = <<>>
  THEN IF Complete(p) THEN Stop(p, "grammar", "trailing") ELSE FastValue(p, token, 0, FALSE, "none")
  ELSE LET f == Top(p)
           q == WithTop(p, [f EXCEPT !.pending = TRUE])
       IN CASE f.state \in {"key_or_end", "value_or_end"} /\ token.t = Closer(f) -> Close(p)
            [] f.state \in {"key_or_end", "key"} -> IF token.t = "string" THEN FastKey(p, token) ELSE Malformed(p)
            [] f.state \in {"value_or_end", "value"} /\ f.kind = "[" ->
                 FastValue(q, token, f.depth + 1, Len(f.items) >= MaxItems, "items")
            [] f.state = "value" -> FastValue(q, token, f.depth + 1, Len(f.items) >= MaxMembers, "members")
            [] OTHER -> Punctuate(p, token.t)

FastEnd(p) ==
  CASE ~ Reading(p) -> p
    [] p.frames # <<>> /\ Top(p).kind = "{" /\ Top(p).state = "value" -> FastStep(p, [t |-> "end"])
    [] ~ Complete(p) -> Malformed(p)
    [] CanonicalSize(p.root) > MaxCanonical -> Excess(p, "canonical")
    [] OTHER -> Stop(p, "valid", "none")

-----------------------------------------------------------------------------
(* What is not text is refused before any token is looked at. *)
Boundary(r) ==
  CASE r = "absent" -> "absent"
    [] r = "foreign" -> "type"
    [] r \in {"empty", "oversize"} -> "size"
    [] r \in {"bom", "undecodable"} -> "encoding"
    [] OTHER -> "reading"

Init ==
  /\ raw \in Raws
  /\ text = <<>>
  /\ ended = FALSE
  /\ full = [Begin EXCEPT !.state = Boundary(raw)]
  /\ fast = [Begin EXCEPT !.state = Boundary(raw)]

Read ==
  /\ Reading(full) /\ Len(text) < MaxTokens
  /\ \E token \in Tokens :
       /\ text' = Append(text, token)
       /\ full' = FullStep(full, token)
       /\ fast' = IF Reading(fast) THEN FastStep(fast, token) ELSE fast
  /\ UNCHANGED <<raw, ended>>

End ==
  /\ Reading(full)
  /\ ended' = TRUE
  /\ full' = FullEnd(full)
  /\ fast' = FastEnd(fast)
  /\ UNCHANGED <<raw, text>>

Next == Read \/ End

Spec == Init /\ [][Next]_vars

(* The checks a result says were made, and those it says the text passed. *)
Stages == <<"encoding", "grammar", "duplicate", "surrogate", "resource">>

Performed(state) ==
  CASE state \in {"absent", "type", "size"} -> {}
    [] state = "valid" -> Range(Stages)
    [] OTHER -> {Stages[i] : i \in {i \in DOMAIN Stages : \E j \in DOMAIN Stages : i <= j /\ Stages[j] = state}}

Passed(state) == Performed(state) \ {state}

-----------------------------------------------------------------------------
(* Reference: the grammar of JSON, by where its commas are.                *)

Open == {"{", "["}
Shut == {"}", "]"}
Count(ts, kinds) == Len(SelectSeq(ts, LAMBDA token: token.t \in kinds))
Level(ts, i) == Count(SubSeq(ts, 1, i - 1), Open) - Count(SubSeq(ts, 1, i - 1), Shut)

RECURSIVE Parts(_)
Parts(ts) ==
  LET commas == {i \in DOMAIN ts : ts[i].t = "," /\ Level(ts, i) = 0}
      first == CHOOSE i \in commas : \A j \in commas : i <= j
  IN IF commas = {} THEN <<ts>> ELSE <<SubSeq(ts, 1, first - 1)>> \o Parts(SubSeq(ts, first + 1, Len(ts)))

Sound(token) == token.t = "string" /\ ~ Broken(token)
IsMember(part) == Len(part) > 2 /\ Sound(part[1]) /\ part[2].t = ":"
ValueOf(part) == SubSeq(part, 3, Len(part))

(* The tree a text stands for, if it stands for one. *)
RECURSIVE Trees(_)
Trees(ts) ==
  LET inner == SubSeq(ts, 2, Len(ts) - 1)
      parts == IF inner = <<>> THEN <<>> ELSE Parts(inner)
      Only(part) == CHOOSE v \in Trees(part) : TRUE
  IN IF ts = <<>> THEN {}
     ELSE IF Len(ts) = 1
     THEN IF Sound(ts[1]) THEN {Text(Scalars(ts[1].units))}
          ELSE IF ts[1].t \in Numbers \cup Words THEN {[t |-> ts[1].t]} ELSE {}
     ELSE IF ts[1].t = "{" /\ Last(ts).t = "}" /\ \A i \in DOMAIN parts : IsMember(parts[i]) /\ Trees(ValueOf(parts[i])) # {}
     THEN {Compound("{", [i \in DOMAIN parts |-> [key |-> Scalars(parts[i][1].units), value |-> Only(ValueOf(parts[i]))]])}
     ELSE IF ts[1].t = "[" /\ Last(ts).t = "]" /\ \A i \in DOMAIN parts : Trees(parts[i]) # {}
     THEN {Compound("[", [i \in DOMAIN parts |-> Only(parts[i])])}
     ELSE {}

(* A beginning some text has: one filler and the missing brackets end it. *)
RECURSIVE Missing(_)
Missing(ts) ==
  LET opened == {i \in DOMAIN ts : ts[i].t \in Open /\ \A j \in (i + 1)..(Len(ts) + 1) : Level(ts, j) > Level(ts, i)}
      last == CHOOSE i \in opened : \A j \in opened : j <= i
  IN IF opened = {} THEN <<>>
     ELSE <<[t |-> IF ts[last].t = "{" THEN "}" ELSE "]"]>> \o Missing(SubSeq(ts, 1, last - 1))

Fillers ==
  LET null == [t |-> "null"]
      colon == [t |-> ":"]
  IN {<<>>, <<null>>, <<colon, null>>, <<[t |-> "string", units |-> <<>>], colon, null>>}

Viable(ts) == \E filler \in Fillers : Trees(ts \o filler \o Missing(ts)) # {}

(* What the rank of the defects makes of a whole text. *)
Verdict(v) ==
  CASE Repeats(v) -> "duplicate"
    [] Unpaired(v) -> "surrogate"
    [] Excesses(v) # {} -> "resource"
    [] OTHER -> "valid"

Unsupported(v) == \E n \in Range(Nodes(v)) : n.value.t \in Numbers \cup {"word"}

Defects(v) ==
  (Excesses(v) \ {"total", "number"})
    \cup {d \in {"duplicate", "surrogate", "unsupported", "canonical"} :
            CASE d = "duplicate" -> Repeats(v)
              [] d = "surrogate" -> Unpaired(v)
              [] d = "unsupported" -> Unsupported(v)
              [] OTHER -> CanonicalSize(v) > MaxCanonical}

-----------------------------------------------------------------------------
(* However much of a statement it declines to retain, the parser refuses   *)
(* as malformed exactly the texts no continuation of which is JSON, never  *)
(* runs into its own invariant, gives the first rank among the defects the *)
(* whole text has and a bound the text really exceeds, returns the tree of *)
(* the text when it has none, and claims no check the text does not pass.  *)
StatementMeetsGrammar ==
  raw = "text" /\ ~ Reading(full) =>
    IF full.state = "grammar"
    THEN /\ IF ended THEN Trees(text) = {} ELSE ~ Viable(text)
         /\ full.why = "trailing" <=> ~ ended /\ Trees(Front(text)) # {}
    ELSE \E v \in Trees(text) :
           /\ full.state = Verdict(v)
           /\ full.state = "resource" => full.why \in Excesses(v)
           /\ full.state = "valid" => full.root = v
           /\ "duplicate" \in Passed(full.state) => ~ Repeats(v)
           /\ "surrogate" \in Passed(full.state) => ~ Unpaired(v)

(* Refusing at the first defect accepts no more and no fewer artifacts:    *)
(* one is valid just when it is JSON without a defect, its value is the    *)
(* tree of the text, and a refusal names a defect the text has.            *)
ArtifactMeetsGrammar ==
  raw = "text" /\ ~ Reading(full) =>
    /\ ~ Reading(fast)
    /\ fast.state = "valid" => fast.root \in Trees(text) /\ ended
    /\ ended => \A v \in Trees(text) :
         IF Defects(v) = {} THEN fast.state = "valid"
         ELSE fast.state # "valid" /\ (IF fast.state = "resource" THEN fast.why ELSE fast.state) \in Defects(v)
=============================================================================
