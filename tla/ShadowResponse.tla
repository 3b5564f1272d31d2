--------------------------- MODULE ShadowResponse ---------------------------
(***************************************************************************)
(* An analyst's answer to the weekly shadow prompt, against the package it *)
(* was asked about (observability/weekly_shadow_01_response_validator.py,  *)
(* and the prompt of weekly_shadow_01_package_builder.py).                 *)
(*                                                                         *)
(* The validator keeps nothing of what it handed out: it builds the        *)
(* package again from the generation that is on disk when the answer       *)
(* comes.  The analyst is free: an answer is a right one to any prompt     *)
(* handed out, with any one thing in it wrong.                             *)
(***************************************************************************)
EXTENDS Integers, FiniteSetsExt, SequencesExt

CONSTANTS
  Packages,        \* what the selected generation may come to
  Texts,           \* bound: what a statement may say, as letters and marks
  Term,            \* the words an answer may not say, as one of its texts
  MaxEntries,      \* max_entries_per_analytical_section
  MaxTotal,        \* max_total_analytical_entries
  MaxReferences,   \* max_references_per_entry
  MaxText,         \* max_aggregate_analyst_text_code_points
  MaxChanges       \* bound: how often the generation or the contracts change

VARIABLES
  current,   \* the package the generation on disk comes to
  contracts, \* the contract module and the four schemas on disk
  changes,   \* how often they changed
  handed,    \* the packages whose prompts were handed out
  answer,    \* the answer that came, and the package it was written to
  at,        \* the next step of the validation
  package,   \* the package it built
  read,      \* the contracts it read
  verdict,   \* the reason it gave, or "VALID"
  captured   \* what it captured

vars == <<current, contracts, changes, handed, answer, at, package, read, verdict, captured>>

Nothing == {}
Files == {"module", "response", "capture", "validation", "report", "summary"}

(***************************************************************************)
(* Answers.  Bytes say what they parse to, or how they do not.             *)
(***************************************************************************)
Sections == <<"observations", "risks_and_uncertainties", "missing_evidence_notes">>
EvidenceIds(p) == {p.evidence[i].id : i \in DOMAIN p.evidence}
DiagnosticIds(p) == p.diagnostics

Entry(id, refs, says) == [id |-> id, refs |-> refs, says |-> says]
Right(p) ==
  LET any == CHOOSE id \in EvidenceIds(p) : TRUE
      note == CHOOSE id \in DiagnosticIds(p) : TRUE
  IN [form |-> "object", key |-> "none", run |-> p.id, package |-> p.id, template |-> "frozen",
      generation |-> p.generation, authority |-> "none", conclusion |-> "MIXED",
      artifacts |-> p.artifacts, evidence |-> p.evidence, limitations |-> <<>>, extra |-> FALSE,
      observations |-> <<Entry("a", <<any>>, <<"x">>)>>,
      risks_and_uncertainties |-> <<>>,
      missing_evidence_notes |-> <<Entry("b", <<note>>, <<"x">>)>>]

Forms == {"missing", "oversized", "unreadable", "duplicate", "unparsable", "list"}
Others(s) == {Front(s), Append(s, s[1]), Reverse(s)} \ {s, <<>>}

\* One thing wrong, or only another way to be right.
Answers(p) ==
  LET right == Right(p)
      ids == UNION {EvidenceIds(q) \cup DiagnosticIds(q) : q \in Packages}
      refs == UNION {[1..n -> ids] : n \in 1..2}
  IN {right} \cup {[right EXCEPT !.form = f] : f \in Forms}
       \cup {[right EXCEPT !.key = k] : k \in {"prohibited", "deep"}} \cup {[right EXCEPT !.extra = TRUE]}
       \cup UNION {{[right EXCEPT !.run = q.id], [right EXCEPT !.package = q.id], [right EXCEPT !.generation = q.generation],
                    [right EXCEPT !.artifacts = q.artifacts], [right EXCEPT !.evidence = q.evidence]} : q \in Packages}
       \cup {[right EXCEPT !.template = "other"], [right EXCEPT !.authority = "some"]}
       \cup {[right EXCEPT !.conclusion = c] : c \in {"NONE", "BUY"}}
       \cup {[right EXCEPT !.artifacts = s] : s \in Others(right.artifacts)} \cup {[right EXCEPT !.evidence = s] : s \in Others(right.evidence)}
       \cup {[right EXCEPT !.observations[1].says = t] : t \in Texts}
       \cup {[right EXCEPT !.observations[1].refs = s] : s \in refs}
       \cup {[right EXCEPT !.missing_evidence_notes[1].refs = s] : s \in refs}
       \cup {[right EXCEPT !.risks_and_uncertainties = <<Entry(id, <<ref>>, <<"x">>)>>] : id \in {"a", "c"}, ref \in ids}
       \cup {[right EXCEPT !.missing_evidence_notes = @ \o <<Entry("c", s, <<"x">>)>>] : s \in refs}
       \cup {[right EXCEPT !.observations = @ \o <<Entry("c", @[1].refs, <<"x">>), Entry("d", @[1].refs, <<"x">>)>>]}
       \cup {[right EXCEPT !.limitations = <<[code |-> "l", refs |-> <<ref>>]>>] : ref \in ids}
       \cup {[right EXCEPT !.limitations = <<[code |-> "l", refs |-> right.observations[1].refs], [code |-> m, refs |-> right.observations[1].refs]>>] : m \in {"l", "m"}}

(***************************************************************************)
(* A term is looked for among the words: marks end a word, and what is     *)
(* between two words is one space.                                         *)
(***************************************************************************)
Mark == "-"
Normalized(text) ==
  LET Take(acc, c) ==
        IF c = Mark THEN [acc EXCEPT !.pending = acc.out # <<>>]
        ELSE [out |-> (IF acc.pending THEN Append(acc.out, Mark) ELSE acc.out) \o <<c>>, pending |-> FALSE]
  IN FoldLeft(Take, [out |-> <<>>, pending |-> FALSE], text).out

Padded(text) == <<Mark>> \o Normalized(text) \o <<Mark>>

\* Mutant: the term is looked for without the spaces around it.
ContainsAnywhere(text) ==
  \E i, j \in DOMAIN Padded(text) : SubSeq(Padded(text), i, j) = Normalized(Term)

ContainsTerm(text) ==
  \E i, j \in DOMAIN Padded(text) : SubSeq(Padded(text), i, j) = Padded(Term)

(***************************************************************************)
(* The checks, in their order; a check answers the reason, or "OK".        *)
(***************************************************************************)
EntriesOf(r) == FoldLeft(LAMBDA acc, s : acc \o r[s], <<>>, Sections)
References(s) == [i \in DOMAIN s |-> s[i].refs]
Total(lengths) == FoldLeft(LAMBDA sum, n : sum + n, 0, lengths)

Parse(r) ==
  CASE r.form = "missing"    -> "RESPONSE_MISSING"
    [] r.form = "oversized"  -> "RESPONSE_OVERSIZED"
    [] r.form = "unreadable" -> "RESPONSE_UNREADABLE"
    [] r.form = "duplicate"  -> "RESPONSE_DUPLICATE_KEY"
    [] r.form = "unparsable" -> "RESPONSE_PARSE_FAILED"
    [] r.form = "list"       -> "RESPONSE_SCHEMA_INVALID"
    [] OTHER                 -> "OK"

Resources(r) == IF r.key = "deep" THEN "RESOURCE_BOUND_EXCEEDED" ELSE "OK"

Prohibited(r) ==
  CASE r.key = "prohibited" -> "PROHIBITED_KEY"
    [] \E e \in ToSet(EntriesOf(r)) : ContainsTerm(e.says) -> "PROHIBITED_INTENT"
    [] OTHER -> "OK"

Ids(bindings) == [i \in DOMAIN bindings |-> bindings[i].id]
Cardinal(actual, expected) ==
  CASE Len(actual) < Len(expected) -> "ECHO_INCOMPLETE"
    [] Len(actual) > Len(expected) -> "ECHO_UNEXPECTED"
    [] ~(ToSet(Ids(expected)) \subseteq ToSet(Ids(actual))) -> "ECHO_INCOMPLETE"
    [] ~(ToSet(Ids(actual)) \subseteq ToSet(Ids(expected))) -> "ECHO_UNEXPECTED"
    [] Ids(actual) # Ids(expected) -> "CROSS_FIELD_INVALID"
    [] OTHER -> "OK"

Schema(r) ==
  IF \/ r.extra \/ r.authority # "none" \/ r.conclusion = "BUY"
     \/ \E s \in ToSet(Sections) : Len(r[s]) > MaxEntries
     \/ \E refs \in ToSet(References(EntriesOf(r)) \o References(r.limitations)) :
          Len(refs) \notin 1..MaxReferences \/ ~IsInjective(refs)
  THEN "RESPONSE_SCHEMA_INVALID" ELSE "OK"

Bindings(r, p) ==
  CASE r.run # p.id                -> "RUN_BINDING_MISMATCH"
    [] r.package # p.id            -> "PACKAGE_BINDING_MISMATCH"
    [] r.template # "frozen"       -> "PROMPT_TEMPLATE_BINDING_MISMATCH"
    [] r.generation # p.generation -> "SOURCE_GENERATION_BINDING_MISMATCH"
    [] OTHER                       -> "OK"

Echo(actual, expected) == IF actual # expected THEN "CROSS_FIELD_INVALID" ELSE "OK"

SectionsFit(r, p) ==
  CASE ~IsInjective(Ids(EntriesOf(r))) -> "CROSS_FIELD_INVALID"
    [] \E i \in 1..3 : \E e \in ToSet(r[Sections[i]]) :
         ~(ToSet(e.refs) \subseteq (IF i = 3 THEN DiagnosticIds(p) ELSE EvidenceIds(p)))
         -> "EVIDENCE_REFERENCE_INVALID"
    [] OTHER -> "OK"

LimitationsFit(r, p) ==
  LET l == r.limitations IN
  CASE ~IsInjective([i \in DOMAIN l |-> l[i].code]) -> "CROSS_FIELD_INVALID"
    [] \E x \in ToSet(l) : ~(ToSet(x.refs) \subseteq EvidenceIds(p)) -> "EVIDENCE_REFERENCE_INVALID"
    [] OTHER -> "OK"

Totals(r) ==
  LET entries == EntriesOf(r)
      notes == FlattenSeq(References(r.missing_evidence_notes))
  IN CASE Len(entries) + Len(r.limitations) > MaxTotal -> "RESOURCE_BOUND_EXCEEDED"
       [] Total([i \in DOMAIN entries |-> Len(entries[i].says)]) > MaxText -> "RESOURCE_BOUND_EXCEEDED"
       [] ~IsInjective(notes) -> "CROSS_FIELD_INVALID"
       [] OTHER -> "OK"

Verdicts(r, p) ==
  <<Parse(r), Resources(r), Prohibited(r), Cardinal(r.artifacts, p.artifacts), Cardinal(r.evidence, p.evidence),
    Schema(r), Bindings(r, p), Echo(r.artifacts, p.artifacts), Echo(r.evidence, p.evidence),
    SectionsFit(r, p), LimitationsFit(r, p), Totals(r)>>

FirstReason(r, p) ==
  LET wrong == SelectSeq(Verdicts(r, p), LAMBDA v : v # "OK")
  IN IF wrong = <<>> THEN "VALID" ELSE wrong[1]

(***************************************************************************)
(* Rendering, the analyst, the disk, and the validation.                   *)
(***************************************************************************)
Init ==
  /\ current \in Packages
  /\ contracts = [f \in Files |-> "frozen"]
  /\ changes = 0
  /\ handed = Nothing
  /\ answer = Nothing
  /\ at = "idle"
  /\ package = Nothing /\ read = Nothing
  /\ verdict = "none"
  /\ captured = Nothing

\* Where nothing reads them any more, changes are left out.
Change ==
  /\ changes < MaxChanges
  /\ changes' = changes + 1
  /\ \/ /\ at = "idle"
        /\ current' \in Packages \ {current}
        /\ UNCHANGED contracts
     \/ /\ answer # Nothing /\ at \in {"idle", "contracts", "again"}
        /\ \E f \in Files : contracts' = [contracts EXCEPT ![f] = IF @ = "frozen" THEN "other" ELSE "frozen"]
        /\ UNCHANGED current
  /\ UNCHANGED <<handed, answer, at, package, read, verdict, captured>>

RenderPrompt ==
  /\ at = "idle" /\ answer = Nothing
  /\ handed' = handed \cup {current}
  /\ UNCHANGED <<current, contracts, changes, answer, at, package, read, verdict, captured>>

Answer ==
  /\ at = "idle" /\ answer = Nothing
  /\ \E p \in handed : \E r \in Answers(p) : answer' = {[to |-> p, says |-> r]}
  /\ UNCHANGED <<current, contracts, changes, handed, at, package, read, verdict, captured>>

Stop(reason) ==
  /\ at' = "done" /\ verdict' = reason
  /\ UNCHANGED captured

Build ==
  /\ at = "idle" /\ answer # Nothing
  /\ package' = {current}
  /\ IF contracts.module # "frozen" \/ contracts.response # "frozen"
     THEN Stop("INTERNAL_INVARIANT_FAILURE")
     ELSE at' = "contracts" /\ UNCHANGED <<verdict, captured>>
  /\ UNCHANGED <<current, contracts, changes, handed, answer, read>>

\* The surface is the package's; the files are read once more, twice.
ReadContracts ==
  /\ at = "contracts"
  /\ read' = {contracts}
  /\ at' = "again"
  /\ UNCHANGED <<current, contracts, changes, handed, answer, package, verdict, captured>>

\* The files against the surface the package was built under.
ContractsStand(c) == \A f \in Files : c[f] = "frozen"

ReadContractsAgain ==
  /\ at = "again"
  /\ \E c \in read :
       CASE c # contracts -> Stop("SOURCE_READ_UNSTABLE")
         [] c = contracts /\ ~ContractsStand(c) -> Stop("INTERNAL_INVARIANT_FAILURE")
         [] OTHER -> at' = "judge" /\ UNCHANGED <<verdict, captured>>
  /\ UNCHANGED <<current, contracts, changes, handed, answer, package, read>>

Capture(p, r) == [run |-> p.id, package |-> p.id, generation |-> p.generation, raw |-> r]

\* What the report is made from.
Content(r) == [f \in ToSet(Sections) \cup {"conclusion", "limitations"} |-> r[f]]
Downstream(p, r) == [run |-> r.run, package |-> r.package, capture |-> Capture(p, r), content |-> Content(r)]

Judge ==
  /\ at = "judge"
  /\ \E p \in package, a \in answer :
       IF FirstReason(a.says, p) # "VALID" THEN Stop(FirstReason(a.says, p))
       ELSE /\ at' = "done" /\ verdict' = "VALID"
            /\ captured' = {Downstream(p, a.says)}
  /\ UNCHANGED <<current, contracts, changes, handed, answer, package, read>>

Ended == at = "done" /\ UNCHANGED vars

Next == RenderPrompt \/ Change \/ Answer \/ Build \/ ReadContracts \/ ReadContractsAgain \/ Judge \/ Ended

Spec == Init /\ [][Next]_vars

-----------------------------------------------------------------------------
\* Told without normalising: the term's letters one after another, apart
\* where the term has them apart and only there, and no letter next to them.
Letters(text) == SelectSeq([i \in DOMAIN text |-> i], LAMBDA i : text[i] # Mark)
Says(text) ==
  LET l == Letters(text)  k == Letters(Term) IN
  \E o \in 0..(Len(l) - Len(k)) :
    /\ \A j \in DOMAIN k : text[l[o + j]] = Term[k[j]]
    /\ \A j \in 1..(Len(k) - 1) : (l[o + j + 1] = l[o + j] + 1) = (k[j + 1] = k[j] + 1)
    /\ o > 0 => l[o + 1] > l[o] + 1
    /\ o + Len(k) < Len(l) => l[o + Len(k) + 1] > l[o + Len(k)] + 1

TypeOK ==
  /\ current \in Packages /\ handed \subseteq Packages
  /\ DOMAIN contracts = Files
  /\ changes \in 0..MaxChanges
  /\ captured # Nothing <=> verdict = "VALID"

\* What is captured as valid was written to the very package that is on disk
\* when it is judged, echoes it whole, cites only what that package showed,
\* names each gap once, and says no prohibited words; and nothing else is
\* turned down for its words.
CapturedAnswersPackage ==
  /\ \A c \in captured : \E p \in package, a \in answer :
       /\ a.to = p /\ p \in handed
       /\ c.capture = [run |-> p.id, package |-> p.id, generation |-> p.generation, raw |-> a.says]
       /\ c.run = p.id /\ c.package = p.id /\ \A f \in DOMAIN c.content : c.content[f] = a.says[f]
       /\ a.says.artifacts = p.artifacts /\ a.says.evidence = p.evidence
       /\ \A e \in ToSet(EntriesOf(a.says)) : ~Says(e.says)
       /\ \A s \in ToSet(Sections) : \A x \in ToSet(a.says[s]) :
            \A i \in DOMAIN x.refs : x.refs[i] \in (IF s = "missing_evidence_notes" THEN DiagnosticIds(p) ELSE EvidenceIds(p))
       /\ \A x, y \in ToSet(a.says.missing_evidence_notes) : x # y => ToSet(x.refs) \cap ToSet(y.refs) = {}
  /\ verdict = "PROHIBITED_INTENT" => \E a \in answer : \E e \in ToSet(EntriesOf(a.says)) : Says(e.says)

\* A right answer is turned down only when something changed meanwhile.
RightIsAccepted ==
  at = "done" /\ verdict # "VALID" => changes > 0 \/ \A a \in answer : a.says # Right(a.to)

ResponseIsSound == CapturedAnswersPackage /\ RightIsAccepted
=============================================================================
